------------------------ MODULE ExpertRegistryProofs ------------------------
(***************************************************************************)
(* ExpertRegistry, for every number of experts and slots: the types, that  *)
(* no VRAM or host slot is lost or handed out twice, that no transfer is   *)
(* stranded, that the registry's own audit always passes, that leases and  *)
(* prefill marks pin their residents, and that a stream keeps Warm.        *)
(***************************************************************************)
EXTENDS RegistryRequestProofs, RegistryPrefillProofs, RegistryHostProofs

-----------------------------------------------------------------------------
(* init(). *)

(* The numbers of experts placed, and where a placed expert sits. *)
LEMMA Placement ==
  /\ Len(LoadOrder) \in Nat /\ Hot0 \in 0 .. VramCap /\ Warm0 \in 0 .. HostCap
  /\ Hot0 + Warm0 <= Len(LoadOrder)
  /\ \A i \in 1 .. Len(LoadOrder) : LoadOrder[i] \in Expert /\ At(LoadOrder[i]) = i
  /\ \A i, j \in 1 .. Len(LoadOrder) : LoadOrder[i] = LoadOrder[j] => i = j
<1>1. /\ Len(LoadOrder) \in Nat /\ DOMAIN LoadOrder = 1 .. Len(LoadOrder)
      /\ \A i \in 1 .. Len(LoadOrder) : LoadOrder[i] \in Expert
      /\ \A i, j \in 1 .. Len(LoadOrder) : LoadOrder[i] = LoadOrder[j] => i = j
  BY LoadOrderAssumption DEF IsInjective
<1>2. \A i \in 1 .. Len(LoadOrder) : At(LoadOrder[i]) = i
  <2> SUFFICES ASSUME NEW i \in 1 .. Len(LoadOrder) PROVE At(LoadOrder[i]) = i
    OBVIOUS
  <2>1. \E j \in DOMAIN LoadOrder : LoadOrder[j] = LoadOrder[i]
    BY <1>1
  <2>2. At(LoadOrder[i]) \in DOMAIN LoadOrder /\ LoadOrder[At(LoadOrder[i])] = LoadOrder[i]
    BY <2>1 DEF At
  <2> QED BY <1>1, <2>2
<1>3. /\ Hot0 \in 0 .. VramCap /\ Warm0 \in 0 .. HostCap /\ Hot0 + Warm0 <= Len(LoadOrder)
  <2>1. PICK n \in Nat : n = Len(LoadOrder)
    BY <1>1, Zenon
  <2>2. Hot0 \in Nat /\ Hot0 <= VramCap /\ Hot0 <= n
    BY <2>1, CapacityAssumption DEF Hot0
  <2>3. /\ Warm0 = 0 \/ (Warm0 = HostCap /\ HostCap < n - Hot0)
                     \/ (Warm0 = n - Hot0 /\ ~(HostCap < n - Hot0))
    BY <2>1 DEF Warm0
  <2>4. Warm0 \in Nat /\ Warm0 <= HostCap /\ Hot0 + Warm0 <= n
    BY <2>2, <2>3, CapacityAssumption
  <2> QED BY <2>1, <2>2, <2>4, CapacityAssumption
<1> QED BY <1>1, <1>2, <1>3

(* The loaded registry satisfies the invariant. *)
LEMMA InitIInv == Init => IInv
<1> SUFFICES ASSUME Init PROVE IInv
  OBVIOUS
<1> DEFINE n == Len(LoadOrder)
<1>1. /\ n \in Nat /\ Hot0 \in Nat /\ Hot0 <= VramCap /\ Warm0 \in Nat /\ Warm0 <= HostCap
      /\ Hot0 + Warm0 <= n /\ VramCap \in Nat \ {0} /\ HostCap \in Nat
      /\ \A i \in 1 .. n : LoadOrder[i] \in Expert /\ At(LoadOrder[i]) = i
      /\ \A i, j \in 1 .. n : LoadOrder[i] = LoadOrder[j] => i = j
  BY Placement, CapacityAssumption
<1> HIDE DEF n
<1>2. /\ \A i \in 1 .. Hot0 : i \in 1 .. n
      /\ \A i \in Hot0 + 1 .. Hot0 + Warm0 : i \in 1 .. n
      /\ \A s \in VSlot : s < Hot0 => s + 1 \in 1 .. Hot0
  BY <1>1 DEF VSlot
<1>3. ASSUME NEW e \in HotAtInit
      PROVE  \E i \in 1 .. Hot0 : e = LoadOrder[i] /\ owner[e] = "HOT" /\ slotIdx[e] = i - 1 /\ i - 1 \in VSlot
  <2>1. PICK i \in 1 .. Hot0 : e = LoadOrder[i]
    BY DEF HotAtInit
  <2>2. e \in Expert /\ At(e) = i /\ i - 1 \in VSlot
    BY <1>1, <1>2, <2>1 DEF VSlot
  <2> QED BY <2>1, <2>2 DEF Init
<1>4. ASSUME NEW e \in WarmAtInit
      PROVE  e \in Expert /\ e \notin HotAtInit /\ owner[e] = "WARM" /\ slotIdx[e] \in HSlot
  <2>1. PICK i \in Hot0 + 1 .. Hot0 + Warm0 : e = LoadOrder[i]
    BY DEF WarmAtInit
  <2>2. e \in Expert /\ At(e) = i /\ i - Hot0 - 1 \in HSlot /\ i \in 1 .. n
    BY <1>1, <1>2, <2>1 DEF HSlot
  <2>3. e \notin HotAtInit
    <3>1. \A j \in 1 .. Hot0 : j # i /\ j \in 1 .. n
      BY <1>1, <1>2
    <3> QED BY <1>1, <2>1, <2>2, <3>1 DEF HotAtInit
  <2> QED BY <2>2, <2>3 DEF Init
<1>5. \A e \in Expert : e \notin HotAtInit /\ e \notin WarmAtInit => owner[e] = "COLD" /\ slotIdx[e] = NoSlot
  BY DEF Init
<1>6. /\ pendingSlot = [e \in Expert |-> NoSlot] /\ operation = [e \in Expert |-> "NONE"]
      /\ operationId = [e \in Expert |-> 0] /\ gpuTransfer = [e \in Expert |-> "NONE"]
      /\ leases = [e \in Expert |-> 0] /\ shadowSlot = [e \in Expert |-> NoSlot]
      /\ warmShadow = [e \in Expert |-> FALSE] /\ marked = [e \in Expert |-> FALSE]
      /\ vramRes = [s \in VSlot |-> 0] /\ hostRes = [h \in HSlot |-> 0] /\ usable = HostCap
      /\ shadowLru = <<>> /\ nextOp = 1 /\ demotions = 0
      /\ frozen = FALSE /\ stream = FALSE /\ alloc = "FreeListOnly"
  BY DEF Init
<1>7. EntryInv
  <2>1. \A e \in Expert : \/ owner[e] = "HOT" /\ slotIdx[e] \in VSlot
                          \/ owner[e] = "WARM" /\ slotIdx[e] \in HSlot
                          \/ owner[e] = "COLD" /\ slotIdx[e] = NoSlot
    BY <1>3, <1>4, <1>5
  <2> QED BY <1>6, <2>1 DEF EntryInv, EntryOK, IsIncoming
<1>8. ListOver(hotLru, Expert) /\ \A e \in Expert : e \in Range(hotLru) => owner[e] = "HOT"
  <2>1. \A i \in 1 .. Hot0 : Hot0 + 1 - i \in 1 .. Hot0
    BY <1>1
  <2>2. \A i, j \in 1 .. Hot0 : Hot0 + 1 - i = Hot0 + 1 - j => i = j
    BY <1>1
  <2>3. hotLru = [i \in 1 .. Hot0 |-> LoadOrder[Hot0 + 1 - i]]
    BY DEF Init
  <2>4. \A i, j \in 1 .. Hot0 : hotLru[i] = hotLru[j] => i = j
    BY <1>1, <1>2, <2>1, <2>2, <2>3
  <2>5. hotLru \in [1 .. Hot0 -> Expert] /\ \A i \in 1 .. Hot0 : hotLru[i] \in HotAtInit
    BY <1>1, <1>2, <2>1, <2>3, Zenon DEF HotAtInit
  <2>6. ListOver(hotLru, Expert) /\ Range(hotLru) = {hotLru[i] : i \in 1 .. Hot0}
    <3>1. hotLru \in Seq(Expert) /\ DOMAIN hotLru = 1 .. Hot0
      BY <1>1, <2>4, <2>5
    <3> QED BY <1>1, <2>4, <2>5, <3>1 DEF ListOver, IsInjective, Range
  <2> QED BY <1>3, <2>5, <2>6
<1>9. ListOver(warmLru, Expert) /\ \A e \in Expert : e \in Range(warmLru) => owner[e] = "WARM"
  <2>1. \A i \in 1 .. Warm0 : Hot0 + Warm0 + 1 - i \in Hot0 + 1 .. Hot0 + Warm0
    BY <1>1
  <2>2. \A i, j \in 1 .. Warm0 : Hot0 + Warm0 + 1 - i = Hot0 + Warm0 + 1 - j => i = j
    BY <1>1
  <2>3. warmLru = [i \in 1 .. Warm0 |-> LoadOrder[Hot0 + Warm0 + 1 - i]]
    BY DEF Init
  <2>4. \A i, j \in 1 .. Warm0 : warmLru[i] = warmLru[j] => i = j
    BY <1>1, <1>2, <2>1, <2>2, <2>3
  <2>5. warmLru \in [1 .. Warm0 -> Expert] /\ \A i \in 1 .. Warm0 : warmLru[i] \in WarmAtInit
    BY <1>1, <1>2, <2>1, <2>3, Zenon DEF WarmAtInit
  <2>6. ListOver(warmLru, Expert) /\ Range(warmLru) = {warmLru[i] : i \in 1 .. Warm0}
    <3>1. warmLru \in Seq(Expert) /\ DOMAIN warmLru = 1 .. Warm0
      BY <1>1, <2>4, <2>5
    <3> QED BY <1>1, <2>4, <2>5, <3>1 DEF ListOver, IsInjective, Range
  <2> QED BY <1>4, <2>5, <2>6
<1>10. LruInv
  BY <1>6, <1>8, <1>9, EmptyList DEF LruInv, WarmLruInv
<1>11. /\ vramSlots \in [VSlot -> Expert \cup {NoExpert}]
       /\ \A s \in VSlot : vramSlots[s] = IF s < Hot0 THEN LoadOrder[s + 1] ELSE NoExpert
  BY <1>1, <1>2 DEF Init
<1>12. FreeInv
  <2>1. freeVram = [i \in 1 .. VramCap - Hot0 |-> VramCap - i] /\ VramCap - Hot0 \in Nat
    BY <1>1 DEF Init
  <2>2. \A i \in 1 .. VramCap - Hot0 : VramCap - i \in VSlot /\ ~(VramCap - i < Hot0)
    BY <1>1 DEF VSlot
  <2>3. \A i, j \in 1 .. VramCap - Hot0 : VramCap - i = VramCap - j => i = j
    BY <1>1
  <2>4. /\ freeVram \in [1 .. VramCap - Hot0 -> VSlot]
        /\ \A i, j \in 1 .. VramCap - Hot0 : freeVram[i] = freeVram[j] => i = j
    BY <2>1, <2>2, <2>3
  <2>5. ListOver(freeVram, VSlot) /\ Range(freeVram) = {freeVram[i] : i \in 1 .. VramCap - Hot0}
    <3>1. freeVram \in Seq(VSlot) /\ DOMAIN freeVram = 1 .. VramCap - Hot0
      BY <2>1, <2>4
    <3> QED BY <2>1, <2>4, <3>1 DEF ListOver, IsInjective, Range
  <2>6. ASSUME NEW s \in VSlot PROVE s \in Range(freeVram) <=> ~(s < Hot0)
    <3>1. ASSUME ~(s < Hot0) PROVE s \in Range(freeVram)
      <4>1. VramCap - s \in 1 .. VramCap - Hot0 /\ VramCap - (VramCap - s) = s
        BY <1>1, <3>1 DEF VSlot
      <4>2. freeVram[VramCap - s] = s
        BY <2>1, <4>1
      <4> QED BY <2>5, <4>1, <4>2
    <3> QED BY <2>1, <2>2, <2>5, <3>1
  <2>7. \A s \in VSlot : s < Hot0 => vramSlots[s] # NoExpert
    BY <1>1, <1>2, <1>11, ExpertAssumption DEF NoExpert
  <2> QED BY <1>6, <1>11, <2>5, <2>6, <2>7 DEF FreeInv
<1>13. HolderInv
  <2> SUFFICES ASSUME NEW s \in VSlot, NEW e \in Expert PROVE vramSlots[s] = e <=> Holds(e, s)
    BY DEF HolderInv
  <2>1. Holds(e, s) <=> owner[e] = "HOT" /\ slotIdx[e] = s
    BY <1>6 DEF Holds, VSlot, NoSlot
  <2>2. ASSUME vramSlots[s] = e PROVE owner[e] = "HOT" /\ slotIdx[e] = s
    <3>1. s < Hot0 /\ e = LoadOrder[s + 1] /\ s + 1 \in 1 .. Hot0 /\ s \in Nat
      BY <1>2, <1>11, <2>2, ExpertAssumption DEF NoExpert, VSlot
    <3>2. e \in HotAtInit
      BY <3>1 DEF HotAtInit
    <3>3. PICK i \in 1 .. Hot0 : e = LoadOrder[i] /\ owner[e] = "HOT" /\ slotIdx[e] = i - 1
      BY <1>3, <3>2
    <3>4. i = s + 1
      BY <1>1, <1>2, <3>1, <3>3, Zenon
    <3> QED BY <3>1, <3>3, <3>4
  <2>3. ASSUME owner[e] = "HOT", slotIdx[e] = s PROVE vramSlots[s] = e
    <3>1. e \in HotAtInit
      BY <1>4, <1>5, <2>3
    <3>2. PICK i \in 1 .. Hot0 : e = LoadOrder[i] /\ slotIdx[e] = i - 1
      BY <1>3, <3>1
    <3>3. s < Hot0 /\ s + 1 = i
      BY <1>1, <2>3, <3>2
    <3> QED BY <1>11, <3>2, <3>3
  <2> QED BY <2>1, <2>2, <2>3
<1>14. ClaimInv /\ VictimInv
  BY <1>6 DEF ClaimInv, VictimInv, IsIncoming
<1>15. CountInv
  <2>1. {v \in Expert : gpuTransfer[v] = "D2H"} = {}
    BY <1>6
  <2> QED BY <1>6, <2>1, FS_EmptySet, Zenon DEF CountInv
<1>16. TypeOK
  <2>1. owner \in [Expert -> Tier]
    BY DEF Init, Tier
  <2>2. slotIdx \in [Expert -> Nat \cup {NoSlot}]
    <3>0. (\A x \in VSlot : x \in Nat) /\ (\A x \in HSlot : x \in Nat)
      BY DEF VSlot, HSlot
    <3>1. \A e \in Expert : slotIdx[e] \in Nat \cup {NoSlot}
      BY <1>3, <1>4, <1>5, <3>0
    <3>2. slotIdx = [e \in Expert |-> slotIdx[e]]
      BY DEF Init
    <3> QED BY <3>1, <3>2
  <2>3. hostSlots \in [HSlot -> Expert \cup {NoExpert}]
    <3>1. \A h \in HSlot : h < Warm0 => Hot0 + h + 1 \in 1 .. n
      BY <1>1 DEF HSlot
    <3> QED BY <1>1, <3>1 DEF Init
  <2>4. freeHost \in Seq(HSlot)
    <3>1. freeHost = [i \in 1 .. HostCap - Warm0 |-> HostCap - i] /\ HostCap - Warm0 \in Nat
      BY <1>1 DEF Init
    <3>2. \A i \in 1 .. HostCap - Warm0 : HostCap - i \in HSlot
      BY <1>1 DEF HSlot
    <3> QED BY <3>1, <3>2
  <2>5. /\ pendingSlot \in [Expert -> VSlot \cup {NoSlot}] /\ shadowSlot \in [Expert -> VSlot \cup {NoSlot}]
        /\ operation \in [Expert -> Operation] /\ gpuTransfer \in [Expert -> GpuTransfer]
        /\ operationId \in [Expert -> Nat] /\ leases \in [Expert -> Nat]
        /\ vramRes \in [VSlot -> Nat] /\ hostRes \in [HSlot -> Nat]
    BY <1>6 DEF Operation, GpuTransfer
  <2>51. /\ warmShadow \in [Expert -> BOOLEAN] /\ marked \in [Expert -> BOOLEAN]
         /\ frozen \in BOOLEAN /\ stream \in BOOLEAN /\ alloc \in Alloc
    BY <1>6, Zenon DEF Alloc
  <2>52. /\ usable \in 0 .. HostCap /\ shadowLru \in Seq(Expert) /\ nextOp \in Nat \ {0}
         /\ demotions \in Nat
    BY <1>1, <1>6
  <2>6. freeVram \in Seq(VSlot) /\ hotLru \in Seq(Expert) /\ warmLru \in Seq(Expert)
    BY <1>8, <1>9, <1>12 DEF FreeInv, ListOver
  <2> QED BY <1>11, <2>1, <2>2, <2>3, <2>4, <2>5, <2>51, <2>52, <2>6, Zenon DEF TypeOK
<1> QED BY <1>7, <1>10, <1>12, <1>13, <1>14, <1>15, <1>16 DEF IInv, VramInv

-----------------------------------------------------------------------------
(* Every step keeps the invariant. *)

(* The calls on one expert. *)
LEMMA ExpertStep ==
  ASSUME IInv, NEW g \in Expert, Request(g) \/ Settle(g)
  PROVE  IInv'
<1>1. CASE Request(g)
  BY <1>1, LeaseOnlyStep, HotHitStep, ShadowHitStep, ReserveFreeStep, ReserveEvictShadowStep,
     ReserveEvictHotStep, ReserveDropVictimStep, ReserveDemoteToFreeStep, ReserveDemoteOverWarmStep,
     ReserveStagedStep DEF Request
<1>2. CASE Settle(g)
  BY <1>2, AttachDestinationStep, CompleteDemotionStep, FailDemotionStep, CompleteRequestStep,
     CompleteShadowStep, FailRequestStep, FailRequestWithVictimStep, FailShadowStep,
     LeaseOnlyStep DEF Settle
<1> QED BY <1>1, <1>2

(* The calls on the whole registry. *)
LEMMA PhaseStep ==
  ASSUME IInv, Phase
  PROVE  IInv'
<1>1. CASE \E k \in 0 .. VramCap, p \in Alloc : BeginPrefillStream(k, p)
  <2>1. PICK k \in 0 .. VramCap, p \in Alloc : BeginPrefillStream(k, p)
    BY <1>1
  <2>2. k \in Nat
    BY CapacityAssumption
  <2> QED BY <2>1, <2>2, BeginPrefillStep
<1>2. CASE \E l \in Layer : ReleaseLayer(l)
  BY <1>2, ReleaseLayerStep
<1>3. CASE \E u \in 0 .. HostCap : GrowHost(u) \/ ShrinkHost(u)
  BY <1>3, GrowHostStep, ShrinkHostStep
<1>4. CASE EndPrefillStream \/ FreezeWarm \/ ThawWarm
  BY <1>4, EndPrefillStep, FreezeWarmStep, ThawWarmStep
<1> QED BY <1>1, <1>2, <1>3, <1>4 DEF Phase

(* Every step, and every step that changes nothing. *)
LEMMA NextIInv == IInv /\ [Next]_vars => IInv'
<1> SUFFICES ASSUME IInv, [Next]_vars PROVE IInv'
  BY Zenon
<1>1. CASE Next
  BY <1>1, ExpertStep, PhaseStep DEF Next
<1>2. CASE UNCHANGED vars
  <2>1. leases' \in [Expert -> Nat]
    BY <1>2, Zenon DEF IInv, TypeOK, vars, entryVars
  <2> QED BY <1>2, <2>1, LeaseStep DEF vars, entryVars
<1> QED BY <1>1, <1>2

(* The invariant says that every VRAM slot is accounted for. *)
LEMMA IInvAccounts == IInv => VramAccounted
<1> SUFFICES ASSUME IInv PROVE VramAccounted
  OBVIOUS
<1>1. IsInjective(freeVram)
  BY DEF IInv, VramInv, FreeInv, ListOver
<1>2. ASSUME NEW s \in VSlot
      PROVE  s \in Range(freeVram) <=> \A e \in Expert : ~Holds(e, s) /\ ~Claims(e, s)
  <2>1. s \in Range(freeVram) <=> vramSlots[s] = NoExpert /\ vramRes[s] = 0
    BY DEF IInv, VramInv, FreeInv
  <2>2. vramSlots[s] = NoExpert <=> \A e \in Expert : ~Holds(e, s)
    <3>1. vramSlots[s] \in Expert \cup {NoExpert} /\ NoExpert \notin Expert
      BY ExpertAssumption DEF IInv, TypeOK, NoExpert
    <3>2. \A e \in Expert : vramSlots[s] = e <=> Holds(e, s)
      BY DEF IInv, VramInv, HolderInv
    <3> QED BY <3>1, <3>2
  <2>3. vramRes[s] = 0 <=> \A e \in Expert : ~Claims(e, s)
    <3>1. ASSUME NEW e \in Expert, Claims(e, s) PROVE vramRes[s] # 0
      BY <3>1, DestinationOf DEF Claims
    <3>2. vramRes[s] # 0 => \E e \in Expert : Claims(e, s)
      BY DEF IInv, VramInv, ClaimInv
    <3> QED BY <3>1, <3>2
  <2> QED BY <2>1, <2>2, <2>3
<1>3. ASSUME NEW s \in VSlot, NEW e \in Expert, NEW f \in Expert
      PROVE  /\ Holds(e, s) /\ Holds(f, s) => e = f
             /\ Claims(e, s) /\ Claims(f, s) => e = f
             /\ Holds(e, s) /\ Claims(f, s) =>
                  operation[e] = "DEMOTION" /\ operationId[e] = operationId[f]
  <2>1. (vramSlots[s] = e <=> Holds(e, s)) /\ (vramSlots[s] = f <=> Holds(f, s)) /\ e # NoExpert
    BY ExpertAssumption DEF IInv, VramInv, HolderInv, NoExpert
  <2>2. Claims(f, s) => /\ vramSlots[s] # NoExpert => vramSlots[s] \in Victims(operationId[f])
                        /\ Claims(e, s) => e = f
    BY DestinationOf DEF Claims
  <2> QED BY <2>1, <2>2, Zenon DEF Victims
<1> QED BY <1>1, <1>2, <1>3, Zenon DEF VramAccounted

(* The inductive invariant holds in every reachable state. *)
THEOREM Invariance == Spec => []IInv
BY InitIInv, NextIInv, PTL DEF Spec

(* Every field of the registry keeps the type it has in the code, whatever the
   order of requests, completions, failures and phase switches. *)
THEOREM TypeCorrect == Spec => []TypeOK
<1>1. IInv => TypeOK
  BY DEF IInv
<1> QED BY <1>1, Invariance, PTL

(* No VRAM slot is lost and none is handed out twice, for any number of experts
   and slots: the free list, the residents and the reservations of
   reserve_vram_destination, complete_request, fail_request and the releases
   always partition the slots, and two parties meet in a slot only as an
   operation and its own victim. *)
THEOREM VramSlotsAccounted == Spec => []VramAccounted
BY IInvAccounts, Invariance, PTL

-----------------------------------------------------------------------------
(* A lease pins, for any number of experts and slots: whatever is requested,
   completed, failed, drained, released, thawed or shrunk meanwhile, a leased
   resident stays in its VRAM slot and no transfer of it begins (the lease_count
   tests of the victim scans and of the releases are together enough). *)
THEOREM LeasePinned == Spec => LeasePinsResidency
<1>1. IInv /\ [Next]_vars =>
        [\A e \in Expert :
           leases[e] > 0 /\ operation[e] = "NONE" /\ VramSlotOf(e) # NoSlot
           => VramSlotOf(e)' = VramSlotOf(e) /\ operation'[e] = "NONE"]_vars
  <2> SUFFICES ASSUME IInv, [Next]_vars, NEW e \in Expert, leases[e] > 0, operation[e] = "NONE",
                      VramSlotOf(e) # NoSlot
               PROVE  VramSlotOf(e)' = VramSlotOf(e) /\ operation'[e] = "NONE"
    OBVIOUS
  <2>1. Pinned(e)
    BY ONLY leases[e] > 0, operation[e] = "NONE", VramSlotOf(e) # NoSlot DEF Pinned
  <2> QED BY <2>1, PinnedStep DEF Kept
<1> QED BY <1>1, Invariance, PTL DEF Spec, LeasePinsResidency

(* What begin_prefill_stream preserves outlives the stream, for any number of
   experts and slots: a marked resident is in its slot, idle and still marked
   after every step of the stream. *)
THEOREM PreservedStay == Spec => PreservedSurvive
<1>1. Init => MarkInv
  BY DEF Init, MarkInv
<1>2. IInv /\ MarkInv /\ [Next]_vars => MarkInv'
  BY MarkStep
<1>3. IInv /\ MarkInv /\ [Next]_vars =>
        [\A e \in Expert : marked[e] =>
           /\ owner'[e] = "HOT" /\ slotIdx'[e] = slotIdx[e] /\ operation'[e] = "NONE"
           /\ stream' => marked'[e]]_vars
  BY MarkStep
<1> QED BY <1>1, <1>2, <1>3, Invariance, PTL DEF Spec, PreservedSurvive

-----------------------------------------------------------------------------
(* A prefill stream borrows from Warm and never spends it, for any number of
   experts and slots: inside a stream every copy out of Warm is a shadow and no
   victim is demoted, so apart from a boundary move Warm holds the same experts
   in the same host slots. *)
THEOREM WarmSurvivesStream == Spec => StreamKeepsWarm
<1>1. Init => StreamInv
  BY DEF Init, StreamInv
<1>2. IInv /\ StreamInv /\ [Next]_vars => StreamInv'
  BY StreamStep
<1>3. IInv /\ StreamInv /\ [Next]_vars =>
        [stream /\ stream' /\ usable' = usable =>
           \A e \in Expert, h \in HSlot : HoldsHost(e, h)' <=> HoldsHost(e, h)]_vars
  <2> SUFFICES ASSUME IInv, StreamInv, [Next]_vars, stream, stream', usable' = usable,
                      NEW e \in Expert, NEW h \in HSlot
               PROVE  HoldsHost(e, h)' <=> HoldsHost(e, h)
    OBVIOUS
  <2>1. WarmKept(e)
    BY StreamStep
  <2> QED BY ONLY <2>1 DEF WarmKept, HoldsHost
<1> QED BY <1>1, <1>2, <1>3, Invariance, PTL DEF Spec, StreamKeepsWarm

-----------------------------------------------------------------------------
(* The Warm tier. *)

(* init() and populate_round_robin() place the Warm experts in the first host
   slots and list the others as free. *)
LEMMA InitHostInv == Init => HostInv
<1> SUFFICES ASSUME Init PROVE HostInv
  OBVIOUS
<1>1. /\ Hot0 \in Nat /\ Warm0 \in Nat /\ Warm0 <= HostCap /\ HostCap \in Nat /\ QueueCap \in Nat
      /\ Len(LoadOrder) \in Nat /\ Hot0 + Warm0 <= Len(LoadOrder)
      /\ \A i \in 1 .. Len(LoadOrder) : LoadOrder[i] \in Expert /\ At(LoadOrder[i]) = i
  BY ONLY Placement, CapacityAssumption
<1>2. /\ hostSlots = [h \in HSlot |-> IF h < Warm0 THEN LoadOrder[Hot0 + h + 1] ELSE NoExpert]
      /\ hostRes = [h \in HSlot |-> 0] /\ usable = HostCap /\ demotions = 0
      /\ freeHost = [i \in 1 .. HostCap - Warm0 |-> HostCap - i]
      /\ operation = [e \in Expert |-> "NONE"]
  BY ONLY Init DEF Init
<1>3. \A h \in HSlot : h \in Nat /\ h < HostCap
  BY ONLY <1>1 DEF HSlot
<1>4. \A h \in HSlot : h < Warm0 => /\ Hot0 + h + 1 \in 1 .. Len(LoadOrder)
                                    /\ Hot0 + h + 1 \in Hot0 + 1 .. Hot0 + Warm0
  BY ONLY <1>1, <1>3
<1>5. FreeHostInv
  <2> DEFINE n == HostCap - Warm0
  <2>1. n \in Nat /\ freeHost \in [1 .. n -> HSlot] /\ \A i \in 1 .. n : freeHost[i] = HostCap - i
    BY ONLY <1>1, <1>2 DEF HSlot
  <2>2. \A i, j \in 1 .. n : freeHost[i] = freeHost[j] => i = j
    BY ONLY <1>1, <2>1
  <2>3. \A h \in HSlot : ~(h < Warm0) => HostCap - h \in 1 .. n /\ HostCap - (HostCap - h) = h
    BY ONLY <1>1, <1>3
  <2>4. \A i \in 1 .. n : ~(HostCap - i < Warm0)
    BY ONLY <1>1
  <2> HIDE DEF n
  <2>5. ListOver(freeHost, HSlot) /\ Range(freeHost) = {freeHost[i] : i \in 1 .. n}
    BY ONLY <2>1, <2>2, FunctionList
  <2>6. ASSUME NEW h \in HSlot PROVE h \in Range(freeHost) <=> ~(h < Warm0)
    <3>1. ASSUME ~(h < Warm0) PROVE h \in Range(freeHost)
      <4>1. HostCap - h \in 1 .. n /\ freeHost[HostCap - h] = h
        BY ONLY <2>1, <2>3, <3>1, h \in HSlot
      <4> QED BY ONLY <2>5, <4>1
    <3>2. ASSUME h \in Range(freeHost) PROVE ~(h < Warm0)
      BY ONLY <2>1, <2>4, <2>5, <3>2
    <3> QED BY ONLY <3>1, <3>2
  <2>7. ASSUME NEW h \in HSlot PROVE hostSlots[h] = NoExpert <=> ~(h < Warm0)
    <3>1. h < Warm0 => hostSlots[h] \in Expert
      BY ONLY <1>1, <1>2, <1>4, h \in HSlot
    <3>2. NoExpert \notin Expert
      BY ONLY ExpertAssumption DEF NoExpert
    <3> QED BY ONLY <1>2, <3>1, <3>2, h \in HSlot
  <2>8. \A h \in HSlot : hostRes[h] = 0 /\ h < usable /\ ~(h >= usable)
    BY ONLY <1>1, <1>2, <1>3
  <2> QED BY ONLY <2>5, <2>6, <2>7, <2>8 DEF FreeHostInv
<1>6. HostHolderInv
  <2> SUFFICES ASSUME NEW h \in HSlot, NEW e \in Expert PROVE hostSlots[h] = e <=> HoldsHost(e, h)
    BY DEF HostHolderInv
  <2>1. ASSUME hostSlots[h] = e PROVE HoldsHost(e, h)
    <3>1. h < Warm0 /\ e = LoadOrder[Hot0 + h + 1]
      BY ONLY <1>2, <2>1, h \in HSlot, e \in Expert, ExpertAssumption DEF NoExpert
    <3>2. e \in WarmAtInit /\ At(e) = Hot0 + h + 1
      BY ONLY <1>1, <1>4, <3>1, h \in HSlot, Zenon DEF WarmAtInit
    <3>3. e \notin HotAtInit
      <4>1. \A i \in 1 .. Hot0 : i \in 1 .. Len(LoadOrder) /\ i # Hot0 + h + 1
        BY ONLY <1>1, <1>3, h \in HSlot
      <4> QED BY ONLY <1>1, <3>2, <4>1 DEF HotAtInit
    <3>4. owner[e] = "WARM" /\ slotIdx[e] = At(e) - Hot0 - 1
      BY ONLY <3>2, <3>3, Init, e \in Expert, Zenon DEF Init
    <3>5. At(e) - Hot0 - 1 = h
      BY ONLY <1>1, <1>3, <3>2, h \in HSlot
    <3> QED BY ONLY <3>4, <3>5 DEF HoldsHost
  <2>2. ASSUME HoldsHost(e, h) PROVE hostSlots[h] = e
    <3>1. e \in WarmAtInit /\ e \notin HotAtInit /\ slotIdx[e] = h
      BY ONLY <2>2, Init, e \in Expert, Zenon DEF Init, HoldsHost
    <3>2. PICK i \in Hot0 + 1 .. Hot0 + Warm0 : e = LoadOrder[i]
      BY ONLY <3>1, Zenon DEF WarmAtInit
    <3>3. At(e) = i /\ i \in Nat
      BY ONLY <1>1, <3>2
    <3>4. h = i - Hot0 - 1
      BY ONLY <3>1, <3>3, Init, e \in Expert, Zenon DEF Init
    <3>5. h < Warm0 /\ Hot0 + h + 1 = i
      BY ONLY <1>1, <3>3, <3>4
    <3> QED BY ONLY <1>2, <3>2, <3>5, h \in HSlot
  <2> QED BY ONLY <2>1, <2>2
<1>7. HostClaimInv
  BY ONLY <1>2 DEF HostClaimInv, Leaving, Landing
<1>8. demotions <= QueueCap
  BY ONLY <1>1, <1>2
<1> QED BY ONLY <1>5, <1>6, <1>7, <1>8 DEF HostInv

(* The invariants say that every host slot is accounted for. *)
LEMMA HostInvAccounts == IInv /\ HostInv => HostAccounted
<1> SUFFICES ASSUME IInv, HostInv PROVE HostAccounted
  OBVIOUS
<1>1. IsInjective(freeHost)
  BY ONLY HostInv DEF HostInv, FreeHostInv, ListOver
<1>2. ASSUME NEW h \in HSlot
      PROVE  /\ h \in Range(freeHost) <=> h < usable /\ hostSlots[h] = NoExpert /\ hostRes[h] = 0
             /\ ~(h < usable) => hostSlots[h] = NoExpert /\ hostRes[h] = 0
             /\ \A e \in Expert : hostSlots[h] = e <=> HoldsHost(e, h)
             /\ hostSlots[h] \in Expert \cup {NoExpert} /\ NoExpert \notin Expert
  <2>1. ~(h < usable) => h >= usable
    BY ONLY h \in HSlot, IInv, HostTypes, CapacityAssumption DEF HSlot
  <2>2. hostSlots[h] \in Expert \cup {NoExpert} /\ NoExpert \notin Expert
    BY ONLY h \in HSlot, IInv, HostTypes, ExpertAssumption DEF NoExpert
  <2> QED BY ONLY <2>1, <2>2, h \in HSlot, HostInv, Zenon DEF HostInv, FreeHostInv, HostHolderInv
<1>3. ASSUME NEW h \in HSlot, NEW e \in Expert, AwaitsHost(e, h)
      PROVE  Landing(e) /\ hostRes[h] = operationId[e] /\ hostRes[h] # 0 /\ hostSlots[h] = NoExpert
  BY ONLY <1>3, IInv, Zenon DEF AwaitsHost, Landing, IInv, EntryInv, EntryOK
<1>4. ASSUME NEW h \in HSlot, hostRes[h] # 0, hostSlots[h] = NoExpert
      PROVE  \E e \in Expert : AwaitsHost(e, h)
  BY ONLY <1>4, HostInv, Zenon DEF HostInv, HostClaimInv, AwaitsHost, Landing
<1>5. ASSUME NEW h \in HSlot
      PROVE  h \in Range(freeHost) <=>
               h < usable /\ \A e \in Expert : ~HoldsHost(e, h) /\ ~AwaitsHost(e, h)
  BY ONLY <1>2, <1>3, <1>4, h \in HSlot
<1>6. ASSUME NEW h \in HSlot, NEW e \in Expert, NEW f \in Expert
      PROVE  /\ HoldsHost(e, h) => h < usable /\ hostSlots[h] = e
             /\ AwaitsHost(e, h) => h < usable
             /\ (HoldsHost(e, h) \/ AwaitsHost(e, h)) /\ (HoldsHost(f, h) \/ AwaitsHost(f, h))
                  => e = f
  <2>1. AwaitsHost(e, h) /\ AwaitsHost(f, h) => e = f
    BY ONLY <1>3, OneVictim, IInv, h \in HSlot, e \in Expert, f \in Expert DEF Landing
  <2> QED BY ONLY <1>2, <1>3, <2>1, h \in HSlot, e \in Expert, f \in Expert, Zenon
<1> QED BY ONLY <1>1, <1>5, <1>6 DEF HostAccounted

(* They also say that every transfer in flight can be ended. *)
LEMMA HostInvResolves == IInv /\ HostInv => OperationsResolvable
<1> SUFFICES ASSUME IInv, HostInv PROVE OperationsResolvable
  OBVIOUS
<1>1. ASSUME NEW e \in Expert, NEW f \in Expert
      PROVE  /\ IsIncoming(e) /\ IsIncoming(f) /\ operationId[e] = operationId[f] => e = f
             /\ operation[e] = "DEMOTION" /\ operation[f] = "DEMOTION"
                /\ operationId[e] = operationId[f] => e = f
  <2>1. IsIncoming(e) /\ IsIncoming(f) /\ operationId[e] = operationId[f] => e = f
    BY ONLY IInv, e \in Expert, f \in Expert DEF IInv, VramInv, ClaimInv
  <2> QED BY ONLY <2>1, IInv, OneVictim, e \in Expert, f \in Expert
<1>2. ASSUME NEW v \in Expert, operation[v] = "DEMOTION"
      PROVE  \E g \in Incoming(operationId[v]) :
               /\ owner[v] = "HOT" /\ pendingSlot[g] = slotIdx[v] /\ ~warmShadow[g]
               /\ gpuTransfer[v] = "D2H" =>
                    \E h \in HSlot : \A k \in HSlot : AwaitsHost(v, k) <=> k = h
  <2>1. owner[v] = "HOT" /\ slotIdx[v] \in VSlot /\ operationId[v] # 0
    BY ONLY <1>2, IInv, Zenon DEF IInv, EntryInv, EntryOK
  <2>2. vramRes[slotIdx[v]] = operationId[v]
    BY ONLY <1>2, IInv, Zenon DEF IInv, VramInv, VictimInv
  <2>3. PICK g \in Expert : Claims(g, slotIdx[v]) /\ operationId[g] = vramRes[slotIdx[v]]
    BY ONLY <2>1, <2>2, IInv DEF IInv, VramInv, ClaimInv
  <2>4. IsIncoming(g) /\ v \in Victims(operationId[g]) /\ g \in Incoming(operationId[v])
    BY ONLY <1>2, <2>2, <2>3 DEF Claims, Victims, Incoming
  <2>5. pendingSlot[g] = slotIdx[v] /\ ~warmShadow[g]
    BY ONLY <2>4, IInv, VictimOf
  <2>6. ASSUME gpuTransfer[v] = "D2H"
        PROVE  \E h \in HSlot : \A k \in HSlot : AwaitsHost(v, k) <=> k = h
    <3>1. Landing(v) /\ \A k \in HSlot : AwaitsHost(v, k) <=> Room(operationId[v], k)
      BY ONLY <1>2, <2>6 DEF Landing, AwaitsHost, Room
    <3>2. \E h \in HSlot : \A k \in HSlot : Room(operationId[v], k) <=> k = h
      BY ONLY <3>1, HostInv, v \in Expert, Zenon DEF HostInv, HostClaimInv
    <3> QED BY ONLY <3>1, <3>2
  <2> QED BY ONLY <2>1, <2>4, <2>5, <2>6
<1>3. demotions = Cardinality({v \in Expert : gpuTransfer[v] = "D2H"}) /\ demotions <= QueueCap
  BY ONLY IInv, HostInv DEF IInv, CountInv, HostInv
<1> QED BY ONLY <1>1, <1>2, <1>3, Zenon DEF OperationsResolvable

(* With the marks, they say everything that validate_invariants looks at. *)
LEMMA InvariantsPassAudit == IInv /\ HostInv /\ MarkInv => AuditPasses
<1> SUFFICES ASSUME IInv, HostInv, MarkInv PROVE AuditPasses
  OBVIOUS
<1>1. NoExpert \notin Expert /\ NoSlot \notin VSlot /\ NoSlot \notin HSlot
  BY ONLY ExpertAssumption DEF NoExpert, NoSlot, VSlot, HSlot
<1>2. ASSUME NEW e \in Expert
      PROVE  /\ owner[e] = "HOT" => slotIdx[e] \in VSlot /\ vramSlots[slotIdx[e]] = e
             /\ owner[e] = "WARM" => slotIdx[e] \in 0 .. usable - 1 /\ hostSlots[slotIdx[e]] = e
             /\ owner[e] = "COLD" => slotIdx[e] = NoSlot
             /\ operation[e] # "NONE" => operationId[e] # 0
             /\ operation[e] = "NONE" => gpuTransfer[e] = "NONE" /\ ~warmShadow[e]
             /\ operation[e] # "NONE" /\ pendingSlot[e] # NoSlot =>
                  vramRes[pendingSlot[e]] = operationId[e]
             /\ (shadowSlot[e] # NoSlot) <=> e \in Range(shadowLru)
             /\ shadowSlot[e] # NoSlot => owner[e] = "WARM" /\ vramSlots[shadowSlot[e]] = e
             /\ marked[e] => stream /\ owner[e] = "HOT"
  <2>1. EntryOK(e) /\ shadowSlot[e] \in VSlot \cup {NoSlot} /\ operation[e] \in Operation
    BY ONLY IInv, e \in Expert, Zenon DEF IInv, EntryInv, TypeOK
  <2>2. \A s \in VSlot : vramSlots[s] = e <=> Holds(e, s)
    BY ONLY IInv, e \in Expert DEF IInv, VramInv, HolderInv
  <2>3. owner[e] = "HOT" => slotIdx[e] \in VSlot /\ vramSlots[slotIdx[e]] = e
    BY ONLY <2>1, <2>2, Zenon DEF EntryOK, Holds
  <2>4. owner[e] = "WARM" => slotIdx[e] \in 0 .. usable - 1 /\ hostSlots[slotIdx[e]] = e
    <3>1. ASSUME owner[e] = "WARM"
          PROVE  slotIdx[e] \in HSlot /\ slotIdx[e] < usable /\ hostSlots[slotIdx[e]] = e
                 /\ usable \in Nat
      BY ONLY <3>1, IInv, HostInv, WarmSlot, HostTypes, e \in Expert, Zenon
    <3> QED BY ONLY <3>1, CapacityAssumption DEF HSlot
  <2>5. shadowSlot[e] # NoSlot => owner[e] = "WARM" /\ vramSlots[shadowSlot[e]] = e
    BY ONLY <2>1, <2>2, Zenon DEF EntryOK, Holds
  <2>6. operation[e] # "NONE" /\ pendingSlot[e] # NoSlot => vramRes[pendingSlot[e]] = operationId[e]
    <3>1. operation[e] # "NONE" /\ pendingSlot[e] # NoSlot => IsIncoming(e)
      BY ONLY <2>1, Zenon DEF EntryOK, IsIncoming, Operation
    <3> QED BY ONLY <3>1, IInv, e \in Expert, Zenon DEF IInv, VramInv, ClaimInv
  <2>7. (shadowSlot[e] # NoSlot) <=> e \in Range(shadowLru)
    BY ONLY IInv, e \in Expert DEF IInv, LruInv
  <2>8. /\ owner[e] = "COLD" => slotIdx[e] = NoSlot
        /\ operation[e] # "NONE" => operationId[e] # 0
        /\ operation[e] = "NONE" => gpuTransfer[e] = "NONE" /\ ~warmShadow[e]
    BY ONLY <2>1, Zenon DEF EntryOK
  <2>9. marked[e] => stream /\ owner[e] = "HOT"
    BY ONLY MarkInv, e \in Expert DEF MarkInv
  <2> QED BY ONLY <2>3, <2>4, <2>5, <2>6, <2>7, <2>8, <2>9, Zenon
<1>3. ASSUME NEW s \in VSlot
      PROVE  /\ vramSlots[s] # NoExpert => Holds(vramSlots[s], s)
             /\ vramRes[s] # 0 /\ vramSlots[s] = NoExpert =>
                  \E e \in Expert : operationId[e] = vramRes[s] /\ pendingSlot[e] = s
  <2>1. vramSlots[s] \in Expert \cup {NoExpert} /\ \A e \in Expert : vramSlots[s] = e <=> Holds(e, s)
    BY ONLY IInv, s \in VSlot, Zenon DEF IInv, TypeOK, VramInv, HolderInv
  <2>2. vramRes[s] # 0 => \E e \in Expert : Claims(e, s) /\ operationId[e] = vramRes[s]
    BY ONLY IInv, s \in VSlot, Zenon DEF IInv, VramInv, ClaimInv
  <2> QED BY ONLY <2>1, <2>2, Zenon DEF Claims
<1>4. ASSUME NEW h \in HSlot
      PROVE  /\ hostSlots[h] # NoExpert => HoldsHost(hostSlots[h], h)
             /\ hostRes[h] # 0 =>
                  \E e \in Expert : /\ operationId[e] = hostRes[h]
                                    /\ slotIdx[e] = h \/ operation[e] = "DEMOTION"
  <2>1. hostSlots[h] \in Expert \cup {NoExpert}
    BY ONLY IInv, h \in HSlot, HostTypes
  <2>2. \A e \in Expert : hostSlots[h] = e <=> HoldsHost(e, h)
    BY ONLY HostInv, h \in HSlot DEF HostInv, HostHolderInv
  <2>3. ASSUME hostRes[h] # 0, hostSlots[h] # NoExpert
        PROVE  \E e \in Expert : operationId[e] = hostRes[h] /\ slotIdx[e] = h
    <3>1. PICK e \in Expert : e = hostSlots[h] /\ Leaving(e) /\ slotIdx[e] = h
      BY ONLY <2>1, <2>2, <2>3, HostInv, h \in HSlot, Zenon DEF HostInv, HostClaimInv, HoldsHost
    <3>2. hostRes[slotIdx[e]] = operationId[e]
      BY ONLY <3>1, HostInv, Zenon DEF HostInv, HostClaimInv
    <3> QED BY ONLY <3>1, <3>2
  <2>4. ASSUME hostRes[h] # 0, hostSlots[h] = NoExpert
        PROVE  \E e \in Expert : operationId[e] = hostRes[h] /\ operation[e] = "DEMOTION"
    BY ONLY <2>4, HostInv, h \in HSlot, Zenon DEF HostInv, HostClaimInv, Landing
  <2> QED BY ONLY <2>1, <2>2, <2>3, <2>4, Zenon
<1>5. ~frozen => shadowLru = <<>>
  <2> SUFFICES ASSUME ~frozen PROVE shadowLru = <<>>
    OBVIOUS
  <2>1. ListOver(shadowLru, Expert) /\ \A e \in Expert : e \in Range(shadowLru) => shadowSlot[e] # NoSlot
    BY ONLY IInv, Zenon DEF IInv, LruInv
  <2>2. \A e \in Expert : shadowSlot[e] = NoSlot
    BY ONLY ~frozen, IInv, Zenon DEF IInv, EntryInv, EntryOK
  <2>3. shadowLru \in Seq(Expert) /\ \A i \in 1 .. Len(shadowLru) : shadowLru[i] \in Range(shadowLru)
    BY ONLY <2>1 DEF ListOver, Range
  <2>4. \A i \in 1 .. Len(shadowLru) : shadowLru[i] \in Expert
    BY ONLY <2>3
  <2>5. Len(shadowLru) = 0
    <3>1. Len(shadowLru) \in Nat /\ (Len(shadowLru) # 0 => 1 \in 1 .. Len(shadowLru))
      BY ONLY <2>3
    <3> QED BY ONLY <2>1, <2>2, <2>3, <2>4, <3>1
  <2> QED BY ONLY <2>3, <2>5
<1>6. LruMatches(hotLru, "HOT") /\ LruMatches(warmLru, "WARM")
  <2>1. /\ ListOver(hotLru, Expert) /\ ListOver(warmLru, Expert)
        /\ \A e \in Expert : e \in Range(hotLru) => owner[e] = "HOT" /\ operation[e] = "NONE"
        /\ \A e \in Expert : e \in Range(warmLru) => owner[e] = "WARM" /\ operation[e] = "NONE"
    BY ONLY IInv, Zenon DEF IInv, LruInv, WarmLruInv
  <2>2. /\ \A e \in Range(hotLru) : e \in Expert
        /\ \A e \in Range(warmLru) : e \in Expert
        /\ IsInjective(hotLru) /\ IsInjective(warmLru)
    BY ONLY <2>1, ListElements, Zenon DEF ListOver
  <2> QED BY ONLY <2>1, <2>2 DEF LruMatches
<1> QED BY ONLY <1>2, <1>3, <1>4, <1>5, <1>6, Zenon DEF AuditPasses

(* No host slot is lost and none is handed out twice, for any number of experts
   and slots and wherever the Warm/staging boundary moves: the free list, the
   Warm experts and the demotions on their way partition the slots below the
   boundary (reserve_warm_destination, complete_demotion, fail_demotion,
   complete_request, grow_host_capacity, shrink_host_capacity). *)
THEOREM HostSlotsAccounted == Spec => []HostAccounted
BY InitHostInv, NextHostInv, HostInvAccounts, Invariance, PTL DEF Spec

(* No transfer is ever stranded, for any number of experts, slots and queue
   places: whatever completes and fails in whatever order, an operation keeps
   one incoming expert and at most one victim, the victim sits where the incoming
   one will go, a D2H copy has exactly one host slot to land in, and the bounded
   demotion queue counts the copies in flight. *)
THEOREM TransfersResolvable == Spec => []OperationsResolvable
BY InitHostInv, NextHostInv, HostInvResolves, Invariance, PTL DEF Spec

(* validate_invariants would succeed after every call, not only at the
   boundaries where the code runs it, for any number of experts and slots. *)
THEOREM AuditAlwaysPasses == Spec => []AuditPasses
<1>1. Init => MarkInv
  BY DEF Init, MarkInv
<1>2. IInv /\ MarkInv /\ [Next]_vars => MarkInv'
  BY MarkStep
<1> QED BY <1>1, <1>2, InitHostInv, NextHostInv, InvariantsPassAudit, Invariance, PTL DEF Spec
=============================================================================
