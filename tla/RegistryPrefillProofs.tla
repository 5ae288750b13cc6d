----------------------- MODULE RegistryPrefillProofs ------------------------
(***************************************************************************)
(* The prefill stream and the frozen Warm tier preserve the invariant, no  *)
(* step moves a leased or a preserved resident, and a stream keeps Warm.   *)
(***************************************************************************)
EXTENDS RegistryInvariant

(* Idle residents R give their slots, listed in f, back to the free list. *)
LEMMA ReleaseSlots ==
  ASSUME IInv, NEW R \in SUBSET Expert, NEW f, ListOver(f, VSlot),
         \A e \in R : operation[e] = "NONE",
         \A s \in VSlot : s \in Range(f) <=> vramSlots[s] \in R,
         freeVram' = freeVram \o f,
         vramSlots' = [s \in VSlot |-> IF vramSlots[s] \in R THEN NoExpert ELSE vramSlots[s]],
         \A s \in VSlot : vramRes'[s] = vramRes[s],
         \A e \in Expert : SameOperation(e),
         \A e \in R : owner'[e] # "HOT" /\ shadowSlot'[e] = NoSlot,
         \A e \in Expert \ R : Stays(e),
         UNCHANGED demotions
  PROVE  /\ VramInv' /\ CountInv' /\ freeVram' \in Seq(VSlot)
         /\ vramSlots' \in [VSlot -> Expert \cup {NoExpert}]
<1>1. /\ vramSlots' \in [VSlot -> Expert \cup {NoExpert}] /\ NoExpert \notin R
      /\ \A s \in VSlot : vramSlots'[s] = IF vramSlots[s] \in R THEN NoExpert ELSE vramSlots[s]
  BY ExpertAssumption DEF IInv, TypeOK, NoExpert
<1>2. \A s \in VSlot : vramSlots[s] \in R => vramRes[s] = 0
  BY <1>1, Zenon DEF IInv, VramInv, VictimInv
<1>3. FreeInv' /\ freeVram' \in Seq(VSlot)
  <2>1. ListOver(freeVram, VSlot) /\ Range(freeVram) \subseteq VSlot /\ Range(f) \subseteq VSlot
    BY ListElements DEF IInv, VramInv, FreeInv
  <2>2. Range(freeVram) \cap Range(f) = {}
    BY <1>1, <2>1 DEF IInv, VramInv, FreeInv
  <2>3. ListOver(freeVram', VSlot) /\ Range(freeVram') = Range(freeVram) \cup Range(f)
    <3>1. freeVram' = Joined(freeVram, f)
      BY DEF Joined
    <3>2. /\ ListOver(Joined(freeVram, f), VSlot)
          /\ Range(Joined(freeVram, f)) = Range(freeVram) \cup Range(f)
      BY ONLY <2>1, <2>2, ListOver(f, VSlot), ConcatList
    <3> QED BY ONLY <3>1, <3>2
  <2> QED BY <1>1, <1>2, <2>3, Zenon DEF IInv, VramInv, FreeInv, ListOver
<1>4. HolderInv'
  BY <1>1, ReleaseHolders, Zenon
<1>5. CountInv'
  <2>1. {v \in Expert : gpuTransfer'[v] = "D2H"} = {v \in Expert : gpuTransfer[v] = "D2H"}
    BY DEF SameOperation
  <2> QED BY <2>1, Zenon DEF IInv, CountInv
<1>6. \A e \in Expert : IsIncoming(e)' <=> IsIncoming(e)
  BY DEF IsIncoming, SameOperation
<1>7. ClaimInv'
  <2>1. ASSUME NEW s \in VSlot, vramRes'[s] # 0
        PROVE  \E e \in Expert : Claims(e, s)' /\ operationId'[e] = vramRes'[s]
    <3>1. PICK e \in Expert : IsIncoming(e) /\ pendingSlot[e] = s /\ operationId[e] = vramRes[s]
      BY <2>1 DEF IInv, VramInv, ClaimInv, Claims
    <3>2. IsIncoming(e)' /\ pendingSlot'[e] = s /\ operationId'[e] = vramRes'[s]
      BY <1>6, <3>1 DEF SameOperation
    <3> QED BY <3>2 DEF Claims
  <2>2. ASSUME NEW e \in Expert, IsIncoming(e)', pendingSlot'[e] # NoSlot
        PROVE  vramRes'[pendingSlot'[e]] = operationId'[e]
    <3>1. IsIncoming(e) /\ pendingSlot'[e] = pendingSlot[e] /\ operationId'[e] = operationId[e]
      BY <1>6, <2>2 DEF SameOperation
    <3>2. pendingSlot[e] \in VSlot /\ vramRes[pendingSlot[e]] = operationId[e]
      BY <2>2, <3>1 DEF IInv, TypeOK, VramInv, ClaimInv
    <3> QED BY <3>1, <3>2
  <2>3. ASSUME NEW e \in Expert, NEW g \in Expert,
               IsIncoming(e)', IsIncoming(g)', operationId'[e] = operationId'[g]
        PROVE  e = g
    BY <1>6, <2>3 DEF SameOperation, IInv, VramInv, ClaimInv
  <2> QED BY <2>1, <2>2, <2>3 DEF ClaimInv
<1>8. VictimInv'
  <2>1. ASSUME NEW e \in Expert, operation'[e] = "DEMOTION"
        PROVE  vramRes'[slotIdx'[e]] = operationId'[e]
    <3>1. operation[e] = "DEMOTION" /\ operationId'[e] = operationId[e] /\ slotIdx'[e] = slotIdx[e]
      BY <2>1 DEF SameOperation, Stays
    <3>2. slotIdx[e] \in VSlot /\ vramRes[slotIdx[e]] = operationId[e]
      BY <3>1 DEF IInv, EntryInv, EntryOK, VramInv, VictimInv
    <3> QED BY <3>1, <3>2
  <2>2. ASSUME NEW s \in VSlot, vramRes'[s] # 0, vramSlots'[s] # NoExpert
        PROVE  operation'[vramSlots'[s]] = "DEMOTION"
    <3>1. PICK x \in Expert : x = vramSlots'[s] /\ x = vramSlots[s]
      BY <1>1, <2>2
    <3>2. operation[x] = "DEMOTION"
      BY <2>2, <3>1, <1>1 DEF IInv, VramInv, VictimInv
    <3> QED BY <3>1, <3>2 DEF SameOperation
  <2>3. ASSUME NEW e \in Expert, warmShadow'[e], pendingSlot'[e] # NoSlot
        PROVE  vramSlots'[pendingSlot'[e]] = NoExpert
    <3>1. warmShadow[e] /\ pendingSlot'[e] = pendingSlot[e] /\ pendingSlot[e] \in VSlot
      <4>1. warmShadow'[e] = warmShadow[e] /\ pendingSlot'[e] = pendingSlot[e]
        BY Zenon DEF SameOperation
      <4>2. pendingSlot[e] \in VSlot \cup {NoSlot}
        BY ONLY IInv, e \in Expert, Zenon DEF IInv, TypeOK
      <4> QED BY ONLY <2>3, <4>1, <4>2, Zenon
    <3>2. vramSlots[pendingSlot[e]] = NoExpert
      BY <2>3, <3>1, Zenon DEF IInv, VramInv, VictimInv
    <3> QED BY <1>1, <3>1, <3>2
  <2> QED BY <2>1, <2>2, <2>3 DEF VictimInv
<1> QED BY <1>1, <1>3, <1>4, <1>5, <1>7, <1>8 DEF VramInv

(* The slots of distinct idle residents, in any order, are a list of slots. *)
LEMMA SlotsOf ==
  ASSUME IInv, NEW k \in Nat, NEW x \in [1 .. k -> Expert], NEW f \in [1 .. k -> VSlot],
         \A i, j \in 1 .. k : x[i] = x[j] => i = j,
         \A i \in 1 .. k : operation[x[i]] = "NONE" /\ Holds(x[i], f[i])
  PROVE  /\ ListOver(f, VSlot)
         /\ \A s \in VSlot : s \in Range(f) <=> vramSlots[s] \in {x[i] : i \in 1 .. k}
<1>1. \A i \in 1 .. k : vramSlots[f[i]] = x[i]
  BY DEF IInv, VramInv, HolderInv
<1>2. ListOver(f, VSlot) /\ Range(f) = {f[i] : i \in 1 .. k}
  <2>1. \A i, j \in 1 .. k : f[i] = f[j] => i = j
    BY <1>1
  <2>2. f \in Seq(VSlot) /\ DOMAIN f = 1 .. k
    OBVIOUS
  <2> QED BY <2>1, <2>2 DEF ListOver, IsInjective, Range
<1>3. ASSUME NEW s \in VSlot, NEW i \in 1 .. k, vramSlots[s] = x[i]
      PROVE  s = f[i]
  <2>1. Holds(x[i], s) /\ Holds(x[i], f[i])
    BY <1>3 DEF IInv, VramInv, HolderInv
  <2>2. owner[x[i]] = "HOT" => shadowSlot[x[i]] = NoSlot
    BY DEF IInv, EntryInv, EntryOK
  <2>3. s # NoSlot /\ f[i] # NoSlot
    BY DEF VSlot, NoSlot
  <2> QED BY <2>1, <2>2, <2>3 DEF Holds
<1> QED BY <1>1, <1>2, <1>3

(* The start of a stream drains the oldest Hot residents and keeps the others. *)
LEMMA BeginPrefillStep ==
  ASSUME IInv, NEW drain \in Nat, NEW policy \in Alloc, BeginPrefillStream(drain, policy)
  PROVE  IInv'
<1> DEFINE n == Len(hotLru)
           k == IF drain < n THEN drain ELSE n
           R == {hotLru[i] : i \in n - k + 1 .. n}
           x == [i \in 1 .. k |-> hotLru[n + 1 - i]]
           f == [i \in 1 .. k |-> slotIdx[hotLru[n + 1 - i]]]
<1>1. /\ ~stream /\ shadowLru = <<>> /\ \A e \in Expert : operation[e] = "NONE"
      /\ marked' = [e \in Expert |-> owner[e] = "HOT" /\ e \notin R]
      /\ pendingSlot' = [e \in Expert |-> NoSlot]
      /\ warmShadow' = [e \in Expert |-> FALSE]
      /\ shadowSlot' = [e \in Expert |-> NoSlot]
      /\ vramRes' = [s \in VSlot |-> 0]
      /\ hotLru' = SubSeq(hotLru, 1, n - k)
      /\ vramSlots' = [s \in VSlot |-> IF vramSlots[s] \in R THEN NoExpert ELSE vramSlots[s]]
      /\ freeVram' = freeVram \o f
      /\ owner' = [e \in Expert |-> IF e \in R THEN "COLD" ELSE owner[e]]
      /\ slotIdx' = [e \in Expert |-> IF e \in R THEN NoSlot ELSE slotIdx[e]]
      /\ stream' = TRUE /\ frozen' = TRUE /\ alloc' = policy
      /\ UNCHANGED <<operation, operationId, gpuTransfer, leases, hostVars, warmLru, shadowLru,
                     nextOp, demotions>>
  BY Zenon DEF BeginPrefillStream, Quiet
<1>2. /\ hotLru \in Seq(Expert) /\ n \in Nat /\ k \in 0 .. n /\ DOMAIN hotLru = 1 .. n
      /\ \A i, j \in 1 .. n : hotLru[i] = hotLru[j] => i = j
      /\ \A i \in 1 .. n : hotLru[i] \in Expert /\ hotLru[i] \in Range(hotLru)
  BY DEF IInv, LruInv, ListOver, IsInjective, Range
<1> HIDE DEF n, k
<1>3. /\ \A i \in 1 .. n : owner[hotLru[i]] = "HOT" /\ slotIdx[hotLru[i]] \in VSlot
      /\ \A e \in Expert : shadowSlot[e] = NoSlot
  <2>1. \A i \in 1 .. n : owner[hotLru[i]] = "HOT"
    BY <1>2 DEF IInv, LruInv
  <2>2. \A e \in Expert : shadowSlot[e] = NoSlot
    BY <1>1, EmptyList, Zenon DEF IInv, LruInv
  <2> QED BY <1>2, <2>1, <2>2, Zenon DEF IInv, EntryInv, EntryOK
<1>4. /\ R \subseteq Expert /\ \A e \in R : owner[e] = "HOT"
      /\ R = {x[i] : i \in 1 .. k}
  <2>1. \A i \in n - k + 1 .. n : i \in 1 .. n /\ n + 1 - i \in 1 .. k
    BY <1>2
  <2>2. \A i \in 1 .. k : n + 1 - i \in n - k + 1 .. n /\ n + 1 - (n + 1 - i) = i
    BY <1>2
  <2>3. R \subseteq Expert /\ \A e \in R : owner[e] = "HOT"
    BY <1>2, <1>3, <2>1
  <2>4. ASSUME NEW i \in n - k + 1 .. n PROVE hotLru[i] \in {x[j] : j \in 1 .. k}
    <3>1. n + 1 - (n + 1 - i) = i /\ n + 1 - i \in 1 .. k
      BY <1>2, <2>1
    <3>2. x[n + 1 - i] = hotLru[i]
      BY <3>1
    <3> QED BY <3>1, <3>2
  <2>5. \A i \in 1 .. k : x[i] \in R
    BY <2>2
  <2> QED BY <2>3, <2>4, <2>5
<1>5. ListOver(f, VSlot) /\ \A s \in VSlot : s \in Range(f) <=> vramSlots[s] \in R
  <2>1. \A i \in 1 .. k : n + 1 - i \in 1 .. n
    BY <1>2
  <2>2. x \in [1 .. k -> Expert] /\ f \in [1 .. k -> VSlot]
    BY <1>2, <1>3, <2>1
  <2>3. \A i, j \in 1 .. k : x[i] = x[j] => i = j
    <3>1. \A i, j \in 1 .. k : n + 1 - i = n + 1 - j => i = j
      BY <1>2
    <3> QED BY <1>2, <2>1, <3>1
  <2>4. \A i \in 1 .. k : operation[x[i]] = "NONE" /\ Holds(x[i], f[i])
    BY <1>1, <1>2, <1>3, <2>1, Zenon DEF Holds
  <2>5. k \in Nat
    BY <1>2
  <2> HIDE DEF x, f, R
  <2>6. /\ ListOver(f, VSlot)
        /\ \A s \in VSlot : s \in Range(f) <=> vramSlots[s] \in {x[i] : i \in 1 .. k}
    BY <2>2, <2>3, <2>4, <2>5, SlotsOf, Zenon
  <2> QED BY <1>4, <2>6
<1>6. ListOver(hotLru', Expert) /\ \A e \in Expert : e \in Range(hotLru') => e \in Range(hotLru) /\ e \notin R
  <2>1. n - k \in 0 .. n /\ ListOver(hotLru, Expert) /\ n = Len(hotLru)
    BY <1>2 DEF IInv, LruInv, n
  <2>2. ListOver(hotLru', Expert) /\ Range(hotLru') = {hotLru[i] : i \in 1 .. n - k}
    <3>1. hotLru' = SubSeq(hotLru, 1, n - k)
      BY ONLY <1>1
    <3>2. n - k \in 0 .. Len(hotLru)
      BY ONLY <2>1
    <3> DEFINE m == n - k
    <3> HIDE DEF m
    <3>3. m \in 0 .. Len(hotLru) /\ hotLru' = SubSeq(hotLru, 1, m)
      BY ONLY <3>1, <3>2 DEF m
    <3>4. ListOver(hotLru', Expert) /\ Range(hotLru') = {hotLru[i] : i \in 1 .. m}
      BY ONLY <2>1, <3>3, PrefixList, Zenon
    <3> QED BY ONLY <3>4 DEF m
  <2>3. \A i \in 1 .. n - k : i \in 1 .. n /\ \A j \in n - k + 1 .. n : j \in 1 .. n /\ i # j
    BY <1>2
  <2>4. \A i \in 1 .. n - k : hotLru[i] \notin R
    BY <1>2, <2>3
  <2> QED BY <1>2, <2>2, <2>3, <2>4
<1> HIDE DEF R, x, f
<1>7. \A e \in Expert : SameOperation(e)
  <2> SUFFICES ASSUME NEW e \in Expert PROVE SameOperation(e)
    OBVIOUS
  <2>1. pendingSlot[e] = NoSlot /\ warmShadow[e] = FALSE
    BY <1>1, Zenon DEF IInv, TypeOK, EntryInv, EntryOK
  <2>2. pendingSlot'[e] = NoSlot /\ warmShadow'[e] = FALSE
    BY <1>1, Zenon
  <2>3. operation' = operation /\ operationId' = operationId /\ gpuTransfer' = gpuTransfer
    BY <1>1
  <2> QED BY <2>1, <2>2, <2>3, Zenon DEF SameOperation
<1>8. \A s \in VSlot : vramRes'[s] = vramRes[s]
  BY <1>1, Zenon DEF IInv, VramInv, ClaimInv, Claims, IsIncoming
<1>9. /\ \A e \in R : owner'[e] # "HOT" /\ shadowSlot'[e] = NoSlot
      /\ \A e \in Expert \ R : Stays(e)
  BY <1>1, <1>3, <1>4 DEF Stays
<1>10. /\ VramInv' /\ CountInv' /\ freeVram' \in Seq(VSlot)
       /\ vramSlots' \in [VSlot -> Expert \cup {NoExpert}]
  <2>1. /\ R \in SUBSET Expert /\ \A e \in R : operation[e] = "NONE"
        /\ vramSlots' = [s \in VSlot |-> IF vramSlots[s] \in R THEN NoExpert ELSE vramSlots[s]]
        /\ freeVram' = freeVram \o f /\ UNCHANGED demotions
    BY <1>1, <1>4
  <2> QED BY <1>5, <1>7, <1>8, <1>9, <2>1, ReleaseSlots, Zenon
<1>11. EntryInv'
  <2>1. ASSUME NEW e \in Expert PROVE EntryOK(e)'
    <3>1. /\ EntryOK(e) /\ operation'[e] = "NONE" /\ pendingSlot'[e] = NoSlot /\ ~warmShadow'[e]
          /\ shadowSlot'[e] = NoSlot /\ gpuTransfer'[e] = gpuTransfer[e] /\ operation[e] = "NONE"
          /\ operationId'[e] = operationId[e] /\ nextOp' = nextOp
      BY <1>1, Zenon DEF IInv, EntryInv
    <3>2. \/ owner'[e] = "COLD" /\ slotIdx'[e] = NoSlot
          \/ owner'[e] = owner[e] /\ slotIdx'[e] = slotIdx[e]
      BY <1>1, Zenon
    <3> QED BY <3>1, <3>2 DEF EntryOK, IsIncoming
  <2> QED BY <1>1, <2>1 DEF EntryInv
<1>12. LruInv'
  <2>1. \A e \in Expert : e \in Range(warmLru) => e \notin R
    BY <1>4, Zenon DEF IInv, LruInv, WarmLruInv
  <2>2. WarmLruInv'
    BY <1>1, <2>1, Zenon DEF IInv, LruInv, WarmLruInv
  <2>3. \A e \in Expert : e \in Range(shadowLru') <=> shadowSlot'[e] # NoSlot
    BY <1>1, <1>3, Zenon DEF IInv, LruInv
  <2> QED BY <1>1, <1>6, <2>2, <2>3, Zenon DEF IInv, LruInv
<1>13. TypeOK'
  <2>1. /\ owner' \in [Expert -> Tier] /\ marked' \in [Expert -> BOOLEAN]
        /\ slotIdx' \in [Expert -> Nat \cup {NoSlot}]
    BY <1>1, Zenon DEF IInv, TypeOK, Tier
  <2>2. /\ pendingSlot' \in [Expert -> VSlot \cup {NoSlot}]
        /\ shadowSlot' \in [Expert -> VSlot \cup {NoSlot}]
        /\ warmShadow' \in [Expert -> BOOLEAN] /\ vramRes' \in [VSlot -> Nat]
    BY <1>1, Zenon
  <2> QED BY <1>1, <1>6, <1>10, <2>1, <2>2, Zenon DEF IInv, TypeOK, ListOver, hostVars
<1> QED BY <1>10, <1>11, <1>12, <1>13 DEF IInv

(* The part of the invariant about VRAM slots reads the slot tables and the
   entries, and no mode flag. *)
LEMMA VramFrame ==
  ASSUME VramInv,
         UNCHANGED <<owner, slotIdx, pendingSlot, operation, operationId, warmShadow, shadowSlot,
                     vramSlots, vramRes, freeVram>>
  PROVE  VramInv'
<1>1. FreeInv'
  BY Zenon DEF VramInv, FreeInv
<1>2. HolderInv'
  BY DEF VramInv, HolderInv, Holds
<1>3. ClaimInv'
  BY Zenon DEF VramInv, ClaimInv, Claims, IsIncoming
<1>4. VictimInv'
  BY Zenon DEF VramInv, VictimInv
<1> QED BY ONLY <1>1, <1>2, <1>3, <1>4 DEF VramInv

(* The stream ends with no copy in flight and no shadow, so thawing is safe. *)
LEMMA EndPrefillStep ==
  ASSUME IInv, EndPrefillStream
  PROVE  IInv'
<1>1. /\ \A e \in Expert : operation[e] = "NONE" /\ shadowSlot[e] = NoSlot
      /\ stream' = FALSE /\ frozen' = FALSE /\ marked' = [e \in Expert |-> FALSE]
      /\ UNCHANGED <<owner, slotIdx, pendingSlot, operation, operationId, gpuTransfer, leases,
                     shadowSlot, warmShadow, vramVars, hostVars, lruVars, nextOp, demotions, alloc>>
  BY Zenon DEF EndPrefillStream, Quiet
<1>2. TypeOK'
  BY <1>1, Zenon DEF IInv, TypeOK, vramVars, hostVars, lruVars
<1>3. LruInv' /\ CountInv'
  BY <1>1, Zenon DEF IInv, LruInv, WarmLruInv, CountInv, lruVars
<1>4. EntryInv'
  BY <1>1, Zenon DEF IInv, EntryInv, EntryOK, IsIncoming
<1>5. VramInv'
  <2>1. VramInv /\ UNCHANGED <<owner, slotIdx, pendingSlot, operation, operationId, warmShadow,
                              shadowSlot, vramSlots, vramRes, freeVram>>
    BY <1>1, Zenon DEF IInv, vramVars
  <2> QED BY ONLY <2>1, VramFrame
<1> QED BY <1>2, <1>3, <1>4, <1>5 DEF IInv

(* Freezing Warm only changes what later requests do. *)
LEMMA FreezeWarmStep ==
  ASSUME IInv, FreezeWarm
  PROVE  IInv'
<1> USE DEF FreezeWarm, entryVars
<1>1. TypeOK'
  BY Zenon DEF IInv, TypeOK, vramVars, hostVars, lruVars
<1>2. LruInv' /\ CountInv'
  BY Zenon DEF IInv, LruInv, WarmLruInv, CountInv, lruVars
<1>3. EntryInv'
  BY Zenon DEF IInv, EntryInv, EntryOK, IsIncoming
<1>4. VramInv'
  <2>1. VramInv /\ UNCHANGED <<owner, slotIdx, pendingSlot, operation, operationId, warmShadow,
                              shadowSlot, vramSlots, vramRes, freeVram>>
    BY DEF IInv, vramVars
  <2> QED BY ONLY <2>1, VramFrame
<1> QED BY <1>1, <1>2, <1>3, <1>4 DEF IInv

(* Thawing releases every shadow. *)
LEMMA ThawWarmStep ==
  ASSUME IInv, ThawWarm
  PROVE  IInv'
<1> DEFINE R == Range(shadowLru)
           k == Len(shadowLru)
           f == [i \in DOMAIN shadowLru |-> shadowSlot[shadowLru[i]]]
<1>1. /\ ~stream /\ \A e \in Expert : warmShadow[e] => operation[e] = "NONE"
      /\ frozen' = FALSE
      /\ freeVram' = freeVram \o f
      /\ vramSlots' = [s \in VSlot |-> IF vramSlots[s] \in R THEN NoExpert ELSE vramSlots[s]]
      /\ shadowSlot' = [e \in Expert |-> IF e \in R THEN NoSlot ELSE shadowSlot[e]]
      /\ shadowLru' = <<>>
      /\ UNCHANGED <<owner, slotIdx, pendingSlot, operation, operationId, gpuTransfer, leases,
                     warmShadow, marked, vramRes, hostVars, hotLru, warmLru, nextOp, demotions,
                     stream, alloc>>
  BY Zenon DEF ThawWarm
<1>2. /\ k \in Nat /\ DOMAIN shadowLru = 1 .. k /\ shadowLru \in [1 .. k -> Expert]
      /\ \A i, j \in 1 .. k : shadowLru[i] = shadowLru[j] => i = j
      /\ R = {shadowLru[i] : i \in 1 .. k} /\ R \subseteq Expert
  BY DEF IInv, LruInv, ListOver, IsInjective, Range
<1>3. \A e \in Expert : e \in R <=> shadowSlot[e] # NoSlot
  BY Zenon DEF IInv, LruInv
<1>4. \A e \in R : /\ owner[e] = "WARM" /\ operation[e] = "NONE" /\ shadowSlot[e] \in VSlot
                   /\ Holds(e, shadowSlot[e])
  BY <1>2, <1>3 DEF IInv, TypeOK, EntryInv, EntryOK, Holds
<1> HIDE DEF k
<1>5. ListOver(f, VSlot) /\ \A s \in VSlot : s \in Range(f) <=> vramSlots[s] \in R
  <2>1. f \in [1 .. k -> VSlot] /\ \A i \in 1 .. k : shadowLru[i] \in R /\ f[i] = shadowSlot[shadowLru[i]]
    BY <1>2, <1>4
  <2>2. \A i \in 1 .. k : operation[shadowLru[i]] = "NONE" /\ Holds(shadowLru[i], f[i])
    BY <1>4, <2>1, Zenon
  <2> HIDE DEF f, R
  <2>3. /\ ListOver(f, VSlot)
        /\ \A s \in VSlot : s \in Range(f) <=> vramSlots[s] \in {shadowLru[i] : i \in 1 .. k}
    BY <1>2, <2>1, <2>2, SlotsOf
  <2> QED BY <1>2, <2>3
<1> HIDE DEF R, f
<1>6. \A e \in Expert : SameOperation(e)
  BY <1>1, Zenon DEF SameOperation
<1>7. /\ \A e \in R : owner'[e] # "HOT" /\ shadowSlot'[e] = NoSlot
      /\ \A e \in Expert \ R : Stays(e)
      /\ \A s \in VSlot : vramRes'[s] = vramRes[s]
  BY <1>1, <1>2, <1>4, Zenon DEF Stays
<1>8. /\ VramInv' /\ CountInv' /\ freeVram' \in Seq(VSlot)
      /\ vramSlots' \in [VSlot -> Expert \cup {NoExpert}]
  <2>1. /\ R \in SUBSET Expert /\ \A e \in R : operation[e] = "NONE"
        /\ vramSlots' = [s \in VSlot |-> IF vramSlots[s] \in R THEN NoExpert ELSE vramSlots[s]]
        /\ freeVram' = freeVram \o f /\ UNCHANGED demotions
    BY <1>1, <1>2, <1>4, Zenon
  <2> QED BY <1>5, <1>6, <1>7, <2>1, ReleaseSlots, Zenon
<1>9. \A e \in Expert : shadowSlot'[e] = NoSlot
  BY <1>1, <1>3
<1>10. EntryInv'
  <2>1. ASSUME NEW e \in Expert PROVE EntryOK(e)'
    <3>1. EntryOK(e) /\ shadowSlot'[e] = NoSlot /\ ~warmShadow[e]
      BY <1>1, <1>9, Zenon DEF IInv, EntryInv, EntryOK
    <3> QED BY <1>1, <3>1, Zenon DEF EntryOK, IsIncoming
  <2> QED BY <1>1, <2>1, Zenon DEF EntryInv
<1>11. LruInv'
  BY <1>1, <1>9, EmptyList, Zenon DEF IInv, LruInv, WarmLruInv
<1>12. TypeOK'
  <2>1. /\ shadowSlot' = [e \in Expert |-> IF e \in R THEN NoSlot ELSE shadowSlot[e]]
        /\ shadowLru' = <<>>
    BY <1>1, Zenon
  <2>2. shadowSlot' \in [Expert -> VSlot \cup {NoSlot}]
    BY ONLY <1>9, <2>1
  <2>3. shadowLru' \in Seq(Expert)
    BY ONLY <2>1
  <2> QED BY <1>1, <1>8, <2>2, <2>3, Zenon DEF IInv, TypeOK, hostVars
<1> QED BY <1>8, <1>10, <1>11, <1>12 DEF IInv

(* A computed layer gives back exactly the slots its admitted residents hold. *)
LEMMA ReleaseLayerStep ==
  ASSUME IInv, NEW l, ReleaseLayer(l)
  PROVE  IInv'
<1> DEFINE inLayer == {e \in Expert : LayerOf[e] = l}
           hot == {e \in inLayer : owner[e] = "HOT" /\ ~marked[e]}
           shadow == {e \in inLayer : shadowSlot[e] # NoSlot}
           R == hot \cup shadow
           n == Cardinality(R)
<1>1. \A e \in R : operation[e] = "NONE"
  BY Zenon DEF ReleaseLayer, Quiet
<1>2. /\ stream
      /\ \E q \in Ascending(R) : freeVram' = freeVram \o
           [i \in DOMAIN q |-> IF q[i] \in hot THEN slotIdx[q[i]] ELSE shadowSlot[q[i]]]
      /\ vramSlots' = [s \in VSlot |-> IF vramSlots[s] \in R THEN NoExpert ELSE vramSlots[s]]
      /\ owner' = [e \in Expert |-> IF e \in hot THEN "COLD" ELSE owner[e]]
      /\ slotIdx' = [e \in Expert |-> IF e \in hot THEN NoSlot ELSE slotIdx[e]]
      /\ shadowSlot' = [e \in Expert |-> IF e \in shadow THEN NoSlot ELSE shadowSlot[e]]
      /\ hotLru' \in Pruned(hotLru, hot) /\ shadowLru' \in Pruned(shadowLru, shadow)
      /\ UNCHANGED <<pendingSlot, operation, operationId, gpuTransfer, leases, warmShadow, marked,
                     vramRes, hostVars, warmLru, nextOp, demotions, modeVars>>
  BY Zenon DEF ReleaseLayer
<1>3. /\ R \subseteq Expert
      /\ \A e \in hot : owner[e] = "HOT" /\ slotIdx[e] \in VSlot /\ shadowSlot[e] = NoSlot
      /\ \A e \in shadow : owner[e] = "WARM" /\ shadowSlot[e] \in VSlot /\ e \notin hot
  BY Zenon DEF IInv, TypeOK, EntryInv, EntryOK
<1> HIDE DEF hot, shadow
<1>4. PICK q \in Ascending(R) : freeVram' = freeVram \o
         [i \in DOMAIN q |-> IF q[i] \in hot THEN slotIdx[q[i]] ELSE shadowSlot[q[i]]]
  BY <1>2, Zenon
<1> DEFINE f == [i \in DOMAIN q |-> IF q[i] \in hot THEN slotIdx[q[i]] ELSE shadowSlot[q[i]]]
<1> HIDE DEF R, n
<1>5. Range(q) = R /\ n \in Nat /\ q \in Bijection(1 .. n, R)
  BY <1>3, ExpertAssumption, AscendingList, Zenon DEF n
<1>6. /\ q \in [1 .. n -> R] /\ DOMAIN q = 1 .. n /\ R = {q[i] : i \in 1 .. n}
      /\ \A i, j \in 1 .. n : q[i] = q[j] => i = j
  <2>1. q \in [1 .. n -> R] /\ (\A i, j \in 1 .. n : q[i] = q[j] => i = j)
    BY <1>5 DEF Bijection, Injection, IsInjective
  <2>2. \A x \in R : \E i \in 1 .. n : q[i] = x
    BY <1>5 DEF Bijection, Surjection
  <2> QED BY <2>1, <2>2
<1>7. ListOver(f, VSlot) /\ \A s \in VSlot : s \in Range(f) <=> vramSlots[s] \in R
  <2>1. q \in [1 .. n -> Expert]
    BY <1>3, <1>6
  <2>2. \A e \in R : e \in hot \/ e \in shadow
    BY DEF R
  <2>3. f \in [1 .. n -> VSlot]
    BY <1>3, <1>6, <2>2
  <2>4. \A i \in 1 .. n : operation[q[i]] = "NONE" /\ Holds(q[i], f[i])
    BY <1>1, <1>3, <1>6, <2>2 DEF Holds
  <2> HIDE DEF f
  <2>5. /\ ListOver(f, VSlot)
        /\ \A s \in VSlot : s \in Range(f) <=> vramSlots[s] \in {q[i] : i \in 1 .. n}
    BY <1>5, <1>6, <2>1, <2>3, <2>4, SlotsOf
  <2> QED BY <1>6, <2>5
<1>8. \A e \in Expert : SameOperation(e)
  BY <1>2, Zenon DEF SameOperation
<1>9. /\ \A e \in R : owner'[e] # "HOT" /\ shadowSlot'[e] = NoSlot /\ Released(e)
      /\ \A e \in Expert \ R : Stays(e)
      /\ \A s \in VSlot : vramRes'[s] = vramRes[s]
  <2>1. \A e \in hot : owner'[e] # "HOT" /\ shadowSlot'[e] = NoSlot /\ Released(e)
    BY <1>1, <1>2, <1>3, Zenon DEF Released, R
  <2>2. \A e \in shadow : owner'[e] # "HOT" /\ shadowSlot'[e] = NoSlot /\ Released(e)
    BY <1>1, <1>2, <1>3, Zenon DEF Released, R
  <2>3. \A e \in Expert \ R : Stays(e)
    BY <1>2, Zenon DEF Stays, R
  <2> QED BY <1>2, <2>1, <2>2, <2>3, Zenon DEF R
<1>10. /\ VramInv' /\ CountInv' /\ freeVram' \in Seq(VSlot)
       /\ vramSlots' \in [VSlot -> Expert \cup {NoExpert}]
  <2>1. /\ R \in SUBSET Expert /\ \A e \in R : operation[e] = "NONE"
        /\ vramSlots' = [s \in VSlot |-> IF vramSlots[s] \in R THEN NoExpert ELSE vramSlots[s]]
        /\ freeVram' = freeVram \o f /\ UNCHANGED demotions
    BY <1>1, <1>2, <1>3, <1>4, Zenon
  <2>2. \A e \in R : owner'[e] # "HOT" /\ shadowSlot'[e] = NoSlot
    BY <1>9, Zenon
  <2> HIDE DEF f
  <2> QED BY <1>7, <1>8, <1>9, <2>1, <2>2, ReleaseSlots, Zenon
<1>11. EntryInv'
  <2>1. ASSUME NEW e \in Expert PROVE EntryOK(e)'
    <3>1. /\ EntryOK(e) /\ operationId[e] \in Nat /\ nextOp \in Nat /\ nextOp' \in Nat
          /\ nextOp <= nextOp' /\ frozen' = frozen /\ SameOperation(e)
      <4>1. EntryOK(e) /\ operationId[e] \in Nat /\ nextOp \in Nat
        BY ONLY IInv, e \in Expert, Zenon DEF IInv, TypeOK, EntryInv
      <4>2. nextOp' = nextOp /\ frozen' = frozen
        BY ONLY <1>2, Zenon DEF modeVars
      <4> QED BY ONLY <1>8, <4>1, <4>2
    <3>2. Stays(e) \/ Released(e)
      BY ONLY <1>9, e \in Expert, Zenon
    <3> QED BY ONLY <3>1, <3>2, EntryFrame
  <2> QED BY <1>2, <2>1, Zenon DEF IInv, EntryInv, modeVars
<1>12. /\ ListOver(hotLru', Expert) /\ Range(hotLru') = Range(hotLru) \ hot
       /\ ListOver(shadowLru', Expert) /\ Range(shadowLru') = Range(shadowLru) \ shadow
  BY <1>2, PrunedList, Zenon DEF IInv, LruInv
<1>13. LruInv'
  <2>1. WarmLruInv'
    BY <1>2, <1>3, Zenon DEF IInv, LruInv, WarmLruInv
  <2>2. \A e \in Expert : e \in Range(hotLru') => owner'[e] = "HOT" /\ operation'[e] = "NONE"
    BY <1>2, <1>12, Zenon DEF IInv, LruInv
  <2>3. \A e \in Expert : e \in Range(shadowLru') <=> shadowSlot'[e] # NoSlot
    BY <1>2, <1>12, Zenon DEF IInv, LruInv
  <2> QED BY <1>12, <2>1, <2>2, <2>3, Zenon DEF LruInv
<1>14. TypeOK'
  <2>1. /\ owner' \in [Expert -> Tier] /\ slotIdx' \in [Expert -> Nat \cup {NoSlot}]
        /\ shadowSlot' \in [Expert -> VSlot \cup {NoSlot}]
    BY <1>2, Zenon DEF IInv, TypeOK, Tier
  <2> QED BY <1>2, <1>10, <1>12, <2>1, Zenon DEF IInv, TypeOK, ListOver, hostVars, modeVars
<1> QED BY <1>10, <1>11, <1>13, <1>14 DEF IInv

-----------------------------------------------------------------------------
(* Residents that no step may move: the leased ones, and in a stream the
   preserved ones. *)

(* A resident of VRAM, with no transfer of its own, that is leased or that the
   running stream preserves. *)
Pinned(e) ==
  /\ operation[e] = "NONE" /\ VramSlotOf(e) # NoSlot
  /\ leases[e] # 0 \/ (marked[e] /\ stream /\ owner[e] = "HOT")

(* It is where it was. *)
Kept(e) == Stays(e) /\ operation'[e] = "NONE"

(* What a pinned entry looks like. *)
LEMMA PinnedEntry ==
  ASSUME IInv, NEW e \in Expert, Pinned(e)
  PROVE  /\ owner \in [Expert -> Tier] /\ slotIdx \in [Expert -> Nat \cup {NoSlot}]
         /\ shadowSlot \in [Expert -> VSlot \cup {NoSlot}] /\ operation \in [Expert -> Operation]
         /\ e \in Expert /\ operation[e] = "NONE"
         /\ leases[e] # 0 \/ (marked[e] /\ stream /\ owner[e] = "HOT")
         /\ owner[e] = "HOT" \/ (owner[e] = "WARM" /\ frozen /\ shadowSlot[e] # NoSlot)
         /\ shadowSlot[e] # NoSlot => owner[e] = "WARM"
<1>1. TypeOK /\ EntryOK(e)
  BY DEF IInv, EntryInv
<1> QED BY ONLY <1>1, Pinned(e), e \in Expert, Zenon DEF TypeOK, EntryOK, Pinned, VramSlotOf

(* A request that needs a transfer is for another expert, and so is its own
   entry's change. *)
LEMMA PinnedLaunchAlone ==
  ASSUME IInv, NEW e \in Expert, Pinned(e), NEW g \in Expert, NEW s, LaunchAlone(g, s)
  PROVE  e # g /\ operation'[e] = "NONE"
<1>1. e # g
  BY PinnedEntry, Zenon DEF LaunchAlone, Launch, NeedsTransfer
<1>2. operation' = [operation EXCEPT ![g] = IF owner[g] = "WARM" THEN "PROMOTION" ELSE "IO"]
  BY Zenon DEF LaunchAlone
<1>3. operation \in [Expert -> Operation] /\ operation[e] = "NONE"
  BY PinnedEntry, Zenon DEF Pinned
<1> QED BY ONLY <1>1, <1>2, <1>3, e \in Expert, g \in Expert

(* A resident demoted for a request is not leased. *)
LEMMA PinnedDemote ==
  ASSUME IInv, NEW e \in Expert, Pinned(e), NEW g \in Expert, NEW v \in DecodeVictim(g), NEW gpu,
         Demote(g, v, gpu)
  PROVE  operation'[e] = "NONE" /\ shadowSlot' = shadowSlot
<1>1. e # g
  BY PinnedEntry, Zenon DEF Demote, Launch, NeedsTransfer
<1>2. e # v /\ v \in Expert
  <2>1. v \in Expert /\ leases[v] = 0
    BY ONLY v \in DecodeVictim(g), OldestListed DEF DecodeVictim, Unused
  <2>2. ~stream
    BY Zenon DEF Demote
  <2> QED BY ONLY <2>1, <2>2, IInv, e \in Expert, Pinned(e), PinnedEntry, Zenon
<1>3. /\ operation' = [operation EXCEPT ![g] = IF owner[g] = "WARM" THEN "PROMOTION" ELSE "IO",
                                        ![v] = "DEMOTION"]
      /\ shadowSlot' = shadowSlot
  BY Zenon DEF Demote
<1>4. operation \in [Expert -> Operation] /\ operation[e] = "NONE"
  BY PinnedEntry, Zenon DEF Pinned
<1> QED BY ONLY <1>1, <1>2, <1>3, <1>4, e \in Expert, g \in Expert

(* A request leaves a leased resident alone. *)
LEMMA PinnedRequest ==
  ASSUME IInv, NEW e \in Expert, Pinned(e), NEW g \in Expert, Request(g)
  PROVE  Kept(e)
<1>0. /\ owner \in [Expert -> Tier] /\ slotIdx \in [Expert -> Nat \cup {NoSlot}]
      /\ shadowSlot \in [Expert -> VSlot \cup {NoSlot}] /\ operation[e] = "NONE"
      /\ leases[e] # 0 \/ (marked[e] /\ stream /\ owner[e] = "HOT")
      /\ shadowSlot[e] # NoSlot => owner[e] = "WARM"
  BY PinnedEntry
<1>1. CASE JoinPending(g) \/ HotHit(g) \/ ShadowHit(g)
  BY ONLY <1>0, <1>1, Zenon DEF JoinPending, HotHit, ShadowHit, Kept, Stays
<1>2. CASE ReserveFree(g)
  BY <1>2, PinnedLaunchAlone, Zenon DEF ReserveFree, Kept, Stays
<1>3. CASE ReserveStaged(g)
  BY <1>3, PinnedLaunchAlone, Zenon DEF ReserveStaged, Kept, Stays
<1>4. CASE ReserveEvictShadow(g)
  <2>1. PICK v \in ShadowVictim : /\ LaunchAlone(g, shadowSlot[v])
                                  /\ shadowSlot' = [shadowSlot EXCEPT ![v] = NoSlot]
    BY <1>4, Zenon DEF ReserveEvictShadow
  <2>2. leases[v] = 0 /\ shadowSlot[v] # NoSlot
    BY ONLY v \in ShadowVictim, OldestListed DEF ShadowVictim
  <2>3. operation'[e] = "NONE"
    BY <2>1, PinnedLaunchAlone
  <2>4. owner' = owner /\ slotIdx' = slotIdx
    BY <1>4 DEF ReserveEvictShadow
  <2> QED BY ONLY <1>0, <2>1, <2>2, <2>3, <2>4, e \in Expert, Zenon DEF Kept, Stays
<1>5. CASE ReserveEvictHot(g)
  <2>1. PICK v \in PrefillVictim(g) : /\ LaunchAlone(g, slotIdx[v])
                                      /\ owner' = [owner EXCEPT ![v] = "COLD"]
                                      /\ slotIdx' = [slotIdx EXCEPT ![v] = NoSlot]
    BY <1>5, Zenon DEF ReserveEvictHot
  <2>2. leases[v] = 0 /\ ~marked[v]
    BY ONLY v \in PrefillVictim(g), OldestListed DEF PrefillVictim, Unused
  <2>3. operation'[e] = "NONE"
    BY <2>1, PinnedLaunchAlone
  <2>4. shadowSlot' = shadowSlot
    BY <1>5 DEF ReserveEvictHot
  <2> QED BY ONLY <1>0, <2>1, <2>2, <2>3, <2>4, e \in Expert, Zenon DEF Kept, Stays
<1>6. CASE ReserveDropVictim(g)
  BY <1>6, PinnedDemote, Zenon DEF ReserveDropVictim, Kept, Stays
<1>7. CASE ReserveDemoteToFree(g)
  BY <1>7, PinnedDemote, Zenon DEF ReserveDemoteToFree, Kept, Stays
<1>8. CASE ReserveDemoteOverWarm(g)
  <2>1. operation'[e] = "NONE" /\ shadowSlot' = shadowSlot
    BY <1>8, PinnedDemote, Zenon DEF ReserveDemoteOverWarm
  <2>2. PICK w \in WarmVictim(g) : /\ owner' = [owner EXCEPT ![w] = "COLD"]
                                   /\ slotIdx' = [slotIdx EXCEPT ![w] = NoSlot]
    BY <1>8, Zenon DEF ReserveDemoteOverWarm
  <2>3. leases[w] = 0 /\ w \in Expert /\ w \in Range(warmLru)
    <3>1. w \in Range(warmLru) /\ w \in {c \in Expert : c # g /\ Unused(c)}
      BY ONLY w \in WarmVictim(g), OldestListed DEF WarmVictim
    <3> QED BY ONLY <3>1, Zenon DEF Unused
  <2>4. owner[w] = "WARM"
    BY <2>3, Zenon DEF IInv, LruInv, WarmLruInv
  <2> QED BY ONLY <1>0, <2>1, <2>2, <2>3, <2>4, e \in Expert, Zenon DEF Kept, Stays
<1> QED BY ONLY <1>1, <1>2, <1>3, <1>4, <1>5, <1>6, <1>7, <1>8, Request(g) DEF Request

(* A transfer that ends, and a lease that is given back, move only experts in
   transit. *)
LEMMA PinnedSettle ==
  ASSUME IInv, NEW e \in Expert, Pinned(e), NEW g \in Expert, Settle(g)
  PROVE  Kept(e)
<1>0. /\ owner \in [Expert -> Tier] /\ slotIdx \in [Expert -> Nat \cup {NoSlot}]
      /\ shadowSlot \in [Expert -> VSlot \cup {NoSlot}] /\ operation \in [Expert -> Operation]
      /\ operation[e] = "NONE" /\ e \in Expert /\ g \in Expert
  BY PinnedEntry, Zenon DEF Pinned
<1>1. CASE AttachDestination(g) \/ ReleaseLease(g)
  BY ONLY <1>0, <1>1, Zenon DEF AttachDestination, ReleaseLease, Kept, Stays
<1>2. CASE CompleteDemotion(g)
  BY ONLY <1>0, <1>2, Zenon DEF CompleteDemotion, Kept, Stays
<1>3. CASE FailDemotion(g)
  BY ONLY <1>0, <1>3, Zenon DEF FailDemotion, Kept, Stays
<1>4. CASE CompleteRequest(g)
  BY ONLY <1>0, <1>4, Zenon DEF CompleteRequest, ClearOperations, Retired, Victims, IsIncoming, Kept, Stays
<1>5. CASE CompleteShadow(g)
  BY ONLY <1>0, <1>5, Zenon DEF CompleteShadow, IsIncoming, Kept, Stays
<1>6. CASE FailShadow(g)
  BY ONLY <1>0, <1>6, Zenon DEF FailShadow, IsIncoming, Kept, Stays
<1>7. CASE FailRequest(g)
  <2>1. owner' = owner /\ slotIdx' = slotIdx /\ shadowSlot' = shadowSlot /\ ClearOperations(g)
    BY ONLY <1>7, Zenon DEF FailRequest, FailIncoming
  <2>2. operation'[e] = "NONE"
    BY ONLY <1>0, <2>1 DEF ClearOperations
  <2> QED BY ONLY <2>1, <2>2 DEF Kept, Stays
<1>8. CASE FailRequestWithVictim(g)
  <2>1. PICK v \in Victims(operationId[g]) : /\ FailIncoming(g)
                                             /\ owner' = [owner EXCEPT ![v] = "COLD"]
                                             /\ slotIdx' = [slotIdx EXCEPT ![v] = NoSlot]
    BY ONLY <1>8, Zenon DEF FailRequestWithVictim
  <2>2. shadowSlot' = shadowSlot /\ ClearOperations(g)
    BY ONLY <2>1, Zenon DEF FailIncoming
  <2>3. operation'[e] = "NONE"
    BY ONLY <1>0, <2>2, Zenon DEF ClearOperations
  <2>4. v # e
    BY ONLY <1>0, v \in Victims(operationId[g]) DEF Victims
  <2>5. owner'[e] = owner[e] /\ slotIdx'[e] = slotIdx[e]
    BY ONLY <1>0, <2>1, <2>4, Zenon
  <2> QED BY ONLY <2>2, <2>3, <2>5, Zenon DEF Kept, Stays
<1> QED BY ONLY <1>1, <1>2, <1>3, <1>4, <1>5, <1>6, <1>7, <1>8, Settle(g) DEF Settle

(* A drain and the end of a stream wait for every lease, a layer release for
   the layer's, a thaw for the shadows'; a boundary move takes Warm residents
   that have no shadow. *)
LEMMA PinnedPhase ==
  ASSUME IInv, NEW e \in Expert, Pinned(e), Phase
  PROVE  Kept(e)
<1>0. /\ leases[e] # 0 \/ (marked[e] /\ stream /\ owner[e] = "HOT")
      /\ owner[e] = "HOT" \/ (owner[e] = "WARM" /\ shadowSlot[e] # NoSlot)
      /\ operation[e] = "NONE" /\ e \in Expert
      /\ shadowSlot[e] # NoSlot => owner[e] = "WARM"
  BY PinnedEntry, Zenon
<1>1. CASE \E k \in 0 .. VramCap, p \in Alloc : BeginPrefillStream(k, p)
  BY ONLY <1>0, <1>1, Zenon DEF BeginPrefillStream, Quiet
<1>2. CASE EndPrefillStream
  BY ONLY <1>0, <1>2, Zenon DEF EndPrefillStream, Quiet, Kept, Stays
<1>3. CASE \E l \in Layer : ReleaseLayer(l)
  BY ONLY <1>0, <1>3, ZenonT(30) DEF ReleaseLayer, Quiet, Kept, Stays
<1>4. CASE FreezeWarm
  BY ONLY <1>0, <1>4, Zenon DEF FreezeWarm, Kept, Stays, entryVars
<1>5. CASE ThawWarm
  BY ONLY <1>0, <1>5, Zenon DEF ThawWarm, Quiet, Kept, Stays
<1>6. CASE \E u \in 0 .. HostCap : GrowHost(u)
  BY ONLY <1>0, <1>6, Zenon DEF GrowHost, Kept, Stays, entryVars
<1>7. CASE \E u \in 0 .. HostCap : ShrinkHost(u)
  <2>1. PICK u \in 0 .. HostCap : ShrinkHost(u)
    BY ONLY <1>7, Zenon
  <2>2. ~(owner[e] = "WARM" /\ slotIdx[e] >= u)
    BY ONLY <1>0, <2>1, Zenon DEF ShrinkHost
  <2>3. owner'[e] = owner[e] /\ slotIdx'[e] = slotIdx[e]
    BY ONLY <1>0, <2>1, <2>2, Zenon DEF ShrinkHost
  <2>4. UNCHANGED <<operation, shadowSlot>>
    BY ONLY <2>1, Zenon DEF ShrinkHost
  <2> QED BY ONLY <1>0, <2>3, <2>4, Zenon DEF Kept, Stays
<1> QED BY ONLY <1>1, <1>2, <1>3, <1>4, <1>5, <1>6, <1>7, Phase DEF Phase

(* No step moves a pinned resident. *)
LEMMA PinnedStep ==
  ASSUME IInv, [Next]_vars, NEW e \in Expert, Pinned(e)
  PROVE  Kept(e) /\ VramSlotOf(e)' = VramSlotOf(e)
<1>1. Kept(e)
  <2>1. CASE Next
    BY <2>1, PinnedRequest, PinnedSettle, PinnedPhase DEF Next
  <2>2. CASE UNCHANGED vars
    BY ONLY <2>2, Pinned(e), Zenon DEF vars, entryVars, Pinned, Kept, Stays
  <2> QED BY <2>1, <2>2
<1> QED BY ONLY <1>1, Zenon DEF Kept, Stays, VramSlotOf

(* A mark is on an idle Hot resident and only while a stream runs. *)
MarkInv == \A e \in Expert : marked[e] => stream /\ owner[e] = "HOT" /\ operation[e] = "NONE"

(* Only the two ends of a stream change the marks. *)
LEMMA MarkFrame ==
  ASSUME [Next]_vars
  PROVE  \/ \E k \in 0 .. VramCap, p \in Alloc : BeginPrefillStream(k, p)
         \/ EndPrefillStream
         \/ marked' = marked /\ stream' = stream
<1>1. ASSUME NEW g \in Expert, Request(g) PROVE marked' = marked /\ stream' = stream
  BY ONLY <1>1, Zenon DEF Request, JoinPending, HotHit, ShadowHit, ReserveFree, ReserveEvictShadow,
     ReserveEvictHot, ReserveDropVictim, ReserveDemoteToFree, ReserveDemoteOverWarm, ReserveStaged,
     LaunchAlone, Demote, modeVars
<1>2. ASSUME NEW g \in Expert, Settle(g) PROVE marked' = marked /\ stream' = stream
  BY ONLY <1>2, Zenon DEF Settle, AttachDestination, CompleteDemotion, FailDemotion, CompleteRequest,
     CompleteShadow, FailRequest, FailRequestWithVictim, FailIncoming, FailShadow, ReleaseLease,
     modeVars
<1>3. ASSUME NEW l \in Layer, ReleaseLayer(l) PROVE marked' = marked /\ stream' = stream
  BY ONLY <1>3, Zenon DEF ReleaseLayer, modeVars
<1>4. ASSUME FreezeWarm \/ ThawWarm PROVE marked' = marked /\ stream' = stream
  BY ONLY <1>4, Zenon DEF FreezeWarm, ThawWarm, entryVars
<1>5. ASSUME NEW u \in 0 .. HostCap, GrowHost(u) \/ ShrinkHost(u)
      PROVE  marked' = marked /\ stream' = stream
  BY ONLY <1>5, Zenon DEF GrowHost, ShrinkHost, entryVars, modeVars
<1>6. ASSUME UNCHANGED vars PROVE marked' = marked /\ stream' = stream
  BY ONLY <1>6 DEF vars, entryVars, modeVars
<1> QED BY ONLY <1>1, <1>2, <1>3, <1>4, <1>5, <1>6, [Next]_vars DEF Next, Phase

(* A marked resident is pinned. *)
LEMMA MarkedPinned ==
  ASSUME IInv, MarkInv, NEW e \in Expert, marked[e]
  PROVE  Pinned(e)
<1>1. stream /\ owner[e] = "HOT" /\ operation[e] = "NONE"
  BY Zenon DEF MarkInv
<1>2. slotIdx[e] \in VSlot /\ NoSlot \notin VSlot
  <2>1. EntryOK(e)
    BY ONLY IInv, e \in Expert DEF IInv, EntryInv
  <2>2. slotIdx[e] \in VSlot
    BY ONLY <1>1, <2>1, Zenon DEF EntryOK
  <2>3. NoSlot \notin VSlot
    BY ONLY CapacityAssumption DEF VSlot, NoSlot
  <2> QED BY ONLY <2>2, <2>3
<1> QED BY ONLY <1>1, <1>2, marked[e], Zenon DEF Pinned, VramSlotOf

(* Every step keeps MarkInv, and keeps a marked resident and its mark. *)
LEMMA MarkStep ==
  ASSUME IInv, MarkInv, [Next]_vars
  PROVE  /\ MarkInv'
         /\ \A e \in Expert : marked[e] =>
              /\ owner'[e] = "HOT" /\ slotIdx'[e] = slotIdx[e] /\ operation'[e] = "NONE"
              /\ stream' => marked'[e]
<1>1. ASSUME NEW e \in Expert, marked[e]
      PROVE  stream /\ owner'[e] = "HOT" /\ slotIdx'[e] = slotIdx[e] /\ operation'[e] = "NONE"
  <2>1. Kept(e) /\ stream /\ owner[e] = "HOT"
    BY <1>1, MarkedPinned, PinnedStep, Zenon DEF MarkInv
  <2> QED BY ONLY <2>1, Zenon DEF Kept, Stays
<1>2. CASE \E k \in 0 .. VramCap, p \in Alloc : BeginPrefillStream(k, p)
  <2>1. ~stream /\ stream' = TRUE
    BY ONLY <1>2, Zenon DEF BeginPrefillStream
  <2>2. \A e \in Expert : marked'[e] => owner'[e] = "HOT" /\ operation'[e] = "NONE"
    BY ONLY <1>2, ZenonT(30) DEF BeginPrefillStream, Quiet
  <2> QED BY ONLY <1>1, <2>1, <2>2, Zenon DEF MarkInv
<1>3. CASE EndPrefillStream
  <2>1. stream' = FALSE /\ \A e \in Expert : marked'[e] = FALSE
    BY ONLY <1>3, Zenon DEF EndPrefillStream
  <2> QED BY ONLY <1>1, <2>1, Zenon DEF MarkInv
<1>4. CASE marked' = marked /\ stream' = stream
  BY ONLY <1>1, <1>4, Zenon DEF MarkInv
<1> QED BY ONLY <1>2, <1>3, <1>4, MarkFrame, [Next]_vars, Zenon

-----------------------------------------------------------------------------
(* What a stream may do to Warm. *)

(* In a stream nothing is demoted and every copy out of Warm is a shadow. *)
StreamEntry(e) == operation[e] # "DEMOTION" /\ (operation[e] = "PROMOTION" => warmShadow[e])
StreamInv == stream => \A e \in Expert : StreamEntry(e)

(* Warm still has e, in its slot, exactly when it had it. *)
WarmKept(e) ==
  /\ owner'[e] = "WARM" <=> owner[e] = "WARM"
  /\ owner[e] = "WARM" => slotIdx'[e] = slotIdx[e]

(* A transfer that a stream starts is a read of storage or a shadow copy. *)
LEMMA StreamLaunch ==
  ASSUME IInv, StreamInv, stream, NEW g \in Expert, NEW s, LaunchAlone(g, s)
  PROVE  \A e \in Expert : StreamEntry(e)'
<1>1. /\ operation \in [Expert -> Operation] /\ warmShadow \in [Expert -> BOOLEAN] /\ frozen
      /\ \A e \in Expert : StreamEntry(e)
  BY ONLY IInv, StreamInv, stream, Zenon DEF IInv, TypeOK, EntryInv, StreamInv
<1>2. /\ operation' = [operation EXCEPT ![g] = IF owner[g] = "WARM" THEN "PROMOTION" ELSE "IO"]
      /\ warmShadow' = [warmShadow EXCEPT ![g] = Shadowing(g)]
  BY ONLY LaunchAlone(g, s), Zenon DEF LaunchAlone, Launch
<1>3. Shadowing(g) <=> owner[g] = "WARM"
  BY ONLY <1>1 DEF Shadowing
<1>4. operation'[g] = (IF owner[g] = "WARM" THEN "PROMOTION" ELSE "IO") /\ warmShadow'[g] = Shadowing(g)
  BY ONLY <1>1, <1>2, g \in Expert
<1>5. \A e \in Expert \ {g} : operation'[e] = operation[e] /\ warmShadow'[e] = warmShadow[e]
  BY ONLY <1>1, <1>2, g \in Expert
<1> QED BY ONLY <1>1, <1>3, <1>4, <1>5, Zenon DEF StreamEntry

(* A request inside a stream. *)
LEMMA StreamRequest ==
  ASSUME IInv, StreamInv, stream, NEW g \in Expert, Request(g)
  PROVE  \A e \in Expert : StreamEntry(e)' /\ WarmKept(e)
<1>0. (\A e \in Expert : StreamEntry(e)) /\ owner \in [Expert -> Tier]
      /\ slotIdx \in [Expert -> Nat \cup {NoSlot}]
  BY ONLY IInv, StreamInv, stream, Zenon DEF IInv, TypeOK, StreamInv
<1>1. CASE JoinPending(g) \/ HotHit(g) \/ ShadowHit(g)
  BY ONLY <1>0, <1>1, Zenon DEF JoinPending, HotHit, ShadowHit, StreamEntry, WarmKept
<1>2. CASE ReserveFree(g) \/ ReserveStaged(g) \/ ReserveEvictShadow(g)
  <2>1. owner' = owner /\ slotIdx' = slotIdx
    BY ONLY <1>2, Zenon DEF ReserveFree, ReserveStaged, ReserveEvictShadow
  <2>2. \E s : LaunchAlone(g, s)
    BY ONLY <1>2, Zenon DEF ReserveFree, ReserveStaged, ReserveEvictShadow
  <2>3. \A e \in Expert : StreamEntry(e)'
    BY <2>2, StreamLaunch
  <2> QED BY ONLY <2>1, <2>3 DEF WarmKept
<1>3. CASE ReserveEvictHot(g)
  <2>1. PICK v \in PrefillVictim(g) : /\ LaunchAlone(g, slotIdx[v])
                                      /\ owner' = [owner EXCEPT ![v] = "COLD"]
                                      /\ slotIdx' = [slotIdx EXCEPT ![v] = NoSlot]
    BY ONLY <1>3, Zenon DEF ReserveEvictHot
  <2>2. v \in Expert /\ v \in Range(hotLru)
    BY ONLY v \in PrefillVictim(g), OldestListed DEF PrefillVictim
  <2>3. owner[v] = "HOT"
    BY ONLY <2>2, IInv, Zenon DEF IInv, LruInv
  <2>4. \A e \in Expert : StreamEntry(e)'
    BY <2>1, StreamLaunch
  <2>5. \A e \in Expert : WarmKept(e)
    BY ONLY <1>0, <2>1, <2>2, <2>3 DEF WarmKept
  <2> QED BY ONLY <2>4, <2>5
<1>4. ~ReserveDropVictim(g) /\ ~ReserveDemoteToFree(g) /\ ~ReserveDemoteOverWarm(g)
  BY ONLY stream, Zenon DEF ReserveDropVictim, ReserveDemoteToFree, ReserveDemoteOverWarm, Demote
<1> QED BY ONLY <1>1, <1>2, <1>3, <1>4, Request(g), Zenon DEF Request

(* The end of a transfer inside a stream. *)
LEMMA StreamSettle ==
  ASSUME IInv, StreamInv, stream, NEW g \in Expert, Settle(g)
  PROVE  \A e \in Expert : StreamEntry(e)' /\ WarmKept(e)
<1>0. /\ \A e \in Expert : StreamEntry(e)
      /\ operation \in [Expert -> Operation] /\ warmShadow \in [Expert -> BOOLEAN]
      /\ IsIncoming(g) /\ ~warmShadow[g] => owner[g] = "COLD"
      /\ g \in Expert /\ Victims(operationId[g]) = {} /\ Retired(g) = {g}
  <2>1. \A e \in Expert : StreamEntry(e)
    BY ONLY StreamInv, stream DEF StreamInv
  <2>2. operation \in [Expert -> Operation] /\ warmShadow \in [Expert -> BOOLEAN] /\ EntryOK(g)
    BY ONLY IInv, g \in Expert, Zenon DEF IInv, TypeOK, EntryInv
  <2>3. Victims(operationId[g]) = {}
    BY ONLY <2>1, Zenon DEF Victims, StreamEntry
  <2>4. IsIncoming(g) /\ ~warmShadow[g] => owner[g] = "COLD"
    BY ONLY <2>1, <2>2, g \in Expert, Zenon DEF IsIncoming, StreamEntry, EntryOK
  <2> QED BY ONLY <2>1, <2>2, <2>3, <2>4, g \in Expert, Zenon DEF Retired
<1>1. CASE AttachDestination(g) \/ ReleaseLease(g)
  BY ONLY <1>0, <1>1, Zenon DEF AttachDestination, ReleaseLease, StreamEntry, WarmKept
<1>2. ~CompleteDemotion(g) /\ ~FailDemotion(g) /\ ~FailRequestWithVictim(g)
  BY ONLY <1>0, Zenon DEF CompleteDemotion, FailDemotion, FailRequestWithVictim, StreamEntry
<1>3. CASE CompleteRequest(g)
  <2>1. /\ \A e \in Expert : operation'[e] = (IF e = g THEN "NONE" ELSE operation[e])
        /\ \A e \in Expert : owner'[e] = (IF e = g THEN "HOT" ELSE owner[e])
        /\ \A e \in Expert \ {g} : slotIdx'[e] = slotIdx[e]
        /\ warmShadow' = warmShadow /\ owner[g] = "COLD"
    BY ONLY <1>0, <1>3, Zenon DEF CompleteRequest, ClearOperations
  <2> QED BY ONLY <1>0, <2>1, Zenon DEF StreamEntry, WarmKept
<1>4. CASE CompleteShadow(g) \/ FailShadow(g)
  <2>1. /\ operation' = [operation EXCEPT ![g] = "NONE"]
        /\ warmShadow' = [warmShadow EXCEPT ![g] = FALSE]
        /\ owner' = owner /\ slotIdx' = slotIdx
    BY ONLY <1>4, Zenon DEF CompleteShadow, FailShadow
  <2> QED BY ONLY <1>0, <2>1, Zenon DEF StreamEntry, WarmKept
<1>5. CASE FailRequest(g)
  <2>1. /\ \A e \in Expert : operation'[e] = (IF e = g THEN "NONE" ELSE operation[e])
        /\ warmShadow' = warmShadow /\ owner' = owner /\ slotIdx' = slotIdx
    BY ONLY <1>0, <1>5, Zenon DEF FailRequest, FailIncoming, ClearOperations
  <2> QED BY ONLY <1>0, <2>1, Zenon DEF StreamEntry, WarmKept
<1> QED BY ONLY <1>1, <1>2, <1>3, <1>4, <1>5, Settle(g) DEF Settle

(* The phase switches: inside a stream only a layer release and a boundary
   move leave the stream running, and neither touches a transfer. *)
LEMMA StreamPhase ==
  ASSUME IInv, StreamInv, stream, stream', Phase
  PROVE  /\ \A e \in Expert : StreamEntry(e)'
         /\ usable' = usable => \A e \in Expert : WarmKept(e)
<1>0. (\A e \in Expert : StreamEntry(e)) /\ usable \in Nat
  <2>1. usable \in 0 .. HostCap
    BY ONLY IInv, Zenon DEF IInv, TypeOK
  <2> QED BY ONLY <2>1, StreamInv, stream, CapacityAssumption DEF StreamInv
<1>1. /\ \A k \in 0 .. VramCap, p \in Alloc : ~BeginPrefillStream(k, p)
      /\ ~EndPrefillStream /\ ~FreezeWarm /\ ~ThawWarm
  BY ONLY stream, stream', Zenon DEF BeginPrefillStream, EndPrefillStream, FreezeWarm, ThawWarm
<1>2. ASSUME NEW l \in Layer, ReleaseLayer(l)
      PROVE  \A e \in Expert : StreamEntry(e)' /\ WarmKept(e)
  BY ONLY <1>0, <1>2, Zenon DEF ReleaseLayer, StreamEntry, WarmKept
<1>3. ASSUME NEW u \in 0 .. HostCap, GrowHost(u) \/ ShrinkHost(u)
      PROVE  usable' # usable /\ \A e \in Expert : StreamEntry(e)'
  <2>1. operation' = operation /\ warmShadow' = warmShadow
    BY ONLY <1>3, Zenon DEF GrowHost, ShrinkHost, entryVars
  <2>2. usable' # usable
    <3>1. usable \in Nat /\ u \in Nat
      BY ONLY <1>0, u \in 0 .. HostCap, CapacityAssumption
    <3>2. usable' = u /\ (usable < u \/ u < usable)
      BY ONLY <1>3, Zenon DEF GrowHost, ShrinkHost
    <3> QED BY ONLY <3>1, <3>2
  <2> QED BY ONLY <1>0, <2>1, <2>2 DEF StreamEntry
<1> QED BY ONLY <1>1, <1>2, <1>3, Phase DEF Phase

(* Every step keeps StreamInv, and a stream's steps keep Warm. *)
LEMMA StreamStep ==
  ASSUME IInv, StreamInv, [Next]_vars
  PROVE  /\ StreamInv'
         /\ stream /\ stream' /\ usable' = usable => \A e \in Expert : WarmKept(e)
<1>1. CASE stream /\ stream'
  <2>1. ASSUME Next
        PROVE  /\ \A e \in Expert : StreamEntry(e)'
               /\ usable' = usable => \A e \in Expert : WarmKept(e)
    BY <1>1, <2>1, StreamRequest, StreamSettle, StreamPhase DEF Next
  <2>2. ASSUME UNCHANGED vars
        PROVE  /\ \A e \in Expert : StreamEntry(e)'
               /\ \A e \in Expert : WarmKept(e)
    BY ONLY <1>1, <2>2, StreamInv, Zenon DEF vars, entryVars, StreamInv, StreamEntry, WarmKept
  <2> QED BY ONLY <2>1, <2>2, [Next]_vars DEF StreamInv
<1>2. CASE ~stream /\ stream'
  <2>1. \E k \in 0 .. VramCap, p \in Alloc : BeginPrefillStream(k, p)
    BY ONLY <1>2, MarkFrame, [Next]_vars, Zenon DEF EndPrefillStream
  <2>2. \A e \in Expert : operation'[e] = "NONE"
    BY ONLY <2>1, Zenon DEF BeginPrefillStream, Quiet
  <2> QED BY ONLY <1>2, <2>2, Zenon DEF StreamInv, StreamEntry
<1>3. CASE ~stream'
  BY ONLY <1>3 DEF StreamInv
<1> QED BY ONLY <1>1, <1>2, <1>3
=============================================================================
