------------------------- MODULE RegistryHostProofs -------------------------
(***************************************************************************)
(* The Warm tier of ExpertRegistry, for every number of experts and slots: *)
(* no host slot is lost or handed out twice, every transfer in flight can  *)
(* be ended, and the registry passes its own audit after every call.       *)
(***************************************************************************)
EXTENDS RegistryInvariant

(* The two transfers that keep a host slot reserved: the copy into VRAM of an
   expert that will leave Warm, and the copy of a victim into Warm. *)
Leaving(e) == operation[e] = "PROMOTION" /\ ~warmShadow[e]
Landing(e) == operation[e] = "DEMOTION" /\ gpuTransfer[e] = "D2H"

(* An empty host slot reserved for op. *)
Room(op, h) == hostRes[h] = op /\ hostSlots[h] = NoExpert

(* A host slot is free exactly when it is below the boundary, empty and not
   reserved; above the boundary every slot is empty and not reserved. *)
FreeHostInv ==
  /\ ListOver(freeHost, HSlot)
  /\ \A h \in HSlot :
       h \in Range(freeHost) <=> h < usable /\ hostSlots[h] = NoExpert /\ hostRes[h] = 0
  /\ \A h \in HSlot : h >= usable => hostSlots[h] = NoExpert /\ hostRes[h] = 0

(* The slot table lists exactly the Warm experts. *)
HostHolderInv == \A h \in HSlot, e \in Expert : hostSlots[h] = e <=> HoldsHost(e, h)

(* A reserved host slot is the source of a promotion, if somebody holds it, or
   the room of a demotion; a promotion has its source reserved, a demotion
   exactly one room. *)
HostClaimInv ==
  /\ \A e \in Expert : Leaving(e) => hostRes[slotIdx[e]] = operationId[e]
  /\ \A h \in HSlot : hostRes[h] # 0 /\ hostSlots[h] # NoExpert => Leaving(hostSlots[h])
  /\ \A h \in HSlot : hostRes[h] # 0 /\ hostSlots[h] = NoExpert =>
       \E v \in Expert : Landing(v) /\ operationId[v] = hostRes[h]
  /\ \A v \in Expert : Landing(v) =>
       \E h \in HSlot : \A k \in HSlot : Room(operationId[v], k) <=> k = h

HostInv == FreeHostInv /\ HostHolderInv /\ HostClaimInv /\ demotions <= QueueCap

-----------------------------------------------------------------------------
(* What the invariant says about one slot or one expert. *)

(* A Warm expert sits in its host slot, below the boundary; the slot is
   reserved exactly while the expert leaves. *)
LEMMA WarmSlot ==
  ASSUME IInv, HostInv, NEW e \in Expert, owner[e] = "WARM"
  PROVE  /\ slotIdx[e] \in HSlot /\ hostSlots[slotIdx[e]] = e /\ e # NoExpert
         /\ slotIdx[e] < usable
         /\ hostRes[slotIdx[e]] # 0 <=> Leaving(e)
         /\ Leaving(e) => hostRes[slotIdx[e]] = operationId[e] /\ operationId[e] # 0
<1>1. EntryOK(e) /\ usable \in Nat
  <2>1. usable \in 0 .. HostCap /\ EntryOK(e)
    BY ONLY IInv, e \in Expert DEF IInv, TypeOK, EntryInv
  <2> QED BY ONLY <2>1, CapacityAssumption
<1>2. slotIdx[e] \in HSlot /\ slotIdx[e] \in Nat
  BY ONLY <1>1, owner[e] = "WARM", CapacityAssumption DEF EntryOK, HSlot
<1>3. e # NoExpert
  BY ONLY e \in Expert, ExpertAssumption DEF NoExpert
<1>4. hostSlots[slotIdx[e]] = e
  BY ONLY <1>2, HostInv, e \in Expert, owner[e] = "WARM" DEF HostInv, HostHolderInv, HoldsHost
<1>5. slotIdx[e] < usable
  BY ONLY <1>1, <1>2, <1>3, <1>4, HostInv DEF HostInv, FreeHostInv
<1>6. Leaving(e) => operationId[e] # 0
  BY ONLY <1>1 DEF EntryOK, Leaving
<1>7. /\ Leaving(e) => hostRes[slotIdx[e]] = operationId[e]
      /\ hostRes[slotIdx[e]] # 0 => Leaving(e)
  BY ONLY <1>2, <1>3, <1>4, HostInv, e \in Expert DEF HostInv, HostClaimInv
<1> QED BY ONLY <1>2, <1>3, <1>4, <1>5, <1>6, <1>7

(* The types of the host tables. *)
LEMMA HostTypes ==
  ASSUME IInv
  PROVE  /\ hostSlots \in [HSlot -> Expert \cup {NoExpert}] /\ hostRes \in [HSlot -> Nat]
         /\ usable \in Nat /\ usable <= HostCap /\ nextOp \in Nat \ {0} /\ demotions \in Nat
         /\ \A h \in HSlot : h \in Nat /\ h < HostCap
         /\ \A e \in Expert : e # NoExpert /\ operationId[e] \in Nat /\ operationId[e] < nextOp
<1>1. /\ hostSlots \in [HSlot -> Expert \cup {NoExpert}] /\ hostRes \in [HSlot -> Nat]
      /\ usable \in 0 .. HostCap /\ nextOp \in Nat \ {0} /\ demotions \in Nat
      /\ operationId \in [Expert -> Nat]
  BY ONLY IInv DEF IInv, TypeOK
<1>2. \A e \in Expert : operationId[e] < nextOp
  BY ONLY IInv DEF IInv, EntryInv, EntryOK
<1>3. \A e \in Expert : e # NoExpert
  BY ONLY ExpertAssumption DEF NoExpert
<1>4. usable \in Nat /\ usable <= HostCap /\ \A h \in HSlot : h \in Nat /\ h < HostCap
  BY ONLY <1>1, CapacityAssumption DEF HSlot
<1> QED BY ONLY <1>1, <1>2, <1>3, <1>4

(* No host slot is reserved for an operation that has not started. *)
LEMMA HostResOld ==
  ASSUME IInv, HostInv, NEW h \in HSlot
  PROVE  hostRes[h] \in Nat /\ hostRes[h] < nextOp
<1>1. CASE hostRes[h] = 0
  BY ONLY <1>1, IInv, HostTypes
<1>2. CASE hostRes[h] # 0 /\ hostSlots[h] = NoExpert
  <2>1. \E v \in Expert : operationId[v] = hostRes[h]
    BY ONLY <1>2, HostInv, h \in HSlot DEF HostInv, HostClaimInv
  <2> QED BY ONLY <2>1, IInv, HostTypes
<1>3. CASE hostRes[h] # 0 /\ hostSlots[h] # NoExpert
  <2>1. hostSlots[h] \in Expert
    BY ONLY <1>3, IInv, HostTypes, h \in HSlot
  <2>2. HoldsHost(hostSlots[h], h)
    BY ONLY <2>1, HostInv, h \in HSlot DEF HostInv, HostHolderInv
  <2>3. Leaving(hostSlots[h])
    BY ONLY <1>3, HostInv, h \in HSlot DEF HostInv, HostClaimInv
  <2>4. hostRes[h] = operationId[hostSlots[h]]
    BY ONLY <2>1, <2>2, <2>3, IInv, HostInv, WarmSlot DEF HoldsHost
  <2> QED BY ONLY <2>1, <2>4, IInv, HostTypes
<1> QED BY ONLY <1>1, <1>2, <1>3

(* An operation has one victim. *)
LEMMA OneVictim ==
  ASSUME IInv, NEW e \in Expert, NEW f \in Expert, operation[e] = "DEMOTION",
         operation[f] = "DEMOTION", operationId[e] = operationId[f]
  PROVE  e = f
<1>1. ASSUME NEW v \in Expert, operation[v] = "DEMOTION"
      PROVE  \E g \in Expert : /\ IsIncoming(g) /\ operationId[g] = operationId[v]
                               /\ pendingSlot[g] = slotIdx[v] /\ slotIdx[v] \in VSlot
                               /\ vramSlots[slotIdx[v]] = v
  <2>1. owner[v] = "HOT" /\ slotIdx[v] \in VSlot /\ operationId[v] # 0
    BY ONLY <1>1, IInv DEF IInv, EntryInv, EntryOK
  <2>2. vramRes[slotIdx[v]] = operationId[v]
    BY ONLY <1>1, IInv DEF IInv, VramInv, VictimInv
  <2>3. vramSlots[slotIdx[v]] = v
    BY ONLY <2>1, IInv, v \in Expert DEF IInv, VramInv, HolderInv, Holds
  <2>4. \E g \in Expert : Claims(g, slotIdx[v]) /\ operationId[g] = vramRes[slotIdx[v]]
    BY ONLY <2>1, <2>2, IInv DEF IInv, VramInv, ClaimInv
  <2> QED BY ONLY <2>1, <2>2, <2>3, <2>4 DEF Claims
<1>2. \A g, k \in Expert : IsIncoming(g) /\ IsIncoming(k) /\ operationId[g] = operationId[k] => g = k
  BY ONLY IInv DEF IInv, VramInv, ClaimInv
<1>3. PICK g \in Expert : /\ IsIncoming(g) /\ operationId[g] = operationId[e]
                          /\ pendingSlot[g] = slotIdx[e] /\ vramSlots[slotIdx[e]] = e
  BY ONLY <1>1, operation[e] = "DEMOTION", e \in Expert
<1>4. PICK k \in Expert : /\ IsIncoming(k) /\ operationId[k] = operationId[f]
                          /\ pendingSlot[k] = slotIdx[f] /\ vramSlots[slotIdx[f]] = f
  BY ONLY <1>1, operation[f] = "DEMOTION", f \in Expert
<1>5. g = k
  BY ONLY <1>2, <1>3, <1>4, operationId[e] = operationId[f]
<1> QED BY ONLY <1>3, <1>4, <1>5

(* find_reserved_host_slot finds a demotion its room. *)
LEMMA RoomOf ==
  ASSUME IInv, HostInv, NEW v \in Expert, Landing(v), NEW h \in ReservedHost(operationId[v])
  PROVE  /\ h \in HSlot /\ hostSlots[h] = NoExpert /\ hostRes[h] = operationId[v] /\ hostRes[h] # 0
         /\ h < usable
         /\ \A k \in HSlot : Room(operationId[v], k) <=> k = h
<1>1. PICK r \in HSlot : \A k \in HSlot : Room(operationId[v], k) <=> k = r
  BY ONLY HostInv, v \in Expert, Landing(v) DEF HostInv, HostClaimInv
<1>2. h \in HSlot /\ Room(operationId[v], h)
  BY ONLY <1>1, h \in ReservedHost(operationId[v]) DEF ReservedHost, Room
<1>3. operationId[v] # 0
  BY ONLY IInv, v \in Expert, Landing(v) DEF IInv, EntryInv, EntryOK, Landing
<1>4. h < usable
  BY ONLY <1>2, <1>3, HostInv, IInv, HostTypes DEF HostInv, FreeHostInv, Room
<1> QED BY ONLY <1>1, <1>2, <1>3, <1>4 DEF Room

-----------------------------------------------------------------------------
(* Steps that leave the host tables alone. *)

(* What the host tables record of an expert does not change. *)
SameStay(e) ==
  /\ owner'[e] = "WARM" <=> owner[e] = "WARM"
  /\ owner[e] = "WARM" => slotIdx'[e] = slotIdx[e]
SameTransit(e) ==
  /\ Leaving(e)' <=> Leaving(e)
  /\ Landing(e)' <=> Landing(e)
  /\ Leaving(e) \/ Landing(e) => operationId'[e] = operationId[e]

(* Then the tables need not change either. *)
LEMMA HostFrame ==
  ASSUME IInv, HostInv, UNCHANGED hostVars, demotions' = demotions,
         \A e \in Expert : SameStay(e) /\ SameTransit(e)
  PROVE  HostInv'
<1>1. hostSlots' = hostSlots /\ hostRes' = hostRes /\ freeHost' = freeHost /\ usable' = usable
  BY DEF hostVars
<1>2. FreeHostInv'
  BY ONLY <1>1, HostInv DEF HostInv, FreeHostInv
<1>3. HostHolderInv'
  BY ONLY <1>1, HostInv, \A e \in Expert : SameStay(e) /\ SameTransit(e)
     DEF HostInv, HostHolderInv, HoldsHost, SameStay
<1>4. HostClaimInv'
  <2>0. HostClaimInv /\ \A e \in Expert : SameTransit(e)
    BY ONLY HostInv, \A e \in Expert : SameStay(e) /\ SameTransit(e) DEF HostInv
  <2>1. ASSUME NEW e \in Expert, Leaving(e)' PROVE hostRes'[slotIdx'[e]] = operationId'[e]
    <3>1. Leaving(e) /\ operationId'[e] = operationId[e]
      BY ONLY <2>0, <2>1 DEF SameTransit
    <3>2. owner[e] = "WARM"
      BY ONLY <3>1, IInv, e \in Expert DEF IInv, EntryInv, EntryOK, Leaving
    <3>3. slotIdx'[e] = slotIdx[e]
      BY ONLY <3>2, e \in Expert, \A f \in Expert : SameStay(f) /\ SameTransit(f) DEF SameStay
    <3> QED BY ONLY <1>1, <2>0, <3>1, <3>3, e \in Expert DEF HostClaimInv
  <2>2. ASSUME NEW h \in HSlot, hostRes'[h] # 0, hostSlots'[h] # NoExpert
        PROVE  Leaving(hostSlots[h])'
    <3>1. hostSlots[h] \in Expert /\ Leaving(hostSlots[h])
      BY ONLY <1>1, <2>0, <2>2, IInv, HostTypes DEF HostClaimInv
    <3>2. PICK e \in Expert : e = hostSlots[h]
      BY ONLY <3>1
    <3>3. Leaving(e)'
      BY ONLY <2>0, <3>1, <3>2 DEF SameTransit
    <3> QED BY ONLY <1>1, <3>2, <3>3 DEF Leaving
  <2>3. ASSUME NEW h \in HSlot, hostRes'[h] # 0, hostSlots'[h] = NoExpert
        PROVE  \E v \in Expert : Landing(v)' /\ operationId'[v] = hostRes'[h]
    <3>1. PICK v \in Expert : Landing(v) /\ operationId[v] = hostRes[h]
      BY ONLY <1>1, <2>0, <2>3 DEF HostClaimInv
    <3>2. Landing(v)' /\ operationId'[v] = operationId[v]
      BY ONLY <2>0, <3>1 DEF SameTransit
    <3> QED BY ONLY <1>1, <3>1, <3>2
  <2>4. ASSUME NEW v \in Expert, Landing(v)'
        PROVE  \E h \in HSlot : \A k \in HSlot : Room(operationId[v], k)' <=> k = h
    <3>1. Landing(v) /\ operationId'[v] = operationId[v]
      BY ONLY <2>0, <2>4 DEF SameTransit
    <3>2. PICK h \in HSlot : \A k \in HSlot : Room(operationId[v], k) <=> k = h
      BY ONLY <2>0, <3>1 DEF HostClaimInv
    <3>3. \A k \in HSlot : Room(operationId[v], k)' <=> Room(operationId[v], k)
      BY ONLY <1>1, <3>1 DEF Room
    <3> QED BY ONLY <3>2, <3>3
  <2> QED BY ONLY <2>1, <2>2, <2>3, <2>4 DEF HostClaimInv
<1> QED BY <1>2, <1>3, <1>4 DEF HostInv

-----------------------------------------------------------------------------
(* A new transfer. *)

(* The transfer of g reserves its source if it will leave Warm, and with a
   victim v a room t, which a Warm resident may have to leave: V and T are
   empty or {v} and {t}. *)
LEMMA LaunchHost ==
  ASSUME IInv, HostInv, NEW g \in Expert, operation[g] = "NONE",
         NEW T \in SUBSET HSlot, NEW V \in SUBSET (Expert \ {g}),
         (T = {} /\ V = {}) \/ (\E t, v : T = {t} /\ V = {v}),
         \A t \in T : t < usable /\ hostRes[t] = 0 /\ ~HoldsHost(g, t),
         operationId'[g] = nextOp, Leaving(g)' <=> Promoting(g), ~Landing(g)',
         \A v \in V : operation[v] = "NONE" /\ operationId'[v] = nextOp /\ Landing(v)' /\ ~Leaving(v)',
         \A e \in Expert \ (V \cup {g}) : SameTransit(e),
         \A e \in Expert, h \in HSlot : HoldsHost(e, h)' <=> HoldsHost(e, h) /\ h \notin T,
         \A h \in HSlot : hostSlots'[h] = IF h \in T THEN NoExpert ELSE hostSlots[h],
         \A h \in HSlot : hostRes'[h] = IF h \in T THEN nextOp ELSE SourceHostRes(g)[h],
         ListOver(freeHost', HSlot), Range(freeHost') = Range(freeHost) \ T,
         usable' = usable, demotions' <= QueueCap
  PROVE  HostInv'
<1> DEFINE source == {h \in HSlot : Promoting(g) /\ HoldsHost(g, h)}
<1>1. \A h \in HSlot : hostRes'[h] = IF h \in T \cup source THEN nextOp ELSE hostRes[h]
  <2>1. Promoting(g) => slotIdx[g] \in HSlot
    BY WarmSlot, Zenon DEF Promoting
  <2>2. \A h \in HSlot : SourceHostRes(g)[h] = IF h \in source THEN nextOp ELSE hostRes[h]
    BY ONLY <2>1, IInv, HostTypes DEF SourceHostRes, HoldsHost, Promoting
  <2> QED BY ONLY <2>2, \A h \in HSlot : hostRes'[h] = IF h \in T THEN nextOp ELSE SourceHostRes(g)[h]
<1>2. \A h \in source : /\ hostSlots[h] = g /\ g # NoExpert /\ h \notin T /\ h < usable
                        /\ hostSlots'[h] = g
  <2>1. ASSUME NEW h \in source PROVE hostSlots[h] = g /\ g # NoExpert /\ h \notin T /\ h < usable
    BY <2>1, WarmSlot DEF HoldsHost
  <2> QED BY <2>1, Zenon
<1>3. \A h \in HSlot : hostRes[h] \in Nat /\ hostRes[h] < nextOp
  BY ONLY IInv, HostInv, HostResOld
<1>4. nextOp \in Nat \ {0} /\ usable \in Nat /\ \A h \in HSlot : h \in Nat
  BY ONLY IInv, HostTypes
<1>5. \A e \in V \cup {g} : ~Leaving(e) /\ ~Landing(e)
  BY Zenon DEF Leaving, Landing
<1> HIDE DEF source
<1>6. FreeHostInv'
  <2>0. FreeHostInv
    BY ONLY HostInv DEF HostInv
  <2>1. ASSUME NEW h \in HSlot
        PROVE  /\ h \in Range(freeHost') <=> h < usable' /\ hostSlots'[h] = NoExpert /\ hostRes'[h] = 0
               /\ h >= usable' => hostSlots'[h] = NoExpert /\ hostRes'[h] = 0
    <3>1. CASE h \in T
      <4>1. h < usable /\ usable' = usable /\ h \notin Range(freeHost')
        BY <3>1, Zenon
      <4>2. hostRes'[h] # 0
        BY ONLY <1>1, <1>4, <3>1
      <4> QED BY ONLY <1>4, <4>1, <4>2
    <3>2. CASE h \in source
      <4>1. hostSlots'[h] # NoExpert /\ hostSlots[h] # NoExpert /\ h < usable
        BY ONLY <1>2, <3>2
      <4>2. h \notin Range(freeHost) /\ usable' = usable
        BY ONLY <2>0, <4>1, usable' = usable, h \in HSlot DEF FreeHostInv
      <4>3. h \notin Range(freeHost')
        BY ONLY <4>2, Range(freeHost') = Range(freeHost) \ T
      <4> QED BY ONLY <1>4, <4>1, <4>2, <4>3, h \in HSlot
    <3>3. CASE h \notin T \cup source
      <4>1. /\ hostRes'[h] = hostRes[h] /\ hostSlots'[h] = hostSlots[h] /\ usable' = usable
            /\ h \in Range(freeHost') <=> h \in Range(freeHost)
        BY <1>1, <3>3
      <4> QED BY ONLY <2>0, <4>1, h \in HSlot DEF FreeHostInv
    <3> QED BY ONLY <3>1, <3>2, <3>3
  <2> QED BY ONLY <2>1, ListOver(freeHost', HSlot) DEF FreeHostInv
<1>7. HostHolderInv'
  <2> SUFFICES ASSUME NEW h \in HSlot, NEW e \in Expert PROVE hostSlots'[h] = e <=> HoldsHost(e, h)'
    BY Zenon DEF HostHolderInv
  <2>1. e # NoExpert /\ (hostSlots[h] = e <=> HoldsHost(e, h))
    BY ONLY IInv, HostInv, HostTypes, h \in HSlot, e \in Expert, Zenon DEF HostInv, HostHolderInv
  <2> QED BY <2>1, Zenon
<1>8. HostClaimInv'
  <2>0. HostClaimInv
    BY ONLY HostInv DEF HostInv
  <2>1. ASSUME NEW e \in Expert, Leaving(e)' PROVE hostRes'[slotIdx'[e]] = operationId'[e]
    <3>1. CASE e = g
      <4>1. owner[g] = "WARM" /\ slotIdx[g] \in HSlot
        BY <2>1, <3>1, WarmSlot, Zenon DEF Promoting
      <4>2. HoldsHost(g, slotIdx[g]) /\ slotIdx[g] \in source
        BY <2>1, <3>1, <4>1, Zenon DEF HoldsHost, source
      <4>3. slotIdx'[g] = slotIdx[g]
        <5>1. PICK h \in HSlot : h = slotIdx[g]
          BY <4>1, Zenon
        <5>2. HoldsHost(g, h)'
          BY <1>2, <4>2, <5>1, Zenon
        <5> QED BY ONLY <5>1, <5>2, Zenon DEF HoldsHost
      <4> QED BY <1>1, <3>1, <4>1, <4>2, <4>3, Zenon
    <3>2. CASE e # g
      <4>1. e \notin V
        BY <2>1, Zenon
      <4>2. Leaving(e) /\ operationId'[e] = operationId[e]
        BY <2>1, <3>2, <4>1, Zenon DEF SameTransit
      <4>3. owner[e] = "WARM"
        BY ONLY <4>2, IInv, e \in Expert, Zenon DEF IInv, EntryInv, EntryOK, Leaving
      <4>4. PICK h \in HSlot : h = slotIdx[e] /\ hostSlots[h] = e /\ hostRes[h] # 0
        BY ONLY <4>2, <4>3, IInv, HostInv, e \in Expert, WarmSlot
      <4>5. HoldsHost(e, h)'
        BY <4>3, <4>4 DEF HoldsHost
      <4>6. slotIdx'[e] = h /\ h \notin T \cup source /\ hostRes[h] = operationId[e]
        <5>1. slotIdx'[e] = h
          BY ONLY <4>5 DEF HoldsHost
        <5>2. h \notin T \cup source
          BY <1>2, <3>2, <4>4, Zenon
        <5> QED BY ONLY <2>0, <4>2, <4>4, <5>1, <5>2, e \in Expert, Zenon DEF HostClaimInv
      <4> QED BY ONLY <1>1, <4>2, <4>6, h \in HSlot
    <3> QED BY ONLY <3>1, <3>2
  <2>2. ASSUME NEW h \in HSlot, hostRes'[h] # 0, hostSlots'[h] # NoExpert
        PROVE  Leaving(hostSlots[h])'
    <3>1. h \notin T /\ hostSlots'[h] = hostSlots[h]
      BY <2>2, Zenon
    <3>2. CASE h \in source
      <4>1. Leaving(g)'
        BY <3>2, Zenon DEF source
      <4> QED BY ONLY <1>2, <3>2, <4>1 DEF Leaving
    <3>3. CASE h \notin source
      <4>1. hostRes[h] # 0
        BY ONLY <1>1, <2>2, <3>1, <3>3
      <4>2. PICK e \in Expert : e = hostSlots[h] /\ Leaving(e)
        BY ONLY <2>0, <2>2, <3>1, <4>1, IInv, HostTypes, Zenon DEF HostClaimInv
      <4>3. e \notin V \cup {g}
        BY ONLY <1>5, <4>2
      <4>4. Leaving(e)'
        BY <4>2, <4>3, Zenon DEF SameTransit
      <4> QED BY ONLY <3>1, <4>2, <4>4 DEF Leaving
    <3> QED BY ONLY <3>2, <3>3
  <2>3. ASSUME NEW h \in HSlot, hostRes'[h] # 0, hostSlots'[h] = NoExpert
        PROVE  \E v \in Expert : Landing(v)' /\ operationId'[v] = hostRes'[h]
    <3>1. h \notin source
      BY ONLY <1>2, <2>3
    <3>2. CASE h \in T
      <4>1. PICK v \in V : TRUE
        BY <3>2, Zenon
      <4> QED BY <1>1, <3>2, <4>1, Zenon
    <3>3. CASE h \notin T
      <4>1. hostRes'[h] = hostRes[h] /\ hostSlots[h] = NoExpert
        BY <1>1, <2>3, <3>1, <3>3, Zenon
      <4>2. PICK v \in Expert : Landing(v) /\ operationId[v] = hostRes[h]
        BY ONLY <2>0, <2>3, <4>1, Zenon DEF HostClaimInv
      <4>3. v \notin V \cup {g}
        BY ONLY <1>5, <4>2
      <4>4. Landing(v)' /\ operationId'[v] = operationId[v]
        BY <4>2, <4>3, Zenon DEF SameTransit
      <4> QED BY ONLY <4>1, <4>2, <4>4
    <3> QED BY ONLY <3>2, <3>3, Zenon
  <2>4. ASSUME NEW v \in Expert, Landing(v)'
        PROVE  \E h \in HSlot : \A k \in HSlot : Room(operationId[v], k)' <=> k = h
    <3>1. CASE v \in V
      <4>1. PICK t \in HSlot : T = {t}
        BY <3>1, Zenon
      <4>2. \A k \in HSlot : hostRes'[k] = nextOp /\ hostSlots'[k] = NoExpert <=> k = t
        <5>1. t \in T /\ t \notin source
          BY <1>2, <1>4, <4>1, Zenon
        <5>2. hostRes'[t] = nextOp /\ hostSlots'[t] = NoExpert
          BY <1>1, <1>4, <5>1, Zenon
        <5>3. ASSUME NEW k \in HSlot, hostRes'[k] = nextOp, hostSlots'[k] = NoExpert PROVE k = t
          <6>1. k \notin source
            BY ONLY <1>2, <5>3, Zenon
          <6>2. k \notin T => hostRes'[k] = hostRes[k]
            BY ONLY <1>1, <6>1, k \in HSlot, Zenon
          <6>3. hostRes[k] # nextOp
            BY ONLY <1>3, k \in HSlot
          <6> QED BY ONLY <4>1, <5>3, <6>2, <6>3, Zenon
        <5> QED BY ONLY <5>2, <5>3, Zenon
      <4>3. operationId'[v] = nextOp
        BY <3>1, Zenon
      <4> QED BY ONLY <4>2, <4>3 DEF Room
    <3>2. CASE v \notin V
      <4>1. Landing(v) /\ operationId'[v] = operationId[v]
        BY <2>4, <3>2, Zenon DEF SameTransit
      <4>2. operationId[v] # 0 /\ operationId[v] < nextOp /\ operationId[v] \in Nat
        <5>1. operationId[v] # 0
          BY ONLY <4>1, IInv, v \in Expert, Zenon DEF IInv, EntryInv, EntryOK, Landing
        <5> QED BY ONLY <5>1, IInv, HostTypes, v \in Expert
      <4>3. PICK h \in HSlot : \A k \in HSlot : Room(operationId[v], k) <=> k = h
        BY ONLY <2>0, <4>1, Zenon DEF HostClaimInv
      <4>4. ASSUME NEW k \in HSlot
            PROVE  hostRes'[k] = operationId[v] /\ hostSlots'[k] = NoExpert <=>
                   hostRes[k] = operationId[v] /\ hostSlots[k] = NoExpert
        <5>1. CASE k \in T
          <6>1. hostRes'[k] = nextOp /\ nextOp # operationId[v]
            BY ONLY <1>1, <1>4, <4>2, <5>1
          <6>2. hostRes[k] = 0 \/ hostSlots[k] # NoExpert
            BY <5>1, Zenon
          <6> QED BY ONLY <4>2, <6>1, <6>2, Zenon
        <5>2. CASE k \in source
          BY ONLY <1>2, <5>2
        <5>3. CASE k \notin T \cup source
          BY <1>1, <5>3, Zenon
        <5> QED BY ONLY <5>1, <5>2, <5>3, Zenon
      <4> QED BY ONLY <4>1, <4>3, <4>4 DEF Room
    <3> QED BY ONLY <3>1, <3>2, Zenon
  <2> QED BY ONLY <2>1, <2>2, <2>3, <2>4, Zenon DEF HostClaimInv
<1> QED BY <1>6, <1>7, <1>8 DEF HostInv

(* A transfer with no victim. *)
LEMMA LaunchAloneHost ==
  ASSUME IInv, HostInv, NEW g \in Expert, NEW s \in VSlot \cup {NoSlot}, LaunchAlone(g, s),
         \A e \in Expert : SameStay(e)
  PROVE  HostInv'
<1>1. Launched(g)
  BY LaunchAloneEntry
<1>2. /\ hostRes' = SourceHostRes(g) /\ hostSlots' = hostSlots /\ freeHost' = freeHost
      /\ usable' = usable /\ demotions' = demotions
      /\ warmShadow' = [warmShadow EXCEPT ![g] = Shadowing(g)]
      /\ operation' = [operation EXCEPT ![g] = IF owner[g] = "WARM" THEN "PROMOTION" ELSE "IO"]
  BY ONLY LaunchAlone(g, s), Zenon DEF LaunchAlone, Launch, SourceHostRes
<1>3. operation[g] = "NONE" /\ operationId'[g] = nextOp
  BY ONLY <1>1, Zenon DEF Launched
<1>4. (Leaving(g)' <=> Promoting(g)) /\ ~Landing(g)'
  <2>1. operation \in [Expert -> Operation] /\ warmShadow \in [Expert -> BOOLEAN]
    BY ONLY IInv, Zenon DEF IInv, TypeOK
  <2> QED BY ONLY <1>2, <2>1, g \in Expert, Zenon DEF Leaving, Landing, Promoting, Shadowing
<1>5. \A e \in Expert \ ({} \cup {g}) : SameTransit(e)
  BY ONLY <1>1, Zenon DEF Launched, SameOperation, SameTransit, Leaving, Landing
<1>6. \A e \in Expert, h \in HSlot : HoldsHost(e, h)' <=> HoldsHost(e, h) /\ h \notin {}
  BY ONLY \A e \in Expert : SameStay(e), Zenon DEF SameStay, HoldsHost
<1>7. /\ ListOver(freeHost', HSlot) /\ Range(freeHost') = Range(freeHost) \ {}
      /\ demotions' <= QueueCap
  BY ONLY <1>2, HostInv, Zenon DEF HostInv, FreeHostInv
<1>8. /\ {} \in SUBSET HSlot /\ {} \in SUBSET (Expert \ {g})
      /\ \A h \in HSlot : hostSlots'[h] = IF h \in {} THEN NoExpert ELSE hostSlots[h]
      /\ \A h \in HSlot : hostRes'[h] = IF h \in {} THEN nextOp ELSE SourceHostRes(g)[h]
  BY ONLY <1>2
<1> QED BY ONLY <1>2, <1>3, <1>4, <1>5, <1>6, <1>7, <1>8, IInv, HostInv, g \in Expert, LaunchHost, Zenon

(* The answers of reserve_request that demote nobody. *)
LEMMA ReserveHost ==
  ASSUME IInv, HostInv, NEW g \in Expert,
         ReserveFree(g) \/ ReserveStaged(g) \/ ReserveEvictShadow(g) \/ ReserveEvictHot(g)
  PROVE  HostInv'
<1>0. owner \in [Expert -> Tier] /\ slotIdx \in [Expert -> Nat \cup {NoSlot}]
  BY ONLY IInv, Zenon DEF IInv, TypeOK
<1>1. CASE ReserveFree(g)
  <2>1. Last(freeVram) \in VSlot
    BY <1>1, FrontList, Zenon DEF IInv, VramInv, FreeInv, ReserveFree
  <2>2. LaunchAlone(g, Last(freeVram)) /\ owner' = owner /\ slotIdx' = slotIdx
    BY ONLY <1>1 DEF ReserveFree
  <2> QED BY <2>1, <2>2, LaunchAloneHost, Zenon DEF SameStay
<1>2. CASE ReserveStaged(g)
  <2>1. LaunchAlone(g, NoSlot) /\ owner' = owner /\ slotIdx' = slotIdx
    BY ONLY <1>2 DEF ReserveStaged
  <2> QED BY <2>1, LaunchAloneHost, Zenon DEF SameStay
<1>3. CASE ReserveEvictShadow(g)
  <2>1. PICK v \in ShadowVictim : LaunchAlone(g, shadowSlot[v])
    BY ONLY <1>3 DEF ReserveEvictShadow
  <2>2. v \in Expert
    BY ONLY v \in ShadowVictim, OldestListed DEF ShadowVictim
  <2>3. shadowSlot[v] \in VSlot \cup {NoSlot}
    BY ONLY <2>2, IInv, Zenon DEF IInv, TypeOK
  <2>4. owner' = owner /\ slotIdx' = slotIdx
    BY ONLY <1>3 DEF ReserveEvictShadow
  <2> QED BY <2>1, <2>3, <2>4, LaunchAloneHost, Zenon DEF SameStay
<1>4. CASE ReserveEvictHot(g)
  <2>1. PICK v \in PrefillVictim(g) : /\ LaunchAlone(g, slotIdx[v])
                                      /\ owner' = [owner EXCEPT ![v] = "COLD"]
                                      /\ slotIdx' = [slotIdx EXCEPT ![v] = NoSlot]
    BY ONLY <1>4, Zenon DEF ReserveEvictHot
  <2>2. v \in Expert /\ v \in Range(hotLru)
    BY ONLY v \in PrefillVictim(g), OldestListed DEF PrefillVictim
  <2>3. owner[v] = "HOT" /\ slotIdx[v] \in VSlot
    BY ONLY <2>2, IInv, Zenon DEF IInv, LruInv, EntryInv, EntryOK
  <2>4. \A e \in Expert : SameStay(e)
    BY ONLY <1>0, <2>1, <2>2, <2>3 DEF SameStay
  <2> QED BY <2>1, <2>3, <2>4, LaunchAloneHost
<1> QED BY ONLY <1>1, <1>2, <1>3, <1>4,
     ReserveFree(g) \/ ReserveStaged(g) \/ ReserveEvictShadow(g) \/ ReserveEvictHot(g)

(* What a demotion does to the transfers the host tables record. *)
LEMMA DemoteTransit ==
  ASSUME IInv, NEW g \in Expert, NEW v \in DecodeVictim(g), NEW gpu, Demote(g, v, gpu)
  PROVE  /\ v \in Expert \ {g} /\ operation[g] = "NONE" /\ operation[v] = "NONE"
         /\ operationId'[g] = nextOp /\ operationId'[v] = nextOp
         /\ Leaving(g)' <=> Promoting(g)
         /\ ~Landing(g)' /\ ~Leaving(v)' /\ (Landing(v)' <=> gpu = "D2H")
         /\ \A e \in Expert \ {g, v} : SameTransit(e)
         /\ usable' = usable
<1>1. v \in Expert /\ Demoted(g, v, gpu)
  BY DemoteEntry
<1>2. /\ v # g /\ operation[g] = "NONE" /\ operation[v] = "NONE" /\ ~frozen /\ owner[g] # "HOT"
      /\ operationId'[g] = nextOp /\ operationId'[v] = nextOp /\ ~warmShadow'[g]
      /\ operation'[v] = "DEMOTION" /\ gpuTransfer'[v] = gpu /\ IsIncoming(g)'
      /\ operation'[g] = "PROMOTION" => owner[g] = "WARM"
      /\ operation'[g] = "IO" => owner[g] = "COLD"
      /\ \A e \in Expert \ {g, v} : SameOperation(e)
  BY ONLY <1>1, Zenon DEF Demoted
<1>3. (Leaving(g)' <=> Promoting(g)) /\ ~Landing(g)'
  BY ONLY <1>2, Zenon DEF Leaving, Landing, Promoting, IsIncoming
<1>4. ~Leaving(v)' /\ (Landing(v)' <=> gpu = "D2H")
  BY ONLY <1>2 DEF Leaving, Landing
<1>5. \A e \in Expert \ {g, v} : SameTransit(e)
  BY ONLY <1>2, Zenon DEF SameOperation, SameTransit, Leaving, Landing
<1>6. usable' = usable
  BY ONLY Demote(g, v, gpu), Zenon DEF Demote
<1> QED BY ONLY <1>1, <1>2, <1>3, <1>4, <1>5, <1>6, Zenon

(* A dropped victim takes no host slot. *)
LEMMA ReserveDropVictimHost ==
  ASSUME IInv, HostInv, NEW g \in Expert, ReserveDropVictim(g)
  PROVE  HostInv'
<1>1. PICK v \in DecodeVictim(g) : Demote(g, v, "NONE")
  BY DEF ReserveDropVictim
<1>2. /\ v \in Expert \ {g} /\ operation[g] = "NONE" /\ operation[v] = "NONE"
      /\ operationId'[g] = nextOp /\ (Leaving(g)' <=> Promoting(g))
      /\ ~Landing(g)' /\ ~Leaving(v)' /\ ~Landing(v)'
      /\ \A e \in Expert \ {g, v} : SameTransit(e)
      /\ usable' = usable
  BY <1>1, DemoteTransit, Zenon
<1>3. /\ hostRes' = SourceHostRes(g)
      /\ UNCHANGED <<owner, slotIdx, hostSlots, freeHost, demotions>>
  BY DEF ReserveDropVictim
<1>4. \A e \in Expert \ ({} \cup {g}) : SameTransit(e)
  <2>1. SameTransit(v)
    BY ONLY <1>2, Zenon DEF SameTransit, Leaving, Landing
  <2> QED BY ONLY <1>2, <2>1, Zenon
<1>5. \A e \in Expert, h \in HSlot : HoldsHost(e, h)' <=> HoldsHost(e, h) /\ h \notin {}
  BY ONLY <1>3 DEF HoldsHost
<1>6. /\ ListOver(freeHost', HSlot) /\ Range(freeHost') = Range(freeHost) \ {}
      /\ demotions' <= QueueCap
  BY ONLY <1>3, HostInv, Zenon DEF HostInv, FreeHostInv
<1>7. /\ {} \in SUBSET HSlot /\ {} \in SUBSET (Expert \ {g})
      /\ \A h \in HSlot : hostSlots'[h] = IF h \in {} THEN NoExpert ELSE hostSlots[h]
      /\ \A h \in HSlot : hostRes'[h] = IF h \in {} THEN nextOp ELSE SourceHostRes(g)[h]
  BY ONLY <1>3, Zenon
<1> QED BY ONLY <1>2, <1>4, <1>5, <1>6, <1>7, IInv, HostInv, g \in Expert, LaunchHost, Zenon

(* A demotion that is counted fits the queue. *)
LEMMA QueueRoom ==
  ASSUME IInv, NEW g, ~WarmUnavailable(g), demotions' = demotions + 1
  PROVE  demotions' <= QueueCap
<1>1. demotions \in Nat
  BY ONLY IInv, Zenon DEF IInv, TypeOK
<1>2. ~(demotions >= QueueCap)
  BY ONLY ~WarmUnavailable(g) DEF WarmUnavailable
<1> QED BY ONLY <1>1, <1>2, demotions' = demotions + 1, CapacityAssumption

(* A demotion into a free host slot. *)
LEMMA ReserveDemoteToFreeHost ==
  ASSUME IInv, HostInv, NEW g \in Expert, ReserveDemoteToFree(g)
  PROVE  HostInv'
<1>1. PICK v \in DecodeVictim(g) : Demote(g, v, "D2H")
  BY DEF ReserveDemoteToFree
<1>2. /\ v \in Expert \ {g} /\ operation[g] = "NONE" /\ operation[v] = "NONE"
      /\ operationId'[g] = nextOp /\ operationId'[v] = nextOp
      /\ Leaving(g)' <=> Promoting(g)
      /\ ~Landing(g)' /\ ~Leaving(v)' /\ Landing(v)'
      /\ \A e \in Expert \ {g, v} : SameTransit(e)
      /\ usable' = usable
  BY <1>1, DemoteTransit, Zenon
<1>3. /\ hostRes' = [SourceHostRes(g) EXCEPT ![Last(freeHost)] = nextOp]
      /\ freeHost # <<>> /\ freeHost' = Front(freeHost)
      /\ UNCHANGED <<owner, slotIdx, hostSlots>>
      /\ demotions' = demotions + 1 /\ ~WarmUnavailable(g)
  BY DEF ReserveDemoteToFree
<1>4. PICK t \in HSlot : /\ t = Last(freeHost) /\ t \in Range(freeHost)
                         /\ ListOver(freeHost', HSlot) /\ Range(freeHost') = Range(freeHost) \ {t}
  <2>1. ListOver(freeHost, HSlot)
    BY ONLY HostInv DEF HostInv, FreeHostInv
  <2> QED BY ONLY <1>3, <2>1, FrontList
<1>5. t < usable /\ hostSlots[t] = NoExpert /\ hostRes[t] = 0
  BY ONLY <1>4, HostInv DEF HostInv, FreeHostInv
<1>6. \A e \in Expert : ~HoldsHost(e, t)
  BY ONLY <1>5, HostInv, IInv, HostTypes DEF HostInv, HostHolderInv
<1>7. \A e \in Expert, h \in HSlot : HoldsHost(e, h)' <=> HoldsHost(e, h) /\ h \notin {t}
  BY ONLY <1>3, <1>6, Zenon DEF HoldsHost
<1>8. /\ \A h \in HSlot : hostSlots'[h] = IF h \in {t} THEN NoExpert ELSE hostSlots[h]
      /\ \A h \in HSlot : hostRes'[h] = IF h \in {t} THEN nextOp ELSE SourceHostRes(g)[h]
  <2>1. SourceHostRes(g) \in [HSlot -> Nat]
    BY SourceHostResType DEF IInv
  <2> QED BY ONLY <1>3, <1>4, <1>5, <2>1, Zenon
<1>9. /\ {t} \in SUBSET HSlot /\ {v} \in SUBSET (Expert \ {g})
      /\ \A e \in Expert \ ({v} \cup {g}) : SameTransit(e)
      /\ \A k \in {t} : k < usable /\ hostRes[k] = 0 /\ ~HoldsHost(g, k)
      /\ \A k \in {v} : operation[k] = "NONE" /\ operationId'[k] = nextOp /\ Landing(k)' /\ ~Leaving(k)'
  BY ONLY <1>2, <1>5, <1>6, t \in HSlot, g \in Expert, Zenon
<1>10. demotions' <= QueueCap
  BY ONLY <1>3, IInv, QueueRoom
<1> QED BY ONLY <1>2, <1>4, <1>7, <1>8, <1>9, <1>10, IInv, HostInv, g \in Expert, LaunchHost, Zenon

(* A demotion into the slot of the oldest idle Warm resident. *)
LEMMA ReserveDemoteOverWarmHost ==
  ASSUME IInv, HostInv, NEW g \in Expert, ReserveDemoteOverWarm(g)
  PROVE  HostInv'
<1>1. PICK v \in DecodeVictim(g) : Demote(g, v, "D2H")
  BY DEF ReserveDemoteOverWarm
<1>2. /\ v \in Expert \ {g} /\ operation[g] = "NONE" /\ operation[v] = "NONE"
      /\ operationId'[g] = nextOp /\ operationId'[v] = nextOp
      /\ Leaving(g)' <=> Promoting(g)
      /\ ~Landing(g)' /\ ~Leaving(v)' /\ Landing(v)'
      /\ \A e \in Expert \ {g, v} : SameTransit(e)
      /\ usable' = usable
  BY <1>1, DemoteTransit, Zenon
<1>3. PICK w \in WarmVictim(g) :
        /\ hostRes' = [SourceHostRes(g) EXCEPT ![slotIdx[w]] = nextOp]
        /\ hostSlots' = [hostSlots EXCEPT ![slotIdx[w]] = NoExpert]
        /\ owner' = [owner EXCEPT ![w] = "COLD"]
        /\ slotIdx' = [slotIdx EXCEPT ![w] = NoSlot]
  BY Zenon DEF ReserveDemoteOverWarm
<1>4. /\ demotions' = demotions + 1 /\ ~WarmUnavailable(g)
      /\ freeHost' = freeHost /\ freeHost = <<>>
  BY DEF ReserveDemoteOverWarm
<1>5. w \in Expert /\ w # g /\ operation[w] = "NONE" /\ owner[w] = "WARM"
  BY OldestListed DEF WarmVictim, Unused, IInv, LruInv, WarmLruInv
<1>6. PICK t \in HSlot : t = slotIdx[w] /\ hostSlots[t] = w /\ t < usable /\ hostRes[t] = 0
  <2>1. ~Leaving(w)
    BY ONLY <1>5, Zenon DEF Leaving
  <2> QED BY ONLY <1>5, <2>1, IInv, HostInv, WarmSlot, Zenon
<1>7. \A e \in Expert : HoldsHost(e, t) <=> e = w
  BY ONLY <1>5, <1>6, HostInv DEF HostInv, HostHolderInv
<1>8. \A e \in Expert, h \in HSlot : HoldsHost(e, h)' <=> HoldsHost(e, h) /\ h \notin {t}
  <2>1. owner \in [Expert -> Tier] /\ slotIdx \in [Expert -> Nat \cup {NoSlot}]
    BY ONLY IInv, Zenon DEF IInv, TypeOK
  <2>2. /\ \A e \in Expert : owner'[e] = IF e = w THEN "COLD" ELSE owner[e]
        /\ \A e \in Expert \ {w} : slotIdx'[e] = slotIdx[e]
    BY ONLY <1>3, <1>5, <2>1
  <2> QED BY ONLY <1>6, <1>7, <2>2 DEF HoldsHost
<1>9. /\ \A h \in HSlot : hostSlots'[h] = IF h \in {t} THEN NoExpert ELSE hostSlots[h]
      /\ \A h \in HSlot : hostRes'[h] = IF h \in {t} THEN nextOp ELSE SourceHostRes(g)[h]
  <2>1. SourceHostRes(g) \in [HSlot -> Nat] /\ hostSlots \in [HSlot -> Expert \cup {NoExpert}]
    BY SourceHostResType, Zenon DEF IInv, TypeOK
  <2> QED BY ONLY <1>3, <1>6, <2>1
<1>10. /\ {t} \in SUBSET HSlot /\ {v} \in SUBSET (Expert \ {g})
       /\ \A e \in Expert \ ({v} \cup {g}) : SameTransit(e)
       /\ \A k \in {t} : k < usable /\ hostRes[k] = 0 /\ ~HoldsHost(g, k)
       /\ \A k \in {v} : operation[k] = "NONE" /\ operationId'[k] = nextOp /\ Landing(k)' /\ ~Leaving(k)'
  BY ONLY <1>2, <1>5, <1>6, <1>7, t \in HSlot, g \in Expert, Zenon
<1>11. ListOver(freeHost', HSlot) /\ Range(freeHost') = Range(freeHost) \ {t}
  BY ONLY <1>4, HostInv, EmptyList, Zenon DEF HostInv, FreeHostInv
<1>12. demotions' <= QueueCap
  BY ONLY <1>4, IInv, QueueRoom
<1> QED BY ONLY <1>2, <1>8, <1>9, <1>10, <1>11, <1>12, IInv, HostInv, g \in Expert, LaunchHost, Zenon

-----------------------------------------------------------------------------
(* The end of a transfer. *)

(* A transfer v ends: its host slot h, a room or the source v sat in, is v's or
   nobody's from now on, and its reservation ends. *)
LEMMA TransitEnds ==
  ASSUME IInv, HostInv, NEW v \in Expert, Leaving(v) \/ Landing(v), NEW h \in HSlot,
         hostRes[h] = operationId[v], hostSlots[h] = IF Landing(v) THEN NoExpert ELSE v,
         ~Leaving(v)', ~Landing(v)', operationId' = operationId, usable' = usable,
         \A e \in Expert \ {v} : SameStay(e) /\ SameTransit(e),
         hostRes' = [hostRes EXCEPT ![h] = 0], hostSlots'[h] \in {v, NoExpert},
         \A k \in HSlot : k # h => hostSlots'[k] = hostSlots[k],
         \A k \in HSlot : HoldsHost(v, k)' <=> k = h /\ hostSlots'[h] = v,
         ListOver(freeHost', HSlot),
         \A k \in HSlot : k \in Range(freeHost') <=>
                            k \in Range(freeHost) \/ (k = h /\ hostSlots'[h] = NoExpert),
         demotions' <= QueueCap
  PROVE  HostInv'
<1>1. operationId[v] # 0 /\ hostRes[h] # 0 /\ h < usable
  <2>1. operationId[v] # 0
    BY ONLY Leaving(v) \/ Landing(v), IInv, v \in Expert, Zenon DEF IInv, EntryInv, EntryOK, Leaving, Landing
  <2>2. h < usable
    BY ONLY <2>1, hostRes[h] = operationId[v], HostInv, IInv, HostTypes, h \in HSlot DEF HostInv, FreeHostInv
  <2> QED BY ONLY <2>1, <2>2, hostRes[h] = operationId[v]
<1>2. \A e \in Expert \ {v} : SameTransit(e)
  BY Zenon
<1>3. /\ \A k \in HSlot : hostRes'[k] = IF k = h THEN 0 ELSE hostRes[k]
      /\ usable' = usable /\ usable \in Nat /\ v # NoExpert
      /\ \A k \in HSlot : k \in Nat /\ hostSlots[k] \in Expert \cup {NoExpert}
  <2>1. hostRes \in [HSlot -> Nat]
    BY HostTypes, Zenon
  <2>2. \A k \in HSlot : hostRes'[k] = IF k = h THEN 0 ELSE hostRes[k]
    BY ONLY <2>1, h \in HSlot, hostRes' = [hostRes EXCEPT ![h] = 0]
  <2> QED BY <2>2, HostTypes, Zenon
<1>4. FreeHostInv'
  <2>0. FreeHostInv
    BY ONLY HostInv DEF HostInv
  <2>1. ASSUME NEW k \in HSlot
        PROVE  /\ k \in Range(freeHost') <=> k < usable' /\ hostSlots'[k] = NoExpert /\ hostRes'[k] = 0
               /\ k >= usable' => hostSlots'[k] = NoExpert /\ hostRes'[k] = 0
    <3>1. CASE k = h
      <4>1. h \notin Range(freeHost)
        BY ONLY <1>1, <2>0 DEF FreeHostInv
      <4>2. k \in Range(freeHost') <=> hostSlots'[k] = NoExpert
        BY <3>1, <4>1
      <4>3. k < usable' /\ ~(k >= usable') /\ hostRes'[k] = 0
        BY ONLY <1>1, <1>3, <3>1
      <4> QED BY ONLY <4>2, <4>3
    <3>2. CASE k # h
      <4>1. /\ hostRes'[k] = hostRes[k] /\ hostSlots'[k] = hostSlots[k] /\ usable' = usable
            /\ k \in Range(freeHost') <=> k \in Range(freeHost)
        BY <1>3, <3>2
      <4> QED BY ONLY <2>0, <4>1, k \in HSlot DEF FreeHostInv
    <3> QED BY ONLY <3>1, <3>2
  <2> QED BY ONLY <2>1, ListOver(freeHost', HSlot) DEF FreeHostInv
<1>5. HostHolderInv'
  <2> SUFFICES ASSUME NEW k \in HSlot, NEW e \in Expert PROVE hostSlots'[k] = e <=> HoldsHost(e, k)'
    BY Zenon DEF HostHolderInv
  <2>1. (hostSlots[k] = e <=> HoldsHost(e, k)) /\ e # NoExpert
    BY ONLY IInv, HostInv, HostTypes, k \in HSlot, e \in Expert, Zenon DEF HostInv, HostHolderInv
  <2>2. CASE e = v
    <3>1. k # h => hostSlots[k] # v
      <4>1. CASE Landing(v)
        BY ONLY <2>1, <2>2, <4>1, IInv, v \in Expert, Zenon DEF IInv, EntryInv, EntryOK, Landing, HoldsHost
      <4>2. CASE ~Landing(v)
        <5>1. HoldsHost(v, h)
          BY <4>2, Zenon DEF HostInv, HostHolderInv
        <5> QED BY ONLY <2>1, <2>2, <5>1 DEF HoldsHost
      <4> QED BY ONLY <4>1, <4>2
    <3>2. CASE k = h
      BY <2>1, <2>2, <3>2, Zenon
    <3>3. CASE k # h
      BY <2>2, <3>1, <3>3, Zenon
    <3> QED BY ONLY <3>2, <3>3
  <2>3. CASE e # v
    <3>1. HoldsHost(e, k)' <=> HoldsHost(e, k)
      BY <2>3, Zenon DEF SameStay, HoldsHost
    <3> QED BY <2>1, <2>3, <3>1, Zenon
  <2> QED BY ONLY <2>2, <2>3
<1>6. HostClaimInv'
  <2>0. HostClaimInv /\ operationId' = operationId
    BY Zenon DEF HostInv
  <2>1. ASSUME NEW e \in Expert, Leaving(e)' PROVE hostRes'[slotIdx'[e]] = operationId'[e]
    <3>1. e # v
      BY <2>1, Zenon
    <3>2. Leaving(e)
      BY ONLY <1>2, <2>1, <3>1, Zenon DEF SameTransit
    <3>3. owner[e] = "WARM"
      BY ONLY <3>2, IInv, e \in Expert, Zenon DEF IInv, EntryInv, EntryOK, Leaving
    <3>4. slotIdx[e] \in HSlot /\ hostSlots[slotIdx[e]] = e /\ e # NoExpert
      BY ONLY <3>3, IInv, HostInv, e \in Expert, WarmSlot, Zenon
    <3>5. slotIdx'[e] = slotIdx[e]
      BY <3>1, <3>3, Zenon DEF SameStay
    <3>6. slotIdx[e] # h
      BY <3>1, <3>4, Zenon
    <3> QED BY ONLY <1>3, <2>0, <3>2, <3>4, <3>5, <3>6, e \in Expert, Zenon DEF HostClaimInv
  <2>2. ASSUME NEW k \in HSlot, hostRes'[k] # 0, hostSlots'[k] # NoExpert
        PROVE  Leaving(hostSlots[k])'
    <3>1. k # h /\ hostRes[k] # 0 /\ hostSlots'[k] = hostSlots[k]
      BY <1>3, <2>2, Zenon
    <3>2. PICK e \in Expert : e = hostSlots[k] /\ Leaving(e)
      BY ONLY <1>3, <2>0, <2>2, <3>1, Zenon DEF HostClaimInv
    <3>3. e # v
      <4>1. HoldsHost(e, k)
        BY ONLY <3>2, HostInv, k \in HSlot DEF HostInv, HostHolderInv
      <4>2. CASE Landing(v)
        BY ONLY <3>2, <4>2 DEF Leaving, Landing
      <4>3. CASE ~Landing(v)
        <5>1. HoldsHost(v, h)
          BY <4>3, Zenon DEF HostInv, HostHolderInv
        <5> QED BY ONLY <3>1, <4>1, <5>1 DEF HoldsHost
      <4> QED BY ONLY <4>2, <4>3
    <3>4. Leaving(e)'
      BY ONLY <1>2, <3>2, <3>3, Zenon DEF SameTransit
    <3> QED BY ONLY <3>1, <3>2, <3>4, Zenon DEF Leaving
  <2>3. ASSUME NEW k \in HSlot, hostRes'[k] # 0, hostSlots'[k] = NoExpert
        PROVE  \E f \in Expert : Landing(f)' /\ operationId'[f] = hostRes'[k]
    <3>1. k # h /\ hostRes'[k] = hostRes[k] /\ hostRes[k] # 0 /\ hostSlots[k] = NoExpert
      BY <1>3, <2>3, Zenon
    <3>2. PICK f \in Expert : Landing(f) /\ operationId[f] = hostRes[k]
      BY ONLY <2>0, <3>1, Zenon DEF HostClaimInv
    <3>3. f # v
      <4> SUFFICES ASSUME f = v PROVE FALSE
        BY Zenon
      <4>1. PICK j \in HSlot : \A i \in HSlot : Room(operationId[v], i) <=> i = j
        BY ONLY <2>0, <3>2, f = v, Zenon DEF HostClaimInv
      <4>2. Room(operationId[v], h) /\ Room(operationId[v], k)
        BY <3>1, <3>2, Zenon DEF Room
      <4> QED BY ONLY <3>1, <4>1, <4>2
    <3> QED BY ONLY <1>2, <2>0, <3>1, <3>2, <3>3, Zenon DEF SameTransit
  <2>4. ASSUME NEW f \in Expert, Landing(f)'
        PROVE  \E j \in HSlot : \A k \in HSlot : Room(operationId[f], k)' <=> k = j
    <3>1. f # v /\ Landing(f)
      BY <1>2, <2>4, Zenon DEF SameTransit
    <3>2. Landing(v) => operationId[f] # operationId[v]
      BY ONLY <3>1, IInv, v \in Expert, OneVictim, Zenon DEF Landing
    <3>3. operationId[f] # 0
      BY ONLY <3>1, IInv, f \in Expert, Zenon DEF IInv, EntryInv, EntryOK, Landing
    <3>4. PICK j \in HSlot : \A k \in HSlot : Room(operationId[f], k) <=> k = j
      BY ONLY <2>0, <3>1, Zenon DEF HostClaimInv
    <3>5. ASSUME NEW k \in HSlot
          PROVE  hostRes'[k] = operationId[f] /\ hostSlots'[k] = NoExpert <=>
                 hostRes[k] = operationId[f] /\ hostSlots[k] = NoExpert
      <4>1. CASE k = h
        <5>1. hostRes'[k] # operationId[f]
          BY ONLY <1>3, <3>3, <4>1
        <5>2. hostRes[k] = operationId[f] => hostSlots[k] # NoExpert
          BY ONLY <1>3, <3>2, <4>1, hostRes[h] = operationId[v],
                  hostSlots[h] = IF Landing(v) THEN NoExpert ELSE v
        <5> QED BY ONLY <5>1, <5>2
      <4>2. CASE k # h
        BY <1>3, <4>2, Zenon
      <4> QED BY ONLY <4>1, <4>2, Zenon
    <3> QED BY ONLY <2>0, <3>4, <3>5, Zenon DEF Room
  <2> QED BY ONLY <2>1, <2>2, <2>3, <2>4, Zenon DEF HostClaimInv
<1> QED BY <1>4, <1>5, <1>6, Zenon DEF HostInv

(* The two ends of a demotion. *)
LEMMA EndDemotionHost ==
  ASSUME IInv, HostInv, NEW v \in Expert, CompleteDemotion(v) \/ FailDemotion(v)
  PROVE  HostInv'
<1>0. /\ owner \in [Expert -> Tier] /\ slotIdx \in [Expert -> Nat \cup {NoSlot}]
      /\ hostSlots \in [HSlot -> Expert \cup {NoExpert}] /\ ListOver(freeHost, HSlot)
      /\ v # NoExpert /\ NoSlot \notin HSlot
  <2>1. v # NoExpert /\ NoSlot \notin HSlot
    BY ONLY IInv, v \in Expert, HostTypes, CapacityAssumption DEF HSlot, NoSlot
  <2> QED BY ONLY <2>1, IInv, HostInv, Zenon DEF IInv, TypeOK, HostInv, FreeHostInv
<1>1. Landing(v) /\ ~Leaving(v)' /\ ~Landing(v)' /\ \A e \in Expert \ {v} : SameTransit(e)
  <2>1. operation \in [Expert -> Operation] /\ gpuTransfer \in [Expert -> GpuTransfer]
    BY ONLY IInv, Zenon DEF IInv, TypeOK
  <2>2. /\ operation[v] = "DEMOTION" /\ gpuTransfer[v] = "D2H"
        /\ operation' = [operation EXCEPT ![v] = "NONE"]
        /\ gpuTransfer' = [gpuTransfer EXCEPT ![v] = "NONE"]
        /\ UNCHANGED <<operationId, warmShadow>>
    BY ONLY CompleteDemotion(v) \/ FailDemotion(v), Zenon DEF CompleteDemotion, FailDemotion
  <2>3. /\ operation'[v] = "NONE"
        /\ \A e \in Expert \ {v} : operation'[e] = operation[e] /\ gpuTransfer'[e] = gpuTransfer[e]
    BY ONLY <2>1, <2>2, v \in Expert
  <2> QED BY ONLY <2>2, <2>3, Zenon DEF SameTransit, Leaving, Landing
<1>11. operationId' = operationId /\ usable' = usable /\ demotions' <= QueueCap
  <2>1. operationId' = operationId /\ usable' = usable /\ demotions' = demotions - 1
    BY ONLY CompleteDemotion(v) \/ FailDemotion(v), Zenon DEF CompleteDemotion, FailDemotion
  <2>2. demotions \in Nat /\ demotions <= QueueCap
    BY ONLY IInv, HostInv, HostTypes DEF HostInv
  <2> QED BY ONLY <2>1, <2>2, CapacityAssumption
<1>2. CASE CompleteDemotion(v)
  <2>1. PICK h \in ReservedHost(operationId[v]) :
          /\ hostSlots' = [hostSlots EXCEPT ![h] = v]
          /\ hostRes' = [hostRes EXCEPT ![h] = 0]
          /\ slotIdx' = [slotIdx EXCEPT ![v] = h]
    BY ONLY <1>2, Zenon DEF CompleteDemotion
  <2>2. owner' = [owner EXCEPT ![v] = "WARM"] /\ freeHost' = freeHost
    BY ONLY <1>2, Zenon DEF CompleteDemotion
  <2>3. h \in HSlot /\ hostSlots[h] = NoExpert /\ hostRes[h] = operationId[v]
    BY ONLY <1>1, IInv, HostInv, v \in Expert, RoomOf
  <2>4. /\ hostSlots'[h] = v /\ \A k \in HSlot : k # h => hostSlots'[k] = hostSlots[k]
        /\ \A k \in HSlot : HoldsHost(v, k)' <=> k = h /\ hostSlots'[h] = v
        /\ \A e \in Expert \ {v} : SameStay(e)
    BY ONLY <1>0, <2>1, <2>2, <2>3, v \in Expert, Zenon DEF HoldsHost, SameStay
  <2> QED BY ONLY <1>0, <1>1, <1>11, <2>1, <2>2, <2>3, <2>4, IInv, HostInv, v \in Expert, TransitEnds, Zenon
<1>3. CASE FailDemotion(v)
  <2>1. PICK h \in ReservedHost(operationId[v]) :
          /\ hostSlots' = [hostSlots EXCEPT ![h] = NoExpert]
          /\ hostRes' = [hostRes EXCEPT ![h] = 0]
          /\ freeHost' = Append(freeHost, h)
    BY ONLY <1>3, Zenon DEF FailDemotion
  <2>2. owner' = [owner EXCEPT ![v] = "COLD"] /\ slotIdx' = [slotIdx EXCEPT ![v] = NoSlot]
    BY ONLY <1>3, Zenon DEF FailDemotion
  <2>3. /\ h \in HSlot /\ hostSlots[h] = NoExpert /\ hostRes[h] = operationId[v]
        /\ hostRes[h] # 0
    BY ONLY <1>1, IInv, HostInv, v \in Expert, RoomOf, Zenon
  <2>4. /\ hostSlots'[h] = NoExpert /\ \A k \in HSlot : k # h => hostSlots'[k] = hostSlots[k]
        /\ \A k \in HSlot : HoldsHost(v, k)' <=> k = h /\ hostSlots'[h] = v
        /\ \A e \in Expert \ {v} : SameStay(e)
    BY ONLY <1>0, <2>1, <2>2, <2>3, v \in Expert, Zenon DEF HoldsHost, SameStay
  <2>5. ListOver(freeHost', HSlot) /\ Range(freeHost') = Range(freeHost) \cup {h}
    <3>1. h \notin Range(freeHost)
      BY ONLY <2>3, HostInv DEF HostInv, FreeHostInv
    <3>2. ListOver(freeHost, HSlot)
      BY ONLY HostInv, Zenon DEF HostInv, FreeHostInv
    <3>3. /\ ListOver(Append(freeHost, h), HSlot)
          /\ Range(Append(freeHost, h)) = Range(freeHost) \cup {h}
      BY ONLY <2>3, <3>1, <3>2, AppendList
    <3> QED BY ONLY <2>1, <3>3, Zenon
  <2>6. \A k \in HSlot : k \in Range(freeHost') <=> k \in Range(freeHost) \/ (k = h /\ hostSlots'[h] = NoExpert)
    BY ONLY <2>4, <2>5, Zenon
  <2> QED BY ONLY <1>1, <1>11, <2>1, <2>3, <2>4, <2>5, <2>6, IInv, HostInv, v \in Expert, TransitEnds, Zenon
<1> QED BY ONLY <1>2, <1>3, CompleteDemotion(v) \/ FailDemotion(v)

(* What the end of a request does to the transfers: its own expert and its
   dropped victim have none any more. *)
LEMMA RetireTransit ==
  ASSUME IInv, NEW g \in Expert, IsIncoming(g), Settled(g), ClearOperations(g),
         UNCHANGED <<operationId, warmShadow>>
  PROVE  /\ ~Leaving(g)' /\ ~Landing(g)' /\ ~Landing(g)
         /\ \A e \in Expert \ {g} : SameTransit(e)
<1>1. \A e \in Expert : /\ operation'[e] = IF e \in Retired(g) THEN "NONE" ELSE operation[e]
                        /\ gpuTransfer'[e] = IF e \in Retired(g) THEN "NONE" ELSE gpuTransfer[e]
  BY ONLY ClearOperations(g), Zenon DEF ClearOperations
<1>2. g \in Retired(g) /\ ~Landing(g)
  BY ONLY IsIncoming(g) DEF Retired, IsIncoming, Landing
<1>3. ASSUME NEW e \in Expert \ {g} PROVE SameTransit(e)
  <2>1. CASE e \in Retired(g)
    <3>1. operation[e] = "DEMOTION" /\ gpuTransfer[e] # "D2H" /\ operation'[e] = "NONE"
      BY ONLY <1>1, <2>1, e \in Expert \ {g}, Settled(g), Zenon DEF Retired, Victims, Settled
    <3> QED BY ONLY <3>1, Zenon DEF SameTransit, Leaving, Landing
  <2>2. CASE e \notin Retired(g)
    <3>1. operationId' = operationId /\ warmShadow' = warmShadow
      OBVIOUS
    <3> QED BY ONLY <1>1, <2>2, <3>1, e \in Expert \ {g}, Zenon DEF SameTransit, Leaving, Landing
  <2> QED BY ONLY <2>1, <2>2
<1>4. ~Leaving(g)' /\ ~Landing(g)'
  BY ONLY <1>1, <1>2, g \in Expert, Zenon DEF Leaving, Landing
<1> QED BY ONLY <1>2, <1>3, <1>4

(* The source of a promotion that completes is free again. *)
LEMMA CompleteRequestHost ==
  ASSUME IInv, HostInv, NEW g \in Expert, CompleteRequest(g)
  PROVE  HostInv'
<1>1. /\ IsIncoming(g) /\ ~warmShadow[g] /\ Settled(g) /\ ClearOperations(g)
      /\ UNCHANGED <<operationId, warmShadow, usable, demotions>>
  BY ONLY CompleteRequest(g), Zenon DEF CompleteRequest
<1>2. /\ ~Leaving(g)' /\ ~Landing(g)' /\ ~Landing(g)
      /\ \A e \in Expert \ {g} : SameTransit(e)
  BY ONLY <1>1, IInv, g \in Expert, RetireTransit
<1>3. owner'[g] = "HOT" /\ \A e \in Expert \ {g} : SameStay(e)
  <2>1. /\ owner' = [e \in Expert |-> IF e = g THEN "HOT"
                       ELSE IF e \in Victims(operationId[g]) THEN "COLD" ELSE owner[e]]
        /\ \A e \in Expert \ {g} : e \notin Victims(operationId[g]) => slotIdx'[e] = slotIdx[e]
    BY ONLY CompleteRequest(g), Zenon DEF CompleteRequest
  <2>2. \A e \in Victims(operationId[g]) : owner[e] = "HOT"
    BY ONLY IInv, Zenon DEF IInv, EntryInv, EntryOK, Victims
  <2>3. \A e \in Expert \ {g} :
          owner'[e] = IF e \in Victims(operationId[g]) THEN "COLD" ELSE owner[e]
    BY ONLY <2>1, Zenon
  <2> QED BY ONLY <2>1, <2>2, <2>3, g \in Expert, Zenon DEF SameStay
<1>4. demotions' <= QueueCap
  BY ONLY <1>1, HostInv DEF HostInv
<1>5. CASE owner[g] = "WARM"
  <2>1. Leaving(g)
    BY ONLY <1>1, <1>5, IInv, g \in Expert, Zenon DEF IInv, EntryInv, EntryOK, IsIncoming, Leaving
  <2>2. PICK h \in HSlot : /\ h = slotIdx[g] /\ hostSlots[h] = g /\ hostRes[h] = operationId[g]
                           /\ hostRes[h] # 0
    BY ONLY <1>5, <2>1, IInv, HostInv, g \in Expert, WarmSlot, Zenon
  <2>3. /\ hostSlots' = [hostSlots EXCEPT ![h] = NoExpert]
        /\ hostRes' = [hostRes EXCEPT ![h] = 0]
        /\ freeHost' = Append(freeHost, h)
    BY ONLY <1>5, <2>2, CompleteRequest(g), Zenon DEF CompleteRequest
  <2>4. hostSlots'[h] = NoExpert /\ \A k \in HSlot : k # h => hostSlots'[k] = hostSlots[k]
    BY ONLY <2>3, IInv, HostTypes, h \in HSlot, Zenon
  <2>5. \A k \in HSlot : HoldsHost(g, k)' <=> k = h /\ hostSlots'[h] = g
    BY ONLY <1>3, <2>4, IInv, HostTypes, g \in Expert, Zenon DEF HoldsHost
  <2>6. ListOver(freeHost', HSlot) /\ Range(freeHost') = Range(freeHost) \cup {h}
    <3>1. h \notin Range(freeHost) /\ ListOver(freeHost, HSlot)
      BY ONLY <2>2, HostInv, Zenon DEF HostInv, FreeHostInv
    <3> QED BY ONLY <2>3, <3>1, h \in HSlot, AppendList
  <2>7. \A k \in HSlot : k \in Range(freeHost') <=>
                         k \in Range(freeHost) \/ (k = h /\ hostSlots'[h] = NoExpert)
    BY ONLY <2>4, <2>6, Zenon
  <2>8. /\ operationId' = operationId /\ usable' = usable
        /\ \A e \in Expert \ {g} : SameStay(e) /\ SameTransit(e)
    BY ONLY <1>1, <1>2, <1>3, Zenon
  <2> QED BY ONLY <1>2, <1>4, <2>1, <2>2, <2>3, <2>4, <2>5, <2>6, <2>7, <2>8, IInv, HostInv,
          g \in Expert, TransitEnds, Zenon
<1>6. CASE owner[g] # "WARM"
  <2>1. UNCHANGED hostVars
    BY ONLY <1>1, <1>6, CompleteRequest(g), Zenon DEF CompleteRequest, hostVars
  <2>2. ~Leaving(g)
    BY ONLY <1>6, IInv, g \in Expert, Zenon DEF IInv, EntryInv, EntryOK, Leaving
  <2>3. SameStay(g) /\ SameTransit(g)
    BY ONLY <1>2, <1>3, <1>6, <2>2, Zenon DEF SameStay, SameTransit
  <2>4. \A e \in Expert : SameStay(e) /\ SameTransit(e)
    BY ONLY <1>2, <1>3, <2>3
  <2>5. demotions' = demotions
    BY ONLY <1>1
  <2> QED BY ONLY <2>1, <2>4, <2>5, IInv, HostInv, HostFrame
<1> QED BY ONLY <1>5, <1>6

(* The source of a promotion that fails stays Warm, unreserved. *)
LEMMA FailRequestHost ==
  ASSUME IInv, HostInv, NEW g \in Expert, FailRequest(g) \/ FailRequestWithVictim(g)
  PROVE  HostInv'
<1>1. FailIncoming(g)
  BY Zenon DEF FailRequest, FailRequestWithVictim
<1>2. /\ IsIncoming(g) /\ ~warmShadow[g] /\ Settled(g) /\ ClearOperations(g)
      /\ UNCHANGED <<operationId, warmShadow, usable, demotions, hostSlots, freeHost>>
  BY ONLY <1>1, Zenon DEF FailIncoming
<1>3. /\ ~Leaving(g)' /\ ~Landing(g)' /\ ~Landing(g)
      /\ \A e \in Expert \ {g} : SameTransit(e)
  BY ONLY <1>2, IInv, g \in Expert, RetireTransit, Zenon
<1>4. \A e \in Expert : SameStay(e)
  <2>1. CASE FailRequest(g)
    BY ONLY <2>1, Zenon DEF FailRequest, SameStay
  <2>2. CASE FailRequestWithVictim(g)
    <3>1. PICK v \in Victims(operationId[g]) : /\ owner' = [owner EXCEPT ![v] = "COLD"]
                                               /\ slotIdx' = [slotIdx EXCEPT ![v] = NoSlot]
      BY ONLY <2>2, Zenon DEF FailRequestWithVictim
    <3>2. owner[v] = "HOT" /\ v \in Expert
      BY ONLY IInv, v \in Victims(operationId[g]), Zenon DEF IInv, EntryInv, EntryOK, Victims
    <3>3. owner \in [Expert -> Tier] /\ slotIdx \in [Expert -> Nat \cup {NoSlot}]
      BY ONLY IInv, Zenon DEF IInv, TypeOK
    <3> QED BY ONLY <3>1, <3>2, <3>3 DEF SameStay
  <2> QED BY ONLY <2>1, <2>2, FailRequest(g) \/ FailRequestWithVictim(g)
<1>5. CASE owner[g] = "WARM"
  <2>1. Leaving(g)
    BY ONLY <1>2, <1>5, IInv, g \in Expert, Zenon DEF IInv, EntryInv, EntryOK, IsIncoming, Leaving
  <2>2. PICK h \in HSlot : /\ h = slotIdx[g] /\ hostSlots[h] = g /\ hostRes[h] = operationId[g]
                           /\ g # NoExpert
    BY ONLY <1>5, <2>1, IInv, HostInv, g \in Expert, WarmSlot, Zenon
  <2>3. hostRes' = [hostRes EXCEPT ![h] = 0]
    BY ONLY <1>1, <1>5, <2>2, Zenon DEF FailIncoming
  <2>4. /\ hostSlots'[h] = g /\ \A k \in HSlot : k # h => hostSlots'[k] = hostSlots[k]
        /\ \A k \in HSlot : k \in Range(freeHost') <=>
                            k \in Range(freeHost) \/ (k = h /\ hostSlots'[h] = NoExpert)
    BY ONLY <1>2, <2>2, Zenon
  <2>5. \A k \in HSlot : HoldsHost(g, k)' <=> k = h /\ hostSlots'[h] = g
    BY ONLY <1>4, <1>5, <2>2, <2>4, g \in Expert, Zenon DEF HoldsHost, SameStay
  <2>6. ListOver(freeHost', HSlot) /\ demotions' <= QueueCap
    BY ONLY <1>2, HostInv DEF HostInv, FreeHostInv
  <2>7. /\ operationId' = operationId /\ usable' = usable
        /\ \A e \in Expert \ {g} : SameStay(e) /\ SameTransit(e)
    BY ONLY <1>2, <1>3, <1>4
  <2> QED BY ONLY <1>3, <2>1, <2>2, <2>3, <2>4, <2>5, <2>6, <2>7, IInv, HostInv, g \in Expert,
          TransitEnds, Zenon
<1>6. CASE owner[g] # "WARM"
  <2>1. UNCHANGED hostVars /\ demotions' = demotions
    BY ONLY <1>1, <1>6, Zenon DEF FailIncoming, hostVars
  <2>2. ~Leaving(g)
    BY ONLY <1>6, IInv, g \in Expert, Zenon DEF IInv, EntryInv, EntryOK, Leaving
  <2>3. SameTransit(g)
    BY ONLY <1>3, <2>2, Zenon DEF SameTransit
  <2>4. \A e \in Expert : SameStay(e) /\ SameTransit(e)
    BY ONLY <1>3, <1>4, <2>3
  <2> QED BY ONLY <2>1, <2>4, IInv, HostInv, HostFrame
<1> QED BY ONLY <1>5, <1>6

-----------------------------------------------------------------------------
(* The calls that leave Warm alone, and the moves of its boundary. *)

(* A call that changes no entry. *)
LEMMA EntriesHost ==
  ASSUME IInv, HostInv,
         UNCHANGED <<owner, slotIdx, operation, operationId, gpuTransfer, warmShadow, hostVars,
                     demotions>>
  PROVE  HostInv'
<1>1. \A e \in Expert : SameStay(e) /\ SameTransit(e)
  BY ONLY UNCHANGED <<owner, slotIdx, operation, operationId, gpuTransfer, warmShadow, hostVars,
                      demotions>>, Zenon
     DEF SameStay, SameTransit, Leaving, Landing
<1> QED BY ONLY <1>1, IInv, HostInv, HostFrame,
           UNCHANGED <<owner, slotIdx, operation, operationId, gpuTransfer, warmShadow, hostVars,
                       demotions>>

(* The answers without a transfer, the end of a lease, a late destination. *)
LEMMA JoinHost ==
  ASSUME IInv, HostInv, NEW g \in Expert,
         \/ JoinPending(g) \/ HotHit(g) \/ ShadowHit(g) \/ ReleaseLease(g) \/ AttachDestination(g)
  PROVE  HostInv'
<1>1. UNCHANGED <<owner, slotIdx, operation, operationId, gpuTransfer, warmShadow, hostVars, demotions>>
  BY ONLY \/ JoinPending(g) \/ HotHit(g) \/ ShadowHit(g) \/ ReleaseLease(g) \/ AttachDestination(g), Zenon
     DEF JoinPending, HotHit, ShadowHit, ReleaseLease, AttachDestination
<1> QED BY ONLY <1>1, IInv, HostInv, EntriesHost

(* The phase switches that change no entry. *)
LEMMA PhaseHost ==
  ASSUME IInv, HostInv, EndPrefillStream \/ FreezeWarm \/ ThawWarm \/ UNCHANGED vars
  PROVE  HostInv'
<1>1. UNCHANGED <<owner, slotIdx, operation, operationId, gpuTransfer, warmShadow, hostVars, demotions>>
  BY ONLY EndPrefillStream \/ FreezeWarm \/ ThawWarm \/ UNCHANGED vars, Zenon
     DEF EndPrefillStream, FreezeWarm, ThawWarm, vars, entryVars
<1> QED BY ONLY <1>1, IInv, HostInv, EntriesHost

(* A shadow copy never had its source reserved. *)
LEMMA ShadowHost ==
  ASSUME IInv, HostInv, NEW g \in Expert, CompleteShadow(g) \/ FailShadow(g)
  PROVE  HostInv'
<1>1. /\ IsIncoming(g) /\ warmShadow[g] /\ operation' = [operation EXCEPT ![g] = "NONE"]
      /\ operationId' = [operationId EXCEPT ![g] = 0]
      /\ gpuTransfer' = [gpuTransfer EXCEPT ![g] = "NONE"]
      /\ warmShadow' = [warmShadow EXCEPT ![g] = FALSE]
      /\ UNCHANGED hostVars /\ demotions' = demotions /\ owner' = owner /\ slotIdx' = slotIdx
  BY ONLY CompleteShadow(g) \/ FailShadow(g), Zenon DEF CompleteShadow, FailShadow
<1>2. /\ operation \in [Expert -> Operation] /\ operationId \in [Expert -> Nat]
      /\ gpuTransfer \in [Expert -> GpuTransfer] /\ warmShadow \in [Expert -> BOOLEAN]
  BY ONLY IInv, Zenon DEF IInv, TypeOK
<1>3. SameTransit(g)
  BY ONLY <1>1, <1>2, g \in Expert, Zenon DEF SameTransit, Leaving, Landing, IsIncoming
<1>4. \A e \in Expert \ {g} : SameTransit(e)
  BY ONLY <1>1, <1>2, Zenon DEF SameTransit, Leaving, Landing
<1>5. \A e \in Expert : SameStay(e) /\ SameTransit(e)
  BY ONLY <1>1, <1>3, <1>4, Zenon DEF SameStay
<1> QED BY ONLY <1>1, <1>5, IInv, HostInv, HostFrame

(* A prefill stream begins while nothing is in flight; what it drains is Hot. *)
LEMMA BeginPrefillHost ==
  ASSUME IInv, HostInv, NEW k \in Nat, NEW p \in Alloc, BeginPrefillStream(k, p)
  PROVE  HostInv'
<1> DEFINE n == Len(hotLru)
           m == IF k < n THEN k ELSE n
           drained == {hotLru[i] : i \in n - m + 1 .. n}
<1>1. /\ Quiet(Expert) /\ operation' = operation /\ UNCHANGED hostVars /\ demotions' = demotions
      /\ owner' = [e \in Expert |-> IF e \in drained THEN "COLD" ELSE owner[e]]
      /\ slotIdx' = [e \in Expert |-> IF e \in drained THEN NoSlot ELSE slotIdx[e]]
  BY Zenon DEF BeginPrefillStream
<1>2. \A e \in drained : owner[e] = "HOT"
  <2>1. ListOver(hotLru, Expert) /\ \A e \in Expert : e \in Range(hotLru) => owner[e] = "HOT"
    BY ONLY IInv, Zenon DEF IInv, LruInv
  <2>2. n \in Nat /\ DOMAIN hotLru = 1 .. n /\ \A i \in 1 .. n : hotLru[i] \in Expert
    BY ONLY <2>1 DEF ListOver
  <2>3. \A i \in n - m + 1 .. n : i \in 1 .. n
    BY ONLY <2>2, k \in Nat
  <2>4. \A i \in 1 .. n : hotLru[i] \in Range(hotLru)
    BY ONLY <2>2 DEF Range
  <2> QED BY ONLY <2>1, <2>2, <2>3, <2>4
<1> HIDE DEF drained
<1>3. \A e \in Expert : SameStay(e)
  BY ONLY <1>1, <1>2, Zenon DEF SameStay
<1>4. \A e \in Expert : SameTransit(e)
  BY ONLY <1>1, Zenon DEF SameTransit, Leaving, Landing, Quiet
<1> QED BY ONLY <1>1, <1>3, <1>4, IInv, HostInv, HostFrame, Zenon

(* What a computed layer gives back is Hot or a shadow. *)
LEMMA ReleaseLayerHost ==
  ASSUME IInv, HostInv, NEW l \in Layer, ReleaseLayer(l)
  PROVE  HostInv'
<1> DEFINE hot == {e \in {x \in Expert : LayerOf[x] = l} : owner[e] = "HOT" /\ ~marked[e]}
<1>1. /\ owner' = [e \in Expert |-> IF e \in hot THEN "COLD" ELSE owner[e]]
      /\ slotIdx' = [e \in Expert |-> IF e \in hot THEN NoSlot ELSE slotIdx[e]]
      /\ UNCHANGED <<operation, operationId, gpuTransfer, warmShadow, hostVars, demotions>>
  BY ONLY ReleaseLayer(l), Zenon DEF ReleaseLayer
<1>2. \A e \in hot : owner[e] = "HOT"
  OBVIOUS
<1> HIDE DEF hot
<1>3. \A e \in Expert : SameStay(e)
  BY ONLY <1>1, <1>2, Zenon DEF SameStay
<1>4. \A e \in Expert : SameTransit(e)
  BY ONLY <1>1, Zenon DEF SameTransit, Leaving, Landing
<1> QED BY ONLY <1>1, <1>3, <1>4, IInv, HostInv, HostFrame, Zenon

(* The slots between the old and the new boundary join the free list. *)
LEMMA GrowHostHost ==
  ASSUME IInv, HostInv, NEW u \in 0 .. HostCap, GrowHost(u)
  PROVE  HostInv'
<1> DEFINE f == [i \in 1 .. u - usable |-> usable + i - 1]
<1>1. /\ usable < u /\ usable' = u /\ freeHost' = Joined(freeHost, f)
      /\ UNCHANGED <<owner, slotIdx, operation, operationId, gpuTransfer, warmShadow, hostSlots,
                     hostRes, demotions>>
  BY ONLY GrowHost(u), Zenon DEF GrowHost, entryVars, Joined
<1>2. usable \in Nat /\ u \in Nat /\ u <= HostCap /\ HostCap \in Nat
  BY ONLY IInv, HostTypes, CapacityAssumption, u \in 0 .. HostCap
<1>3. ListOver(f, HSlot) /\ \A h \in HSlot : h \in Range(f) <=> usable <= h /\ h < u
  <2>1. u - usable \in Nat /\ f \in [1 .. u - usable -> HSlot]
    BY ONLY <1>1, <1>2 DEF HSlot
  <2>2. \A i, j \in 1 .. u - usable : f[i] = f[j] => i = j
    BY ONLY <1>1, <1>2
  <2>3. \A h \in HSlot : usable <= h /\ h < u => h - usable + 1 \in 1 .. u - usable
                                                  /\ f[h - usable + 1] = h
    BY ONLY <1>1, <1>2 DEF HSlot
  <2>4. \A i \in 1 .. u - usable : usable <= f[i] /\ f[i] < u
    BY ONLY <1>1, <1>2
  <2> HIDE DEF f
  <2>5. ListOver(f, HSlot) /\ Range(f) = {f[i] : i \in 1 .. u - usable}
    <3> DEFINE n == u - usable
    <3>1. n \in Nat /\ f \in [1 .. n -> HSlot] /\ \A i, j \in 1 .. n : f[i] = f[j] => i = j
      BY ONLY <2>1, <2>2
    <3> HIDE DEF n
    <3>2. ListOver(f, HSlot) /\ Range(f) = {f[i] : i \in 1 .. n}
      BY ONLY <3>1, FunctionList
    <3> QED BY ONLY <3>2 DEF n
  <2>6. ASSUME NEW h \in HSlot, usable <= h, h < u PROVE h \in Range(f)
    <3>1. h - usable + 1 \in 1 .. u - usable /\ f[h - usable + 1] = h
      BY ONLY <2>3, <2>6
    <3> QED BY ONLY <2>5, <3>1
  <2>7. ASSUME NEW h \in HSlot, h \in Range(f) PROVE usable <= h /\ h < u
    BY ONLY <2>4, <2>5, <2>7
  <2> QED BY ONLY <2>5, <2>6, <2>7, Zenon
<1> HIDE DEF f
<1>4. /\ ListOver(freeHost, HSlot)
      /\ \A h \in HSlot :
           h \in Range(freeHost) <=> h < usable /\ hostSlots[h] = NoExpert /\ hostRes[h] = 0
      /\ \A h \in HSlot : h >= usable => hostSlots[h] = NoExpert /\ hostRes[h] = 0
  BY ONLY HostInv DEF HostInv, FreeHostInv
<1>5. Range(freeHost) \cap Range(f) = {}
  <2>1. \A h \in Range(freeHost) : h \in HSlot
    BY ONLY <1>4, ListElements
  <2>2. \A h \in HSlot : ~(h < usable /\ usable <= h)
    BY ONLY <1>2 DEF HSlot
  <2> QED BY ONLY <1>3, <1>4, <2>1, <2>2
<1>6. ListOver(freeHost', HSlot) /\ Range(freeHost') = Range(freeHost) \cup Range(f)
  BY ONLY <1>1, <1>3, <1>4, <1>5, ConcatList
<1>7. FreeHostInv'
  <2>1. ASSUME NEW h \in HSlot
        PROVE  /\ h \in Range(freeHost') <=> h < u /\ hostSlots[h] = NoExpert /\ hostRes[h] = 0
               /\ h >= u => hostSlots[h] = NoExpert /\ hostRes[h] = 0
    <3>1. h < u <=> (h < usable \/ (usable <= h /\ h < u))
      BY ONLY <1>1, <1>2, h \in HSlot, CapacityAssumption DEF HSlot
    <3>2. h >= u => h >= usable
      BY ONLY <1>1, <1>2, h \in HSlot, CapacityAssumption DEF HSlot
    <3>3. usable <= h <=> h >= usable
      BY ONLY <1>2, h \in HSlot, CapacityAssumption DEF HSlot
    <3>4. h \in Range(freeHost') <=> h \in Range(freeHost) \/ (usable <= h /\ h < u)
      BY ONLY <1>3, <1>6, h \in HSlot
    <3>5. /\ h \in Range(freeHost) <=> h < usable /\ hostSlots[h] = NoExpert /\ hostRes[h] = 0
          /\ h >= usable => hostSlots[h] = NoExpert /\ hostRes[h] = 0
      BY ONLY <1>4, h \in HSlot
    <3> QED BY ONLY <3>1, <3>2, <3>3, <3>4, <3>5, Zenon
  <2> QED BY ONLY <1>1, <1>6, <2>1 DEF FreeHostInv
<1>8. HostHolderInv' /\ HostClaimInv' /\ demotions' <= QueueCap
  <2>1. HostHolderInv /\ HostClaimInv /\ demotions <= QueueCap
    BY ONLY HostInv, Zenon DEF HostInv
  <2>2. HostHolderInv'
    BY ONLY <1>1, <2>1, Zenon DEF HostHolderInv, HoldsHost
  <2>3. HostClaimInv'
    BY ONLY <1>1, <2>1, Zenon DEF HostClaimInv, Leaving, Landing, Room
  <2> QED BY ONLY <1>1, <2>1, <2>2, <2>3
<1> QED BY ONLY <1>7, <1>8 DEF HostInv

(* Shrinking Warm drops what sits above the new boundary, where nothing is
   reserved, and lists the empty slots below it again. *)
LEMMA ShrinkHostHost ==
  ASSUME IInv, HostInv, NEW u \in 0 .. HostCap, ShrinkHost(u)
  PROVE  HostInv'
<1> DEFINE gone == {e \in Expert : owner[e] = "WARM" /\ slotIdx[e] >= u}
           room == {h \in HSlot : h < u /\ hostSlots[h] = NoExpert /\ hostRes[h] = 0}
<1>1. /\ u < usable /\ Quiet(gone) /\ \A h \in u .. usable - 1 : hostRes[h] = 0
      /\ owner' = [e \in Expert |-> IF e \in gone THEN "COLD" ELSE owner[e]]
      /\ slotIdx' = [e \in Expert |-> IF e \in gone THEN NoSlot ELSE slotIdx[e]]
      /\ hostSlots' = [h \in HSlot |-> IF h >= u THEN NoExpert ELSE hostSlots[h]]
      /\ usable' = u
      /\ \E q \in Ascending(room) : freeHost' = Reverse(q)
      /\ UNCHANGED <<operation, operationId, gpuTransfer, warmShadow, hostRes, demotions>>
  BY ONLY ShrinkHost(u), Zenon DEF ShrinkHost
<1>2. usable \in Nat /\ u \in Nat /\ HostCap \in Nat
  BY ONLY IInv, HostTypes, CapacityAssumption, u \in 0 .. HostCap
<1>3. \A h \in HSlot : h \in Nat /\ (h >= u => hostRes[h] = 0 /\ ~(h < u))
  <2>1. \A h \in HSlot : h >= usable => hostRes[h] = 0
    BY ONLY HostInv DEF HostInv, FreeHostInv
  <2>2. \A h \in HSlot : h \in Nat /\ (h >= u => (h \in u .. usable - 1 \/ h >= usable) /\ ~(h < u))
    BY ONLY <1>2 DEF HSlot
  <2> QED BY ONLY <1>1, <2>1, <2>2, Zenon
<1>4. \A h \in HSlot : h >= u \/ h < u
  BY ONLY <1>2, <1>3
<1>5. FreeHostInv'
  <2>1. ListOver(freeHost', HSlot) /\ Range(freeHost') = room
    <3>1. PICK q \in Ascending(room) : freeHost' = Reverse(q)
      BY ONLY <1>1, Zenon
    <3>2. IsFiniteSet(HSlot)
      BY ONLY <1>2, FS_Interval DEF HSlot
    <3>3. room \in SUBSET HSlot
      OBVIOUS
    <3> HIDE DEF room
    <3>4. ListOver(q, HSlot) /\ Range(q) = room
      BY ONLY <3>1, <3>2, <3>3, AscendingList
    <3> QED BY ONLY <3>1, <3>4, ReverseList
  <2>2. \A h \in HSlot : h >= u => hostSlots'[h] = NoExpert /\ hostRes'[h] = 0
    BY ONLY <1>1, <1>3, Zenon
  <2>3. \A h \in HSlot : h < u => hostSlots'[h] = hostSlots[h] /\ hostRes'[h] = hostRes[h]
    BY ONLY <1>1, <1>3, Zenon
  <2>4. \A h \in HSlot :
          h \in Range(freeHost') <=> h < u /\ hostSlots'[h] = NoExpert /\ hostRes'[h] = 0
    BY ONLY <2>1, <2>3, Zenon
  <2> QED BY ONLY <1>1, <2>1, <2>2, <2>4, Zenon DEF FreeHostInv
<1>6. \A h \in HSlot, e \in Expert : HoldsHost(e, h)' <=> HoldsHost(e, h) /\ h < u
  <2> SUFFICES ASSUME NEW h \in HSlot, NEW e \in Expert
               PROVE  HoldsHost(e, h)' <=> HoldsHost(e, h) /\ h < u
    OBVIOUS
  <2>1. CASE e \in gone
    BY ONLY <1>1, <1>3, <2>1, h \in HSlot, e \in Expert, Zenon DEF HoldsHost
  <2>2. CASE e \notin gone
    BY ONLY <1>1, <1>4, <2>2, h \in HSlot, e \in Expert, Zenon DEF HoldsHost
  <2> QED BY ONLY <2>1, <2>2, Zenon
<1>7. HostHolderInv'
  <2> SUFFICES ASSUME NEW h \in HSlot, NEW e \in Expert PROVE hostSlots'[h] = e <=> HoldsHost(e, h)'
    BY DEF HostHolderInv
  <2>1. (hostSlots[h] = e <=> HoldsHost(e, h)) /\ e # NoExpert
    BY ONLY HostInv, ExpertAssumption, h \in HSlot, e \in Expert
       DEF HostInv, HostHolderInv, NoExpert
  <2>2. hostSlots'[h] = IF h >= u THEN NoExpert ELSE hostSlots[h]
    BY ONLY <1>1, h \in HSlot, Zenon
  <2> QED BY ONLY <1>3, <1>4, <1>6, <2>1, <2>2, h \in HSlot, e \in Expert, Zenon
<1>8. \A e \in Expert : (Leaving(e)' <=> Leaving(e)) /\ (Landing(e)' <=> Landing(e))
  BY ONLY <1>1, Zenon DEF Leaving, Landing
<1>9. \A e \in Expert : Leaving(e) => slotIdx'[e] = slotIdx[e]
  BY ONLY <1>1, Zenon DEF Leaving, Quiet
<1>10. \A h \in HSlot : hostRes[h] # 0 => hostSlots'[h] = hostSlots[h]
  BY ONLY <1>1, <1>3, Zenon
<1>11. HostClaimInv'
  <2>1. \A e \in Expert : Leaving(e)' => hostRes'[slotIdx'[e]] = operationId'[e]
    BY ONLY <1>1, <1>8, <1>9, HostInv, Zenon DEF HostInv, HostClaimInv
  <2>2. ASSUME NEW h \in HSlot, hostRes'[h] # 0, hostSlots'[h] # NoExpert PROVE Leaving(hostSlots[h])'
    <3>1. hostSlots'[h] = hostSlots[h] /\ Leaving(hostSlots[h]) /\ hostSlots[h] \in Expert
      <4>1. hostSlots[h] \in Expert \cup {NoExpert} /\ hostRes[h] # 0
        BY ONLY <1>1, <2>2, IInv, HostTypes, Zenon
      <4> QED BY ONLY <1>10, <2>2, <4>1, HostInv, Zenon DEF HostInv, HostClaimInv
    <3>2. PICK e \in Expert : e = hostSlots'[h] /\ Leaving(e)
      BY ONLY <3>1, Zenon
    <3>3. Leaving(e)'
      BY ONLY <1>8, <3>2
    <3> QED BY ONLY <3>2, <3>3, Zenon DEF Leaving
  <2>3. ASSUME NEW h \in HSlot, hostRes'[h] # 0, hostSlots'[h] = NoExpert
        PROVE  \E v \in Expert : Landing(v)' /\ operationId'[v] = hostRes'[h]
    BY ONLY <1>1, <1>8, <1>10, <2>3, HostInv, Zenon DEF HostInv, HostClaimInv
  <2>4. ASSUME NEW v \in Expert, Landing(v)'
        PROVE  \E h \in HSlot : \A k \in HSlot : Room(operationId[v], k)' <=> k = h
    <3>1. Landing(v) /\ operationId'[v] = operationId[v] /\ operationId[v] # 0
      BY ONLY <1>1, <1>8, <2>4, IInv, Zenon DEF IInv, EntryInv, EntryOK, Landing
    <3>2. \A k \in HSlot : Room(operationId[v], k)' <=> Room(operationId[v], k)
      BY ONLY <1>1, <1>10, <3>1, Zenon DEF Room
    <3> QED BY ONLY <3>1, <3>2, HostInv, Zenon DEF HostInv, HostClaimInv
  <2> QED BY ONLY <2>1, <2>2, <2>3, <2>4, Zenon DEF HostClaimInv
<1> QED BY ONLY <1>1, <1>5, <1>7, <1>11, HostInv, Zenon DEF HostInv

-----------------------------------------------------------------------------
(* Every step keeps the invariant of the Warm tier. *)
LEMMA NextHostInv == IInv /\ HostInv /\ [Next]_vars => HostInv'
<1> SUFFICES ASSUME IInv, HostInv, [Next]_vars PROVE HostInv'
  OBVIOUS
<1>1. ASSUME NEW g \in Expert, Request(g) PROVE HostInv'
  BY ONLY <1>1, IInv, HostInv, JoinHost, ReserveHost, ReserveDropVictimHost, ReserveDemoteToFreeHost,
     ReserveDemoteOverWarmHost, Zenon DEF Request
<1>2. ASSUME NEW g \in Expert, Settle(g) PROVE HostInv'
  BY ONLY <1>2, IInv, HostInv, JoinHost, EndDemotionHost, CompleteRequestHost, FailRequestHost,
     ShadowHost, Zenon DEF Settle
<1>3. ASSUME NEW k \in 0 .. VramCap, NEW p \in Alloc, BeginPrefillStream(k, p) PROVE HostInv'
  <2>1. k \in Nat
    BY ONLY k \in 0 .. VramCap, CapacityAssumption
  <2> QED BY ONLY <1>3, <2>1, IInv, HostInv, BeginPrefillHost
<1>4. ASSUME NEW l \in Layer, ReleaseLayer(l) PROVE HostInv'
  BY ONLY <1>4, IInv, HostInv, ReleaseLayerHost
<1>5. ASSUME NEW u \in 0 .. HostCap, GrowHost(u) \/ ShrinkHost(u) PROVE HostInv'
  BY ONLY <1>5, IInv, HostInv, GrowHostHost, ShrinkHostHost
<1>6. ASSUME EndPrefillStream \/ FreezeWarm \/ ThawWarm \/ UNCHANGED vars PROVE HostInv'
  BY ONLY <1>6, IInv, HostInv, PhaseHost
<1> QED BY ONLY <1>1, <1>2, <1>3, <1>4, <1>5, <1>6, [Next]_vars DEF Next, Phase
=============================================================================
