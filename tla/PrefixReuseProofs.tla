------------------------- MODULE PrefixReuseProofs --------------------------
(***************************************************************************)
(* PrefixReuse implements ColdTurns, for every alphabet, context and model.*)
(*                                                                         *)
(* What a turn draws depends on the device, and ColdTurns speaks of the    *)
(* prompt and the reply alone.  IInv says how they are related at each     *)
(* point of a turn: during prefill the state lacks exactly the rest of the *)
(* prompt, during decode exactly the last token sampled; between turns the *)
(* record, unless it is empty or of an old epoch, describes the device.    *)
(***************************************************************************)
EXTENDS PrefixReuse, SequenceTheorems, TLAPS

(* The record and the device agree while a turn runs. *)
Served ==
  /\ device.whole /\ device.key = key
  /\ record.key = key /\ record.ids = device.ids

PrefillInv ==
  phase = "prefill" =>
    /\ Served /\ out = <<>>
    /\ offset = Len(device.ids) /\ offset < Len(prompt)
    /\ device.ids \o SubSeq(prompt, offset + 1, Len(prompt)) = prompt

DecodeInv ==
  phase = "decode" =>
    /\ Served /\ out # <<>> /\ Len(out) < quota
    /\ device.ids \o <<out[Len(out)]>> = prompt \o out

RoomInv == phase # "idle" => Len(prompt) < Capacity /\ quota <= Capacity - Len(prompt)

IInv ==
  /\ TypeOK /\ sessionEpoch <= epoch
  /\ RecordDescribesDevice /\ FitsContext
  /\ PrefillInv /\ DecodeInv /\ RoomInv

-----------------------------------------------------------------------------
(* A prompt generate accepts is a non-empty text that leaves room. *)
LEMMA PromptType ==
  ASSUME NEW p \in Prompts
  PROVE  p \in Seq(Token) /\ Len(p) \in 1 .. Capacity - 1
<1>1. PICK n \in 1 .. Capacity - 1 : p \in [1 .. n -> Token]
  BY DEF Prompts
<1> QED BY <1>1, SizeAssumption

(* The text up to a position and the text after it are the text. *)
LEMMA Split ==
  ASSUME NEW p \in Seq(Token), NEW n \in 0 .. Len(p)
  PROVE  SubSeq(p, 1, n) \o SubSeq(p, n + 1, Len(p)) = p
<1>1. SubSeq(p, 1, n) \o SubSeq(p, n + 1, Len(p)) = SubSeq(p, 1, Len(p))
  <2>1. 1 \in 1 .. Len(p) + 1 /\ n \in 1 - 1 .. Len(p) /\ Len(p) \in n .. Len(p)
    BY LenProperties
  <2> QED BY ONLY <2>1, p \in Seq(Token), ConcatAdjacentSubSeq
<1> QED BY <1>1, SubSeqFull

(* A part of a text is a text. *)
LEMMA PartType ==
  ASSUME NEW p \in Seq(Token), NEW m \in 1 .. Len(p) + 1, NEW n \in m - 1 .. Len(p)
  PROVE  SubSeq(p, m, n) \in Seq(Token) /\ Len(SubSeq(p, m, n)) = n - m + 1
<1>1. m \in Int /\ n \in Int /\ \A i \in m .. n : p[i] \in Token
  BY LenProperties, ElementOfSeq
<1>2. Len(SubSeq(p, m, n)) = (IF m <= n THEN n - m + 1 ELSE 0) /\ SubSeq(p, m, n) \in Seq(Token)
  BY ONLY <1>1, SubSeqProperties
<1> QED BY <1>1, <1>2

(* Three texts in a row, grouped either way. *)
LEMMA Regroup ==
  ASSUME NEW a \in Seq(Token), NEW b \in Seq(Token), NEW c \in Seq(Token)
  PROVE  (a \o b) \o c = a \o (b \o c)
BY ConcatAssociative

(* Feeding the next part of the prompt moves the boundary. *)
LEMMA FeedPart ==
  ASSUME NEW p \in Seq(Token), NEW d \in Seq(Token), NEW m \in 0 .. Len(p), NEW n \in m .. Len(p),
         d \o SubSeq(p, m + 1, Len(p)) = p
  PROVE  (d \o SubSeq(p, m + 1, n)) \o SubSeq(p, n + 1, Len(p)) = p
<1>1. /\ SubSeq(p, m + 1, n) \in Seq(Token) /\ SubSeq(p, n + 1, Len(p)) \in Seq(Token)
  BY PartType, LenProperties
<1>2. SubSeq(p, m + 1, n) \o SubSeq(p, n + 1, Len(p)) = SubSeq(p, m + 1, Len(p))
  <2>1. m + 1 \in 1 .. Len(p) + 1 /\ n \in (m + 1) - 1 .. Len(p) /\ Len(p) \in n .. Len(p)
    BY LenProperties
  <2> QED BY <2>1, ConcatAdjacentSubSeq
<1>3. (d \o SubSeq(p, m + 1, n)) \o SubSeq(p, n + 1, Len(p))
        = d \o (SubSeq(p, m + 1, n) \o SubSeq(p, n + 1, Len(p)))
  BY ONLY <1>1, d \in Seq(Token), Regroup, Zenon
<1> QED BY <1>2, <1>3

(* The text after one more token, grouped either way. *)
LEMMA OneMore ==
  ASSUME NEW p \in Seq(Token), NEW o \in Seq(Token), NEW t \in Token
  PROVE  /\ (p \o o) \o <<t>> = p \o Append(o, t)
         /\ Append(o, t) \in Seq(Token) /\ Append(o, t) # <<>>
         /\ Len(Append(o, t)) = Len(o) + 1 /\ Append(o, t)[Len(Append(o, t))] = t
<1>1. <<t>> \in Seq(Token) /\ Append(o, t) = o \o <<t>>
  BY AppendIsConcat
<1>2. (p \o o) \o <<t>> = p \o (o \o <<t>>)
  BY ONLY <1>1, p \in Seq(Token), o \in Seq(Token), Regroup
<1>3. /\ Append(o, t) \in Seq(Token) /\ Append(o, t) # <<>> /\ Len(Append(o, t)) = Len(o) + 1
      /\ Append(o, t)[Len(o) + 1] = t
  BY AppendProperties
<1> QED BY <1>1, <1>2, <1>3

-----------------------------------------------------------------------------
(* The invariant holds at the start. *)
LEMMA InitIInv == Init => IInv
BY SizeAssumption DEF Init, Empty, IInv, TypeOK, RecordDescribesDevice, FitsContext, PrefillInv,
                      DecodeInv, RoomInv

(* The beginning of a turn, on kept and on fresh state. *)
LEMMA BeginStep ==
  ASSUME IInv, NEW p \in Prompts, NEW k \in Key, NEW n \in 1 .. MaxNew, NEW reuse \in BOOLEAN,
         Begin(p, k, n, reuse)
  PROVE  IInv'
<1>1. p \in Seq(Token) /\ Len(p) \in 1 .. Capacity - 1
  BY PromptType
<1>2. /\ phase' = "prefill" /\ prompt' = p /\ key' = k /\ out' = <<>>
      /\ quota' = Least(n, Capacity - Len(p))
  BY DEF Begin
<1>3. quota' \in 0 .. MaxNew /\ quota' <= Capacity - Len(p)
  BY <1>1, <1>2, SizeAssumption DEF Least
<1>6. DecodeInv'
  BY ONLY <1>2 DEF DecodeInv
<1>7. RoomInv'
  BY ONLY <1>1, <1>2, <1>3, SizeAssumption DEF RoomInv
<1>4. CASE reuse /\ Reused(p, k)
  <2>1. /\ device' = device /\ record' = record /\ epoch' = epoch /\ sessionEpoch' = sessionEpoch
        /\ offset' = Len(record.ids)
    BY <1>4 DEF Begin, KeepState, hostVars
  <2>2. /\ device.whole /\ device.ids = record.ids /\ device.key = record.key /\ record.key = k
        /\ Len(record.ids) < Len(p) /\ SubSeq(p, 1, Len(record.ids)) = record.ids
    BY <1>4 DEF Reused, IInv, RecordDescribesDevice
  <2>3. record.ids \in Seq(Token) /\ Len(record.ids) \in 0 .. Len(p)
    BY <1>1, <2>2, LenProperties DEF IInv, TypeOK
  <2>4. device.ids \o SubSeq(p, Len(record.ids) + 1, Len(p)) = p
    BY <1>1, <2>2, <2>3, Split
  <2>5. TypeOK' /\ FitsContext' /\ RecordDescribesDevice'
    BY <1>1, <1>2, <1>3, <2>1, <2>3 DEF IInv, TypeOK, FitsContext, RecordDescribesDevice
  <2>6. PrefillInv'
    BY <1>2, <2>1, <2>2, <2>4 DEF PrefillInv, Served
  <2>8. sessionEpoch' <= epoch'
    BY <2>1 DEF IInv, TypeOK
  <2> QED BY ONLY <2>5, <2>6, <1>6, <1>7, <2>8 DEF IInv
<1>5. CASE ~(reuse /\ Reused(p, k))
  <2>1. /\ device' = [ids |-> <<>>, key |-> k, whole |-> TRUE] /\ record' = [ids |-> <<>>, key |-> k]
        /\ epoch' = epoch + 1 /\ sessionEpoch' = epoch + 1 /\ offset' = 0
    BY <1>5 DEF Begin, StartCold, Empty
  <2>2. <<>> \in Seq(Token) /\ Len(<<>>) = 0
    BY EmptySeq
  <2>3. <<>> \o SubSeq(p, 1, Len(p)) = p
    BY <1>1, SubSeqFull, ConcatEmptySeq
  <2>4. TypeOK' /\ FitsContext' /\ RecordDescribesDevice'
    BY <1>1, <1>2, <1>3, <2>1, <2>2, SizeAssumption
       DEF IInv, TypeOK, FitsContext, RecordDescribesDevice
  <2>5. PrefillInv'
    BY <1>1, <1>2, <2>1, <2>2, <2>3 DEF PrefillInv, Served
  <2>8. sessionEpoch' <= epoch'
    BY <2>1 DEF IInv, TypeOK
  <2> QED BY ONLY <2>4, <2>5, <1>6, <1>7, <2>8 DEF IInv
<1> QED BY <1>4, <1>5

-----------------------------------------------------------------------------
(* What a step that samples does: the state holds the prompt and the reply so
   far, and the token is one the model gives for them. *)
Drawn ==
  \E t \in Token :
    /\ t \in Dist(key, prompt \o out) /\ Reply(t)
    /\ device' = [ids |-> prompt \o out, key |-> key, whole |-> TRUE]
    /\ record' = [ids |-> prompt \o out, key |-> key]
    /\ epoch' = epoch /\ sessionEpoch' = sessionEpoch
    /\ prompt' = prompt /\ key' = key /\ quota' = quota /\ offset' \in Nat

(* A state given another text keeps its other fields. *)
LEMMA OtherText ==
  ASSUME NEW T, NEW K, NEW W, NEW d \in [ids : T, key : K, whole : W], NEW v
  PROVE  [d EXCEPT !.ids = v] = [ids |-> v, key |-> d.key, whole |-> d.whole]
OBVIOUS

(* Forwarding extends the text of the state and nothing else. *)
LEMMA Grown ==
  ASSUME NEW T, NEW K, NEW W, device \in [ids : T, key : K, whole : W], NEW ids
  PROVE  Forwarded(ids) = [ids |-> device.ids \o ids, key |-> device.key, whole |-> device.whole]
<1> DEFINE v == device.ids \o ids
<1>1. Forwarded(ids) = [device EXCEPT !.ids = v]
  BY DEF Forwarded
<1> HIDE DEF v
<1>2. [device EXCEPT !.ids = v] = [ids |-> v, key |-> device.key, whole |-> device.whole]
  BY ONLY OtherText, device \in [ids : T, key : K, whole : W]
<1> QED BY ONLY <1>1, <1>2 DEF v

(* Feeding a text appends it to the record and to the device, which keep
   their key. *)
LEMMA Fed ==
  ASSUME TypeOK, Served, NEW ids, NEW n, Feed(n, ids), device' = Forwarded(ids)
  PROVE  /\ device' = [ids |-> device.ids \o ids, key |-> key, whole |-> TRUE]
         /\ record' = [ids |-> device.ids \o ids, key |-> key]
         /\ Forwarded(ids) = [ids |-> device.ids \o ids, key |-> key, whole |-> TRUE]
<1>1. /\ device = [ids |-> device.ids, key |-> device.key, whole |-> device.whole]
      /\ record = [ids |-> record.ids, key |-> record.key]
      /\ device.whole \in BOOLEAN
  BY DEF TypeOK
<1>2. device.whole = TRUE
  BY <1>1 DEF Served
<1>3. Forwarded(ids) = [ids |-> device.ids \o ids, key |-> device.key, whole |-> TRUE]
  <2>1. device \in [ids : Seq(Token), key : Key, whole : BOOLEAN]
    BY DEF TypeOK
  <2>2. Forwarded(ids) = [ids |-> device.ids \o ids, key |-> device.key, whole |-> device.whole]
    BY ONLY <2>1, Grown
  <2> QED BY ONLY <1>2, <2>2, Zenon
<1>4. record' = [ids |-> record.ids \o ids, key |-> record.key]
  BY ONLY <1>1, Feed(n, ids) DEF Feed
<1> QED BY ONLY <1>2, <1>3, <1>4, Served, device' = Forwarded(ids) DEF Served

(* A whole state answers for the text it was fed. *)
LEMMA Answers ==
  ASSUME NEW ids, NEW k, NEW t \in Sampled([ids |-> ids, key |-> k, whole |-> TRUE])
  PROVE  t \in Token /\ t \in Dist(k, ids)
BY DEF Sampled

(* The last window of the prefill samples the first token of the reply. *)
LEMMA LastWindow ==
  ASSUME IInv, PrefillWindow, offset + Least(Window, Len(prompt) - offset) = Len(prompt)
  PROVE  Drawn
<1> DEFINE ids == SubSeq(prompt, offset + 1, Len(prompt))
<1>1. phase = "prefill" /\ TypeOK /\ Served /\ out = <<>> /\ device.ids \o ids = prompt
  BY DEF PrefillWindow, IInv, PrefillInv
<1>2. prompt \o out = prompt
  BY <1>1, ConcatEmptySeq DEF TypeOK
<1>3. /\ Feed(offset, ids) /\ device' = Forwarded(ids) /\ \E t \in Sampled(Forwarded(ids)) : Reply(t)
      /\ offset' = Len(prompt) /\ epoch' = epoch /\ sessionEpoch' = sessionEpoch
      /\ prompt' = prompt /\ key' = key /\ quota' = quota
  BY DEF PrefillWindow
<1>4. PICK t \in Sampled(Forwarded(ids)) : Reply(t)
  BY <1>3
<1> HIDE DEF ids
<1>5. /\ device' = [ids |-> prompt, key |-> key, whole |-> TRUE]
      /\ record' = [ids |-> prompt, key |-> key]
      /\ Forwarded(ids) = [ids |-> prompt, key |-> key, whole |-> TRUE]
  BY ONLY <1>1, <1>3, Fed
<1>6. t \in Token /\ t \in Dist(key, prompt)
  BY ONLY <1>4, <1>5, Answers
<1>7. offset' \in Nat
  BY <1>1, <1>3, LenProperties DEF TypeOK
<1> QED BY ONLY <1>2, <1>3, <1>4, <1>5, <1>6, <1>7 DEF Drawn

(* Every other window moves the boundary between what the state holds and the
   rest of the prompt. *)
LEMMA MiddleWindow ==
  ASSUME IInv, PrefillWindow, offset + Least(Window, Len(prompt) - offset) # Len(prompt)
  PROVE  IInv' /\ UNCHANGED <<phase, prompt, key, quota, out>>
<1> DEFINE next == offset + Least(Window, Len(prompt) - offset)
           ids == SubSeq(prompt, offset + 1, next)
<1>1. /\ phase = "prefill" /\ TypeOK /\ Served /\ out = <<>> /\ offset = Len(device.ids)
      /\ offset < Len(prompt) /\ device.ids \o SubSeq(prompt, offset + 1, Len(prompt)) = prompt
      /\ Len(prompt) < Capacity
  BY DEF PrefillWindow, IInv, PrefillInv, RoomInv
<1>2. /\ prompt \in Seq(Token) /\ device.ids \in Seq(Token) /\ Len(prompt) \in Nat /\ offset \in Nat
  BY <1>1, LenProperties DEF TypeOK
<1>3. next \in offset .. Len(prompt) /\ next < Len(prompt) /\ next \in Nat
  <2>1. offset < Len(prompt) /\ next # Len(prompt)
    BY <1>1
  <2> QED BY ONLY <1>2, <2>1, SizeAssumption DEF Least
<1>4. /\ Feed(offset, ids) /\ device' = Forwarded(ids) /\ phase' = phase /\ out' = out
      /\ offset' = next /\ epoch' = epoch /\ sessionEpoch' = sessionEpoch
      /\ prompt' = prompt /\ key' = key /\ quota' = quota
  BY DEF PrefillWindow
<1>5. ids \in Seq(Token) /\ Len(ids) = next - offset
  BY <1>2, <1>3, PartType
<1>6. (device.ids \o ids) \o SubSeq(prompt, next + 1, Len(prompt)) = prompt
  <2> HIDE DEF next
  <2>1. offset < Len(prompt) /\ device.ids \o SubSeq(prompt, offset + 1, Len(prompt)) = prompt
    BY ONLY <1>1
  <2>2. offset \in 0 .. Len(prompt)
    BY ONLY <1>2, <2>1
  <2> QED BY ONLY <1>2, <1>3, <2>1, <2>2, FeedPart
<1> HIDE DEF next, ids
<1>7. /\ device' = [ids |-> device.ids \o ids, key |-> key, whole |-> TRUE]
      /\ record' = [ids |-> device.ids \o ids, key |-> key]
  BY ONLY <1>1, <1>4, Fed
<1>8. device.ids \o ids \in Seq(Token) /\ Len(device.ids \o ids) = next
  BY <1>1, <1>2, <1>3, <1>5, ConcatProperties
<1>9. TypeOK'
  BY <1>1, <1>3, <1>4, <1>7, <1>8 DEF TypeOK
<1>10. PrefillInv'
  <2>1. Served' /\ out' = <<>>
    BY ONLY <1>1, <1>4, <1>7 DEF Served
  <2>2. /\ offset' = Len(device'.ids) /\ offset' < Len(prompt')
        /\ device'.ids \o SubSeq(prompt', offset' + 1, Len(prompt')) = prompt'
    <3>1. device'.ids = device.ids \o ids
      BY ONLY <1>7
    <3>2. offset' = next /\ prompt' = prompt /\ next < Len(prompt)
      BY ONLY <1>3, <1>4
    <3> QED BY ONLY <3>1, <3>2, <1>6, <1>8, Zenon
  <2> QED BY ONLY <2>1, <2>2 DEF PrefillInv
<1>11. DecodeInv'
  BY ONLY <1>1, <1>4 DEF DecodeInv
<1>12. RoomInv' /\ sessionEpoch' <= epoch'
  BY <1>4 DEF IInv, RoomInv
<1>13. RecordDescribesDevice' /\ FitsContext'
  BY <1>1, <1>2, <1>3, <1>7, <1>8, SizeAssumption DEF RecordDescribesDevice, FitsContext
<1> QED BY ONLY <1>4, <1>9, <1>10, <1>11, <1>12, <1>13 DEF IInv

(* A decode step forwards the last token and samples the next. *)
LEMMA DecodeDraws ==
  ASSUME IInv, DecodeStep
  PROVE  Drawn
<1> DEFINE ids == <<out[Len(out)]>>
<1>1. phase = "decode" /\ TypeOK /\ Served /\ device.ids \o ids = prompt \o out
  BY DEF DecodeStep, IInv, DecodeInv
<1>2. /\ Feed(Len(prompt) + Len(out) - 1, ids) /\ device' = Forwarded(ids)
      /\ \E t \in Sampled(Forwarded(ids)) : Reply(t)
      /\ offset' = offset /\ epoch' = epoch /\ sessionEpoch' = sessionEpoch
      /\ prompt' = prompt /\ key' = key /\ quota' = quota
  BY DEF DecodeStep
<1>3. PICK t \in Sampled(Forwarded(ids)) : Reply(t)
  BY <1>2
<1> HIDE DEF ids
<1>4. /\ device' = [ids |-> prompt \o out, key |-> key, whole |-> TRUE]
      /\ record' = [ids |-> prompt \o out, key |-> key]
      /\ Forwarded(ids) = [ids |-> prompt \o out, key |-> key, whole |-> TRUE]
  BY ONLY <1>1, <1>2, Fed
<1>5. t \in Token /\ t \in Dist(key, prompt \o out)
  BY ONLY <1>3, <1>4, Answers
<1>6. offset' \in Nat
  BY <1>1, <1>2 DEF TypeOK
<1> QED BY ONLY <1>2, <1>3, <1>4, <1>5, <1>6 DEF Drawn

(* The invariant survives a sampled token. *)
LEMMA DrawnStep ==
  ASSUME IInv, phase # "idle", Drawn
  PROVE  IInv'
<1>1. PICK t \in Token :
        /\ t \in Dist(key, prompt \o out) /\ Reply(t)
        /\ device' = [ids |-> prompt \o out, key |-> key, whole |-> TRUE]
        /\ record' = [ids |-> prompt \o out, key |-> key]
        /\ epoch' = epoch /\ sessionEpoch' = sessionEpoch
        /\ prompt' = prompt /\ key' = key /\ quota' = quota /\ offset' \in Nat
  BY DEF Drawn
<1>2. TypeOK /\ prompt \in Seq(Token) /\ out \in Seq(Token) /\ quota \in Nat
  BY SizeAssumption DEF IInv, TypeOK
<1>3. Len(prompt) + Len(out) < Capacity /\ quota <= Capacity - Len(prompt)
  <2>1. Len(prompt) < Capacity /\ quota <= Capacity - Len(prompt)
    BY DEF IInv, RoomInv
  <2>2. Len(prompt) \in Nat /\ Len(out) \in Nat
    BY <1>2, LenProperties
  <2>3. out = <<>> \/ Len(out) < quota
    BY <1>2 DEF IInv, TypeOK, PrefillInv, DecodeInv
  <2> QED BY <1>2, <2>1, <2>2, <2>3, EmptySeq, SizeAssumption
<1>4. prompt \o out \in Seq(Token) /\ Len(prompt \o out) = Len(prompt) + Len(out)
  BY <1>2, ConcatProperties
<1>5. /\ out' = Append(out, t) /\ out' \in Seq(Token) /\ out' # <<>> /\ out'[Len(out')] = t
      /\ (prompt \o out) \o <<t>> = prompt \o out'
  BY <1>1, <1>2, OneMore DEF Reply
<1>6. phase' \in {"idle", "decode"} /\ (phase' = "decode" => ~(Len(out') >= quota))
  BY <1>1 DEF Reply
<1>7. TypeOK'
  BY ONLY <1>1, <1>2, <1>4, <1>5, <1>6 DEF TypeOK
<1>8. PrefillInv'
  BY ONLY <1>6 DEF PrefillInv
<1>9. DecodeInv'
  <2>1. Len(out') \in Nat
    BY <1>5, LenProperties
  <2>2. Served'
    BY ONLY <1>1 DEF Served
  <2>3. device'.ids \o <<out'[Len(out')]>> = prompt' \o out'
    BY ONLY <1>1, <1>5
  <2>4. phase' = "decode" => Len(out') < quota'
    BY ONLY <1>1, <1>2, <1>6, <2>1
  <2> QED BY ONLY <1>5, <2>2, <2>3, <2>4 DEF DecodeInv
<1>10. RoomInv'
  <2>1. Len(prompt) < Capacity
    BY DEF IInv, RoomInv
  <2> QED BY ONLY <1>1, <1>3, <2>1 DEF RoomInv
<1>11. sessionEpoch' <= epoch'
  BY <1>1 DEF IInv
<1>12. RecordDescribesDevice' /\ FitsContext'
  BY ONLY <1>1, <1>3, <1>4 DEF RecordDescribesDevice, FitsContext
<1> QED BY ONLY <1>7, <1>8, <1>9, <1>10, <1>11, <1>12 DEF IInv

-----------------------------------------------------------------------------
(* Between turns only the record and the device are constrained. *)
LEMMA IdleStep ==
  ASSUME IInv, phase' = "idle", TypeOK', sessionEpoch' <= epoch', RecordDescribesDevice', FitsContext'
  PROVE  IInv'
BY DEF IInv, PrefillInv, DecodeInv, RoomInv

(* A turn refused after the reset empties the record. *)
LEMMA BeginNothingStep ==
  ASSUME IInv, NEW p \in Prompts, NEW k \in Key, NEW reuse \in BOOLEAN, BeginNothing(p, k, reuse)
  PROVE  IInv'
<1>1. /\ phase' = "idle" /\ prompt' = prompt /\ key' = key /\ quota' = quota /\ out' = out
      /\ record' = [ids |-> <<>>, key |-> k]
  BY DEF BeginNothing, Empty
<1>2. \/ device' = device /\ epoch' = epoch /\ sessionEpoch' = sessionEpoch /\ offset' = offset
      \/ /\ device' = [ids |-> <<>>, key |-> k, whole |-> TRUE]
         /\ epoch' = epoch + 1 /\ sessionEpoch' = epoch + 1 /\ offset' = 0
  BY DEF BeginNothing, StartCold
<1>3. TypeOK' /\ sessionEpoch' <= epoch'
  <2>1. CASE device' = device /\ epoch' = epoch /\ sessionEpoch' = sessionEpoch /\ offset' = offset
    BY <1>1, <2>1 DEF IInv, TypeOK
  <2>2. CASE /\ device' = [ids |-> <<>>, key |-> k, whole |-> TRUE]
             /\ epoch' = epoch + 1 /\ sessionEpoch' = epoch + 1 /\ offset' = 0
    BY <1>1, <2>2 DEF IInv, TypeOK
  <2> QED BY ONLY <1>2, <2>1, <2>2
<1>4. RecordDescribesDevice'
  BY <1>1 DEF RecordDescribesDevice
<1>5. FitsContext'
  BY <1>2, EmptySeq, SizeAssumption DEF IInv, FitsContext
<1> QED BY <1>1, <1>3, <1>4, <1>5, IdleStep

(* Cancellation leaves record and device alone. *)
LEMMA CancelStep == ASSUME IInv, Cancel PROVE IInv'
<1>1. /\ phase' = "idle" /\ device' = device /\ epoch' = epoch /\ record' = record
      /\ sessionEpoch' = sessionEpoch /\ prompt' = prompt /\ key' = key /\ quota' = quota
      /\ out' = out /\ offset' = offset
  BY DEF Cancel, hostVars
<1>2. TypeOK' /\ sessionEpoch' <= epoch' /\ RecordDescribesDevice' /\ FitsContext'
  BY <1>1 DEF IInv, TypeOK, RecordDescribesDevice, FitsContext
<1> QED BY <1>1, <1>2, IdleStep

(* A failed pass empties the record of the state it spoiled. *)
LEMMA FailStep == ASSUME IInv, Fail PROVE IInv'
<1>1. /\ phase' = "idle" /\ device' = [device EXCEPT !.whole = FALSE] /\ epoch' = epoch
      /\ record' = [ids |-> <<>>, key |-> record.key]
      /\ sessionEpoch' = sessionEpoch /\ prompt' = prompt /\ key' = key /\ quota' = quota
      /\ out' = out /\ offset' = offset
  BY DEF Fail, Empty
<1>2. TypeOK /\ sessionEpoch <= epoch /\ Len(device.ids) < Capacity
  BY DEF IInv, FitsContext
<1>3. device' \in [ids : Seq(Token), key : Key, whole : BOOLEAN] /\ device'.ids = device.ids
  BY ONLY <1>1, <1>2 DEF TypeOK
<1>4. TypeOK'
  BY <1>1, <1>2, <1>3 DEF TypeOK
<1>5. RecordDescribesDevice' /\ FitsContext' /\ sessionEpoch' <= epoch'
  BY <1>1, <1>2, <1>3 DEF RecordDescribesDevice, FitsContext
<1> QED BY ONLY <1>1, <1>4, <1>5, IInv, IdleStep

(* A direct reset leaves the record in an older epoch. *)
LEMMA DirectResetStep == ASSUME IInv, NEW k \in Key, DirectReset(k) PROVE IInv'
<1>1. /\ phase' = "idle" /\ device' = [ids |-> <<>>, key |-> k, whole |-> TRUE] /\ epoch' = epoch + 1
      /\ record' = record /\ sessionEpoch' = sessionEpoch /\ prompt' = prompt /\ key' = key
      /\ quota' = quota /\ out' = out /\ offset' = offset
  BY DEF DirectReset, hostVars, turnVars
<1>2. TypeOK' /\ sessionEpoch' < epoch'
  BY <1>1 DEF IInv, TypeOK
<1>3. RecordDescribesDevice' /\ FitsContext'
  BY <1>1, <1>2, EmptySeq, SizeAssumption DEF TypeOK, RecordDescribesDevice, FitsContext
<1>4. sessionEpoch' <= epoch'
  BY <1>2 DEF TypeOK
<1> QED BY <1>1, <1>2, <1>3, <1>4, IdleStep

(* Driving the graph directly changes a state no record of this epoch describes. *)
LEMMA DirectForwardStep == ASSUME IInv, NEW t \in Token, DirectForward(t) PROVE IInv'
<1>1. /\ phase' = "idle" /\ device' = Forwarded(<<t>>) /\ epoch' = epoch /\ sessionEpoch # epoch
      /\ Len(device.ids) < Capacity - 1
      /\ record' = record /\ sessionEpoch' = sessionEpoch /\ prompt' = prompt /\ key' = key
      /\ quota' = quota /\ out' = out /\ offset' = offset
  BY DEF DirectForward, hostVars, turnVars
<1>2. TypeOK /\ sessionEpoch <= epoch
  BY DEF IInv
<1>3. device' = [ids |-> device.ids \o <<t>>, key |-> device.key, whole |-> device.whole]
  BY ONLY <1>1, <1>2, Grown DEF TypeOK
<1>4. device.ids \o <<t>> \in Seq(Token) /\ Len(device.ids \o <<t>>) = Len(device.ids) + 1
  <2>1. <<t>> \in Seq(Token) /\ Len(<<t>>) = 1 /\ device.ids \in Seq(Token)
    BY <1>2 DEF TypeOK
  <2> QED BY <2>1, ConcatProperties
<1>5. device.key \in Key /\ device.whole \in BOOLEAN /\ Len(device.ids) \in Nat
  BY <1>2, LenProperties DEF TypeOK
<1>6. TypeOK'
  <2>1. device' \in [ids : Seq(Token), key : Key, whole : BOOLEAN]
    BY ONLY <1>3, <1>4, <1>5
  <2> QED BY ONLY <1>1, <1>2, <2>1 DEF TypeOK
<1>7. RecordDescribesDevice' /\ sessionEpoch' <= epoch'
  BY ONLY <1>1, <1>2 DEF RecordDescribesDevice
<1>8. FitsContext'
  <2>1. device'.ids = device.ids \o <<t>>
    BY ONLY <1>3
  <2> QED BY ONLY <1>1, <1>4, <1>5, <2>1, SizeAssumption DEF FitsContext
<1> QED BY ONLY <1>1, <1>6, <1>7, <1>8, IInv, IdleStep

(* Every step keeps the invariant. *)
LEMMA NextIInv == IInv /\ [Next]_vars => IInv'
<1> SUFFICES ASSUME IInv, [Next]_vars PROVE IInv'
  OBVIOUS
<1>1. ASSUME NEW p \in Prompts, NEW k \in Key, NEW reuse \in BOOLEAN, NEW n \in 1 .. MaxNew,
             Begin(p, k, n, reuse)
      PROVE  IInv'
  BY <1>1, BeginStep
<1>2. ASSUME NEW p \in Prompts, NEW k \in Key, NEW reuse \in BOOLEAN, BeginNothing(p, k, reuse)
      PROVE  IInv'
  BY <1>2, BeginNothingStep
<1>3. CASE PrefillWindow
  <2>1. phase # "idle"
    BY <1>3 DEF PrefillWindow
  <2> QED BY <1>3, <2>1, LastWindow, MiddleWindow, DrawnStep
<1>4. CASE DecodeStep
  <2>1. phase # "idle"
    BY <1>4 DEF DecodeStep
  <2> QED BY <1>4, <2>1, DecodeDraws, DrawnStep
<1>5. CASE Cancel
  BY <1>5, CancelStep
<1>6. CASE Fail
  BY <1>6, FailStep
<1>7. ASSUME NEW k \in Key, DirectReset(k) PROVE IInv'
  BY <1>7, DirectResetStep
<1>8. ASSUME NEW t \in Token, DirectForward(t) PROVE IInv'
  BY <1>8, DirectForwardStep
<1>9. CASE UNCHANGED vars
  BY <1>9 DEF vars, hostVars, turnVars, IInv, TypeOK, RecordDescribesDevice, FitsContext, PrefillInv,
              DecodeInv, RoomInv, Served
<1> QED BY ONLY <1>1, <1>2, <1>3, <1>4, <1>5, <1>6, <1>7, <1>8, <1>9, [Next]_vars DEF Next

(* The session keeps its types, its record describes the device and no forward
   pass leaves the context, for every alphabet, context size, window and model. *)
THEOREM SessionInvariant == Spec => []SessionSound
<1>1. IInv => SessionSound
  BY DEF IInv, SessionSound
<1> QED BY <1>1, InitIInv, NextIInv, PTL DEF Spec

-----------------------------------------------------------------------------
(* A token drawn from a whole state is one a cold start may write. *)
LEMMA DrawnWrites ==
  ASSUME phase # "idle", Drawn
  PROVE  Cold!Next
<1>1. PICK t \in Token :
        /\ t \in Dist(key, prompt \o out) /\ Reply(t)
        /\ prompt' = prompt /\ key' = key /\ quota' = quota
  BY DEF Drawn
<1>2. Cold!Write(t)
  BY ONLY <1>1, phase # "idle" DEF Reply, Cold!Write
<1> QED BY ONLY <1>1, <1>2 DEF Cold!Next

(* Every step of the session is a step of the cold specification or leaves its
   variables alone. *)
LEMMA ColdStep == IInv /\ [Next]_vars => [Cold!Next]_(Cold!vars)
<1> SUFFICES ASSUME IInv, [Next]_vars PROVE Cold!Next \/ UNCHANGED <<phase, prompt, key, quota, out>>
  BY DEF Cold!vars
<1>1. ASSUME NEW p \in Prompts, NEW k \in Key, NEW reuse \in BOOLEAN, NEW n \in 1 .. MaxNew,
             Begin(p, k, n, reuse)
      PROVE  Cold!Next
  <2>1. phase = "idle" /\ phase' = "prefill" /\ prompt' = p /\ key' = k /\ out' = <<>>
    BY <1>1 DEF Begin
  <2>2. quota' = Cold!Room(prompt', n)
    BY <1>1, <2>1 DEF Begin, Least, Cold!Room
  <2>3. prompt' \in Cold!Prompts
    BY <2>1 DEF Prompts, Cold!Prompts
  <2>4. Cold!Ask
    BY ONLY <2>1, <2>2, <2>3, k \in Key, n \in 1 .. MaxNew DEF Cold!Ask
  <2> QED BY ONLY <2>4 DEF Cold!Next
<1>2. ASSUME NEW p \in Prompts, NEW k \in Key, NEW reuse \in BOOLEAN, BeginNothing(p, k, reuse)
      PROVE  UNCHANGED <<phase, prompt, key, quota, out>>
  BY <1>2 DEF BeginNothing
<1>3. CASE PrefillWindow
  <2>1. phase # "idle"
    BY <1>3 DEF PrefillWindow
  <2> QED BY <1>3, <2>1, LastWindow, MiddleWindow, DrawnWrites
<1>4. CASE DecodeStep
  <2>1. phase # "idle"
    BY <1>4 DEF DecodeStep
  <2> QED BY <1>4, <2>1, DecodeDraws, DrawnWrites
<1>5. CASE Cancel \/ Fail
  <2>1. Cold!Drop
    BY <1>5 DEF Cancel, Fail, Cold!Drop
  <2> QED BY ONLY <2>1 DEF Cold!Next
<1>6. ASSUME NEW k \in Key, DirectReset(k) PROVE UNCHANGED <<phase, prompt, key, quota, out>>
  BY <1>6 DEF DirectReset, turnVars
<1>7. ASSUME NEW t \in Token, DirectForward(t) PROVE UNCHANGED <<phase, prompt, key, quota, out>>
  BY <1>7 DEF DirectForward, turnVars
<1>8. CASE UNCHANGED vars
  BY <1>8 DEF vars, turnVars
<1> QED BY ONLY <1>1, <1>2, <1>3, <1>4, <1>5, <1>6, <1>7, <1>8, [Next]_vars DEF Next

(* Reuse is invisible: whatever ran, was cancelled, failed or was reset before,
   every reply is one of a cold start, for every alphabet, context size, window
   and model. *)
THEOREM ReuseIsInvisible == Spec => EqualsColdRun
<1>1. Init => Cold!Init
  BY DEF Init, Cold!Init
<1> QED BY <1>1, InitIInv, NextIInv, ColdStep, PTL DEF Spec, EqualsColdRun, Cold!Spec
=============================================================================
