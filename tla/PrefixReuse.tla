----------------------------- MODULE PrefixReuse -----------------------------
(***************************************************************************)
(* The session of V4Engine: a turn keeps the device state of an earlier    *)
(* one when its prompt extends the tokens that state was fed (PrefixRecord)*)
(* and prefills only the tail.  The record is host memory, the state is on *)
(* the GPU, and the two are changed by different statements: cancellation, *)
(* a failure in the middle of a forward pass and a direct reset come       *)
(* between them.  V4Conversation is the caller that ends the session after *)
(* a failure.  A request the validation refuses changes nothing and is no  *)
(* action here.                                                            *)
(***************************************************************************)
EXTENDS Integers, Sequences

CONSTANTS
  Token, Key, Eos, Capacity, MaxNew, Dist(_, _),
  Window       \* prefill_window_tokens

ASSUME SizeAssumption == Capacity \in Nat \ {0} /\ MaxNew \in Nat /\ Window \in Nat \ {0}

VARIABLES
  device,       \* the layers' generation state: the tokens it was fed, the key
                \* they were computed for, and whether every layer holds them all
  epoch,        \* state_epoch_
  record,       \* session_: ids_ and key_
  sessionEpoch, \* session_epoch_
  phase, prompt, key, quota, out,
  offset        \* the next prompt position the prefill loop forwards

hostVars == <<record, sessionEpoch>>
turnVars == <<phase, prompt, key, quota, out, offset>>
vars == <<device, epoch, hostVars, turnVars>>

Prompts == UNION {[1 .. n -> Token] : n \in 1 .. Capacity - 1}
Least(m, n) == IF m < n THEN m ELSE n
Empty(k) == [ids |-> <<>>, key |-> k]

Init ==
  /\ \E k \in Key : /\ device = [ids |-> <<>>, key |-> k, whole |-> TRUE]
                    /\ record = Empty(k) /\ key = k
  /\ epoch = 0 /\ sessionEpoch = 0
  /\ phase = "idle" /\ prompt = <<>> /\ quota = 0 /\ out = <<>> /\ offset = 0

-----------------------------------------------------------------------------
(* Mutant: the record is trusted although the state was reset under it. *)
ReusedAcrossReset(p, k) ==
  /\ record.ids # <<>> /\ record.key = k
  /\ Len(record.ids) < Len(p)
  /\ SubSeq(p, 1, Len(record.ids)) = record.ids

(* PrefixRecord::plan, and the epoch check that follows it in generate. *)
Reused(p, k) ==
  /\ record.ids # <<>> /\ record.key = k
  /\ Len(record.ids) < Len(p)
  /\ SubSeq(p, 1, Len(record.ids)) = record.ids
  /\ sessionEpoch = epoch

(* The state of a cold start: reset_generation_state and session_.begin. *)
StartCold(k) ==
  /\ device' = [ids |-> <<>>, key |-> k, whole |-> TRUE]
  /\ epoch' = epoch + 1
  /\ sessionEpoch' = epoch + 1
  /\ offset' = 0

KeepState ==
  /\ offset' = Len(record.ids)
  /\ UNCHANGED <<device, epoch, hostVars>>

(* generate, up to the first window. *)
Begin(p, k, n, reuse) ==
  /\ phase = "idle"
  /\ phase' = "prefill"
  /\ prompt' = p /\ key' = k /\ quota' = Least(n, Capacity - Len(p)) /\ out' = <<>>
  /\ IF reuse /\ Reused(p, k) THEN KeepState ELSE StartCold(k) /\ record' = Empty(k)

(* max_new_tokens = 0 is refused by generate_token_ids, after the reset; the
   error ends the session. *)
BeginNothing(p, k, reuse) ==
  /\ phase = "idle"
  /\ IF reuse /\ Reused(p, k)
     THEN UNCHANGED <<device, epoch, sessionEpoch, offset>>
     ELSE StartCold(k)
  /\ record' = Empty(k)
  /\ UNCHANGED <<phase, prompt, key, quota, out>>

(* What the sampler may draw: a state that missed part of a pass may say
   anything. *)
Sampled(d) == {t \in Token : d.whole => t \in Dist(d.key, d.ids)}

(* PrefixRecord::feed throws unless the position is the record's next one. *)
Feed(position, ids) ==
  /\ position = Len(record.ids)
  /\ record' = [record EXCEPT !.ids = @ \o ids]

Forwarded(ids) == [device EXCEPT !.ids = @ \o ids]

(* generate_token_ids: the end of the token loop. *)
Reply(t) ==
  /\ out' = Append(out, t)
  /\ phase' = IF t = Eos \/ Len(out') >= quota THEN "idle" ELSE "decode"

(* One window of the prefill step.  The last one also samples. *)
PrefillWindow ==
  LET span == Least(Window, Len(prompt) - offset)
      ids == SubSeq(prompt, offset + 1, offset + span)
  IN
  /\ phase = "prefill"
  /\ Feed(offset, ids)
  /\ device' = Forwarded(ids)
  /\ offset' = offset + span
  /\ IF offset + span = Len(prompt)
     THEN \E t \in Sampled(Forwarded(ids)) : Reply(t)
     ELSE UNCHANGED <<phase, out>>
  /\ UNCHANGED <<epoch, sessionEpoch, prompt, key, quota>>

(* advance: forward the last sampled token, record it, sample the next. *)
DecodeStep ==
  LET ids == <<out[Len(out)]>> IN
  /\ phase = "decode"
  /\ Feed(Len(prompt) + Len(out) - 1, ids)
  /\ device' = Forwarded(ids)
  /\ \E t \in Sampled(Forwarded(ids)) : Reply(t)
  /\ UNCHANGED <<epoch, sessionEpoch, prompt, key, quota, offset>>

(* Cancellation is polled between windows and between tokens; the record and
   the state agree there, and both are kept. *)
Cancel ==
  /\ phase # "idle"
  /\ phase' = "idle"
  /\ UNCHANGED <<device, epoch, hostVars, prompt, key, quota, out, offset>>

(* Mutant: the session outlives a failure. *)
FailKeepsSession ==
  /\ phase # "idle"
  /\ phase' = "idle"
  /\ device' = [device EXCEPT !.whole = FALSE]
  /\ UNCHANGED <<epoch, hostVars, prompt, key, quota, out, offset>>

(* An exception inside a forward pass.  Some layers have taken the tokens,
   others have not.  generate clears the record for a prefill, and
   V4Conversation::run ends the session for both. *)
Fail ==
  /\ phase # "idle"
  /\ phase' = "idle"
  /\ device' = [device EXCEPT !.whole = FALSE]
  /\ record' = Empty(record.key)
  /\ UNCHANGED <<epoch, sessionEpoch, prompt, key, quota, out, offset>>

(* A caller outside the contract resets the state and drives the graph
   itself; nobody tells the record. *)
DirectReset(k) ==
  /\ phase = "idle"
  /\ device' = [ids |-> <<>>, key |-> k, whole |-> TRUE]
  /\ epoch' = epoch + 1
  /\ UNCHANGED <<hostVars, turnVars>>

DirectForward(t) ==
  /\ phase = "idle" /\ sessionEpoch # epoch /\ Len(device.ids) < Capacity - 1
  /\ device' = Forwarded(<<t>>)
  /\ UNCHANGED <<epoch, hostVars, turnVars>>

Next ==
  \/ \E p \in Prompts, k \in Key, reuse \in BOOLEAN :
       \/ \E n \in 1 .. MaxNew : Begin(p, k, n, reuse)
       \/ BeginNothing(p, k, reuse)
  \/ PrefillWindow \/ DecodeStep \/ Cancel \/ Fail
  \/ \E k \in Key : DirectReset(k)
  \/ \E t \in Token : DirectForward(t)

Spec == Init /\ [][Next]_vars

-----------------------------------------------------------------------------
(* The session and the turn have their types, and a turn's quota is within the
   caller's limit. *)
TypeOK ==
  /\ device \in [ids : Seq(Token), key : Key, whole : BOOLEAN]
  /\ record \in [ids : Seq(Token), key : Key]
  /\ epoch \in Nat /\ sessionEpoch \in Nat
  /\ phase \in {"idle", "prefill", "decode"}
  /\ prompt \in Seq(Token) /\ key \in Key /\ quota \in 0 .. MaxNew /\ out \in Seq(Token)
  /\ offset \in Nat

(* A record a later turn could still build on describes the device state to
   the token: after any mix of completed, cancelled and failed turns and direct
   resets, a non-empty record of the current epoch lists exactly the tokens the
   layers were fed, under the key they were computed for, and no layer missed
   any of them. *)
RecordDescribesDevice ==
  (record.ids # <<>> /\ sessionEpoch = epoch) =>
    device.whole /\ device.ids = record.ids /\ device.key = record.key

(* The engine never forwards a position outside the context it allocated: the
   prompt guard of generate and the token cap of generate_token_ids together
   keep the fed tokens below the capacity, reused ones included. *)
FitsContext == Len(device.ids) < Capacity

(* The session is sound: it has its types, its record describes the device, and
   it fits the context (V4Engine::generate, PrefixRecord). *)
SessionSound == TypeOK /\ RecordDescribesDevice /\ FitsContext

Cold == INSTANCE ColdTurns

(* A turn that reuses resident state is indistinguishable from a cold one: the
   tokens of every reply are ones the model gives for that prompt and key alone,
   whatever ran, was cancelled or failed on the device before. *)
EqualsColdRun == Cold!Spec
=============================================================================
