------------------------------ MODULE ColdTurns ------------------------------
(***************************************************************************)
(* What a conversation turn promises its caller: the reply is drawn token  *)
(* by token from the model's answer to exactly this prompt, under exactly  *)
(* this computation key, followed by what the reply says already -- as if  *)
(* the device had started cold.  No state of the engine appears here.      *)
(***************************************************************************)
EXTENDS Integers, Sequences

CONSTANTS
  Token, Key,  \* token ids and computation keys
  Eos,         \* the tokenizer's end-of-sequence id
  Capacity,    \* context_capacity
  MaxNew,      \* bound: max_new_tokens of a request
  Dist(_, _)   \* the tokens the model may sample after a text, under a key

VARIABLES
  phase,       \* "idle", "prefill" or "decode"
  prompt, key, \* the request being served
  quota,       \* max_new_tokens, capped by the room left in the context
  out          \* the tokens sampled for the reply

Prompts == UNION {[1 .. n -> Token] : n \in 1 .. Capacity - 1}
Room(p, n) == IF n < Capacity - Len(p) THEN n ELSE Capacity - Len(p)

Init ==
  /\ phase = "idle" /\ quota = 0 /\ out = <<>>
  /\ prompt = <<>> /\ key \in Key

Ask ==
  /\ phase = "idle"
  /\ phase' = "prefill"
  /\ prompt' \in Prompts /\ key' \in Key /\ out' = <<>>
  /\ \E n \in 1 .. MaxNew : quota' = Room(prompt', n)

Write(t) ==
  /\ phase # "idle"
  /\ t \in Dist(key, prompt \o out)
  /\ out' = Append(out, t)
  /\ phase' = IF t = Eos \/ Len(out') >= quota THEN "idle" ELSE "decode"
  /\ UNCHANGED <<prompt, key, quota>>

(* A cancelled or failed turn keeps what was already sent. *)
Drop ==
  /\ phase # "idle"
  /\ phase' = "idle"
  /\ UNCHANGED <<prompt, key, quota, out>>

Next ==
  \/ Ask
  \/ \E t \in Token : Write(t)
  \/ Drop

vars == <<phase, prompt, key, quota, out>>
Spec == Init /\ [][Next]_vars
=============================================================================
