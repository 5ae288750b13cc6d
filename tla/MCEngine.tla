------------------------------ MODULE MCEngine ------------------------------
(***************************************************************************)
(* The engine's host-side bookkeeping, each part on its own instance: the  *)
(* session record, the text of a reply, and the routing statistics.  They  *)
(* share no state, so a behaviour is one part's and the others stay at an  *)
(* initial state.                                                          *)
(***************************************************************************)
EXTENDS PrefixReuse

CONSTANTS
  TextTokens, MaxTokens,                   \* StreamDecoder
  Models, MaxStream,                       \* RoutingReuse
  ProfilePrompts, Texts, Configs, MaxStarts \* RoutingProfile

VARIABLES
  part,                                                   \* the part that runs
  channel, held, deltas, reply, done,                     \* StreamDecoder
  model, stream, lastPos, fenwick, hist, observed, compulsory, \* RoutingReuse
  pc, config, counts, completed, failed, disk, starts     \* RoutingProfile

Text == INSTANCE StreamDecoder
Reuse == INSTANCE RoutingReuse
Profile == INSTANCE RoutingProfile WITH Prompts <- ProfilePrompts

textVars == <<channel, held, deltas, reply, done>>
reuseVars == <<model, stream, lastPos, fenwick, hist, observed, compulsory>>
profileVars == <<pc, config, counts, completed, failed, disk, starts>>
engineVars == <<part, vars, textVars, reuseVars, profileVars>>

EngineInit ==
  /\ part \in {"session", "text", "reuse", "profile"}
  /\ Init /\ Text!Init /\ Reuse!Init /\ Profile!Init
  /\ part = "session" \/ key = CHOOSE k \in Key : TRUE
  /\ part = "text" \/ channel = "content"
  /\ part = "reuse" \/ model = CHOOSE m \in Models : TRUE
  /\ part = "profile" \/ config = CHOOSE c \in Configs : TRUE

EngineNext ==
  \/ part = "session" /\ Next /\ UNCHANGED <<part, textVars, reuseVars, profileVars>>
  \/ part = "text" /\ Text!Next /\ UNCHANGED <<part, vars, reuseVars, profileVars>>
  \/ part = "reuse" /\ Reuse!Next /\ UNCHANGED <<part, vars, textVars, profileVars>>
  \/ part = "profile" /\ Profile!Next /\ UNCHANGED <<part, vars, textVars, reuseVars>>

EngineSpec == EngineInit /\ [][EngineNext]_engineVars

-----------------------------------------------------------------------------
(* A model whose answers depend on the key, the length and the last token, so
   that a wrong state shows in what is sampled. *)
MCDist(k, s) ==
  IF s = <<>> THEN {0} ELSE {(Len(s) + s[Len(s)] + k) % 2, 2}

(* Tokens that split two-, three- and four-byte code points everywhere, and
   bytes no code point may contain. *)
MCTokens ==
  {<<65>>, <<195>>, <<169>>, <<226, 130>>, <<237>>, <<240>>, <<159, 146>>, <<255, 65>>}

(* A hash layer's two experts beside a learned layer's, in a tree that never
   grows, and learned layers only in one that does. *)
MCModels == {[total |-> 4, capacity |-> 8, learned |-> {2, 3}],
             [total |-> 3, capacity |-> 3, learned |-> {0, 1, 2}]}

(* Of the session, only whether the epochs agree is ever read, and an idle
   engine reads nothing of the last turn. *)
MCView == <<part, device, record, sessionEpoch = epoch, phase,
            IF phase = "idle" THEN <<>> ELSE <<prompt, key, quota, out, offset>>,
            textVars, reuseVars, profileVars>>

-----------------------------------------------------------------------------
(* However the bytes of a reply are split into tokens, its deltas are what the
   whole text decodes to; only the channel being written holds bytes back, and
   only the beginning of a code point, and no delta returns to the reasoning
   channel once content has been sent (Dsv4StreamDecoder::push, Utf8Chunker). *)
TextReassembles ==
  Text!TypeOK /\ Text!HeldIsTruncated /\ Text!ReassemblesText /\ Text!ContentLast

(* Until the Fenwick tree grows, the cumulative distance histogram is the hit
   count of an ideal LRU cache at every capacity, and after it never more; where
   every layer counts, the offline replay's hits are the best any policy of that
   capacity achieves (RoutingReuseProfiler::grow, opt_hit_rate). *)
ReuseCurvesExact ==
  Reuse!TypeOK /\ Reuse!CurveIsLru /\ Reuse!NeverOverstated /\ Reuse!OptIsBest

(* Whatever died when, a published state counts each completed prompt once and
   lists none as both completed and failed, no report is ahead of the state it
   would be regenerated from, and every file was made under the configuration
   metadata.json names (RoutingProfileStore::checkpoint and its constructor). *)
CheckpointsConsistent ==
  Profile!TypeOK /\ Profile!CountedOnce /\ Profile!ReportsTrailState /\ Profile!OneConfiguration

(* A completed prompt stays in the published state with the text it was
   profiled with, through crashes and restarts (state.bin is loaded before
   it is written). *)
NothingForgotten == Profile!NothingForgotten
=============================================================================
