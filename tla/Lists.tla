-------------------------------- MODULE Lists --------------------------------
(***************************************************************************)
(* The list operations of the models: stacks and queues are sequences used *)
(* at both ends, LRU lists lose elements from the middle.                  *)
(***************************************************************************)
EXTENDS Integers, Sequences, FiniteSets, FiniteSetsExt, Functions

Last(s) == s[Len(s)]
Front(s) == SubSeq(s, 1, Len(s) - 1)
Cons(e, s) == <<e>> \o s
Reverse(s) == [i \in DOMAIN s |-> s[Len(s) + 1 - i]]
RemoveAt(s, i) == SubSeq(s, 1, i - 1) \o SubSeq(s, i + 1, Len(s))

(* s without the first occurrence of e, if it has one. *)
RemoveFirst(s, e) ==
  IF e \in Range(s) THEN RemoveAt(s, Min({i \in DOMAIN s : s[i] = e})) ELSE s

(* s is a list over S without repetition. *)
ListOver(s, S) == s \in Seq(S) /\ IsInjective(s)
=============================================================================
