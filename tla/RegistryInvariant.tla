------------------------- MODULE RegistryInvariant --------------------------
(***************************************************************************)
(* ExpertRegistry, for every number of experts and slots: the types, and   *)
(* that no VRAM slot is lost or handed out twice.                          *)
(*                                                                         *)
(* VramAccounted is not inductive.  IInv adds to it what links the three   *)
(* records of a slot -- the slot table, the reservation table and the free *)
(* list -- to the entries of the catalog, and what an entry in each state  *)
(* of an operation looks like.  This module states it, proves what every   *)
(* action needs of lists, slots and counters, and treats the actions that  *)
(* end a transfer: its completion, its failure and the leases.             *)
(***************************************************************************)
EXTENDS ExpertRegistry, FiniteSetTheorems, TLAPS

-----------------------------------------------------------------------------
(* Lists without repetition: which elements one holds after an update. *)

(* The empty list. *)
LEMMA EmptyList ==
  ASSUME NEW S
  PROVE  ListOver(<<>>, S) /\ Range(<<>>) = {}
BY DEF ListOver, IsInjective, Range

(* An element of a list over S is in S. *)
LEMMA ListElements ==
  ASSUME NEW S, NEW s, ListOver(s, S)
  PROVE  Range(s) \subseteq S
BY DEF ListOver, Range

(* Appending a new element. *)
LEMMA AppendList ==
  ASSUME NEW S, NEW s, ListOver(s, S), NEW e \in S, e \notin Range(s)
  PROVE  ListOver(Append(s, e), S) /\ Range(Append(s, e)) = Range(s) \cup {e}
<1> DEFINE t == Append(s, e)
<1>1. s \in Seq(S) /\ t \in Seq(S) /\ Len(t) = Len(s) + 1 /\ t[Len(s) + 1] = e
      /\ \A i \in 1 .. Len(s) : t[i] = s[i]
  BY DEF ListOver
<1>2. DOMAIN s = 1 .. Len(s) /\ DOMAIN t = 1 .. Len(s) + 1 /\ Len(s) \in Nat
  BY <1>1
<1>3. IsInjective(t)
  BY <1>1, <1>2 DEF ListOver, IsInjective, Range
<1>4. Range(t) = Range(s) \cup {e}
  BY <1>1, <1>2 DEF Range
<1> QED BY <1>1, <1>3, <1>4 DEF ListOver

(* Taking the last element off. *)
LEMMA FrontList ==
  ASSUME NEW S, NEW s, ListOver(s, S), s # <<>>
  PROVE  /\ Last(s) \in Range(s) /\ Last(s) \in S
         /\ ListOver(Front(s), S) /\ Range(Front(s)) = Range(s) \ {Last(s)}
<1> DEFINE t == SubSeq(s, 1, Len(s) - 1)
<1>1. s \in Seq(S) /\ Len(s) \in Nat \ {0} /\ DOMAIN s = 1 .. Len(s)
  BY DEF ListOver
<1>2. t \in Seq(S) /\ Len(t) = Len(s) - 1 /\ DOMAIN t = 1 .. Len(s) - 1
      /\ \A i \in 1 .. Len(s) - 1 : t[i] = s[i]
  BY <1>1
<1> HIDE DEF t
<1>3. IsInjective(t)
  BY <1>1, <1>2 DEF ListOver, IsInjective
<1>4. Range(t) = Range(s) \ {s[Len(s)]}
  <2>1. Range(t) \subseteq Range(s) \ {s[Len(s)]}
    <3> SUFFICES ASSUME NEW i \in 1 .. Len(s) - 1
                 PROVE  t[i] \in Range(s) /\ t[i] # s[Len(s)]
      BY <1>2 DEF Range
    <3>00. \A n \in Nat \ {0} : \A k \in 1 .. n - 1 : k \in 1 .. n /\ n \in 1 .. n /\ k # n
      OBVIOUS
    <3>0. i \in 1 .. Len(s) /\ Len(s) \in 1 .. Len(s) /\ i # Len(s)
      BY <1>1, <3>00, Zenon
    <3>1. i \in DOMAIN s /\ Len(s) \in DOMAIN s /\ i # Len(s) /\ t[i] = s[i]
      BY <1>1, <1>2, <3>0, Zenon
    <3>2. t[i] \in Range(s)
      BY <3>1 DEF Range
    <3>3. t[i] # s[Len(s)]
      BY <3>1 DEF ListOver, IsInjective
    <3> QED BY <3>2, <3>3
  <2>2. \A i \in 1 .. Len(s) : s[i] # s[Len(s)] => i \in 1 .. Len(s) - 1
    BY <1>1
  <2>3. Range(s) \ {s[Len(s)]} \subseteq Range(t)
    BY <1>1, <1>2, <2>2 DEF Range
  <2> QED BY <2>1, <2>3
<1>5. s[Len(s)] \in Range(s) /\ s[Len(s)] \in S
  BY <1>1 DEF Range
<1> QED BY <1>2, <1>3, <1>4, <1>5 DEF ListOver, Front, Last, t

(* Putting a new element in front. *)
LEMMA ConsList ==
  ASSUME NEW S, NEW s, ListOver(s, S), NEW e \in S, e \notin Range(s)
  PROVE  ListOver(Cons(e, s), S) /\ Range(Cons(e, s)) = Range(s) \cup {e}
<1> DEFINE t == <<e>> \o s
<1>1. s \in Seq(S) /\ Len(s) \in Nat /\ DOMAIN s = 1 .. Len(s)
  BY DEF ListOver
<1>2. t \in Seq(S) /\ Len(t) = Len(s) + 1 /\ DOMAIN t = 1 .. Len(s) + 1 /\ t[1] = e
      /\ \A i \in 1 .. Len(s) + 1 : i > 1 => t[i] = s[i - 1]
  BY <1>1
<1> HIDE DEF t
<1>3. \A i \in DOMAIN t : i > 1 => i - 1 \in DOMAIN s /\ t[i] = s[i - 1]
  BY <1>1, <1>2
<1>4. \A i \in DOMAIN s : i + 1 \in DOMAIN t /\ t[i + 1] = s[i] /\ s[i] # e
  BY <1>1, <1>2 DEF Range
<1>5. ASSUME NEW a \in DOMAIN t, NEW b \in DOMAIN t, t[a] = t[b]
      PROVE  a = b
  <2>1. CASE a = 1 /\ b = 1
    BY <2>1
  <2>2. CASE a = 1 /\ b > 1
    BY <2>2, <1>2, <1>3, <1>4, <1>5
  <2>3. CASE a > 1 /\ b = 1
    BY <2>3, <1>2, <1>3, <1>4, <1>5
  <2>4. CASE a > 1 /\ b > 1
    BY <2>4, <1>1, <1>2, <1>3, <1>5 DEF ListOver, IsInjective
  <2> QED BY <1>1, <1>2, <2>1, <2>2, <2>3, <2>4
<1>6. Range(t) \subseteq Range(s) \cup {e}
  <2> SUFFICES ASSUME NEW i \in DOMAIN t
               PROVE  t[i] \in Range(s) \cup {e}
    BY DEF Range
  <2>1. CASE i = 1
    BY <2>1, <1>2
  <2>2. CASE i > 1
    BY <2>2, <1>3 DEF Range
  <2> QED BY <1>1, <1>2, <2>1, <2>2
<1>7. Range(s) \subseteq Range(t)
  BY <1>4 DEF Range
<1>8. e \in Range(t)
  BY <1>1, <1>2 DEF Range
<1>9. Range(t) = Range(s) \cup {e}
  BY <1>6, <1>7, <1>8
<1> QED BY <1>2, <1>5, <1>9 DEF ListOver, Cons, t, IsInjective

(* Taking an element out. *)
LEMMA RemoveList ==
  ASSUME NEW S, NEW s, ListOver(s, S), NEW e
  PROVE  ListOver(RemoveFirst(s, e), S) /\ Range(RemoveFirst(s, e)) = Range(s) \ {e}
<1>1. s \in Seq(S) /\ Len(s) \in Nat /\ DOMAIN s = 1 .. Len(s)
  BY DEF ListOver
<1>2. CASE e \notin Range(s)
  BY <1>2 DEF RemoveFirst
<1>3. CASE e \in Range(s)
  <2>1. PICK p \in 1 .. Len(s) : s[p] = e
    BY <1>1, <1>3 DEF Range
  <2>2. {i \in DOMAIN s : s[i] = e} = {p}
    BY <1>1, <2>1 DEF ListOver, IsInjective
  <2>3. Min({i \in DOMAIN s : s[i] = e}) = p
    BY <2>1, <2>2 DEF Min
  <2> DEFINE x == SubSeq(s, 1, p - 1)
             y == SubSeq(s, p + 1, Len(s))
             t == x \o y
  <2>4. RemoveFirst(s, e) = t
    BY <1>3, <2>3, Zenon DEF RemoveFirst, RemoveAt
  <2>5. x \in Seq(S) /\ Len(x) = p - 1 /\ \A i \in 1 .. p - 1 : x[i] = s[i]
    BY <1>1, <2>1
  <2>6. y \in Seq(S) /\ Len(y) = Len(s) - p /\ \A i \in 1 .. Len(s) - p : y[i] = s[p + i]
    <3>1. p + 1 \in Int /\ Len(s) \in Int /\ \A i \in p + 1 .. Len(s) : s[i] \in S
      BY <1>1
    <3>2. /\ y \in Seq(S)
          /\ Len(y) = IF p + 1 <= Len(s) THEN Len(s) - (p + 1) + 1 ELSE 0
          /\ \A i \in 1 .. Len(s) - (p + 1) + 1 : y[i] = s[(p + 1) + i - 1]
      BY <3>1, SMTT(30)
    <3> HIDE DEF y
    <3>3. ASSUME NEW n \in Int, NEW m \in Int, m <= n
          PROVE  /\ (IF m + 1 <= n THEN n - (m + 1) + 1 ELSE 0) = n - m
                 /\ n - (m + 1) + 1 = n - m
                 /\ \A i \in Int : (m + 1) + i - 1 = m + i
      BY <3>3
    <3>4. Len(y) = Len(s) - p
      <4>1. p \in Int /\ Len(s) \in Int /\ p <= Len(s)
        BY <1>1
      <4> QED BY <4>1, <3>2, <3>3, Zenon
    <3>5. \A i \in 1 .. Len(s) - p : y[i] = s[p + i]
      <4>1. Len(s) - (p + 1) + 1 = Len(s) - p
        BY <1>1
      <4>2. \A i \in 1 .. Len(s) - p : (p + 1) + i - 1 = p + i
        BY <1>1
      <4>3. \A i \in 1 .. Len(s) - p : y[i] = s[(p + 1) + i - 1]
        BY <4>1, <3>2, Zenon
      <4> QED BY <4>2, <4>3, Zenon
    <3> QED BY <3>2, <3>4, <3>5
  <2> HIDE DEF x, y
  <2>7. /\ t \in Seq(S) /\ Len(t) = Len(x) + Len(y)
        /\ \A i \in 1 .. Len(x) + Len(y) : t[i] = IF i <= Len(x) THEN x[i] ELSE y[i - Len(x)]
    <3>1. x \in Seq(S) /\ y \in Seq(S)
      BY <2>5, <2>6
    <3>2. x \o y \in Seq(S) /\ Len(x \o y) = Len(x) + Len(y)
      BY <3>1
    <3>3. ASSUME NEW i \in 1 .. Len(x) + Len(y)
          PROVE  (x \o y)[i] = IF i <= Len(x) THEN x[i] ELSE y[i - Len(x)]
      BY <3>1
    <3> QED BY <3>2, <3>3, Zenon
  <2> HIDE DEF t
  <2>71. \A i \in 1 .. Len(s) - 1 : t[i] = IF i < p THEN s[i] ELSE s[i + 1]
    <3> SUFFICES ASSUME NEW i \in 1 .. Len(s) - 1
                 PROVE  t[i] = IF i < p THEN s[i] ELSE s[i + 1]
      OBVIOUS
    <3>0. Len(x) + Len(y) = Len(s) - 1 /\ Len(x) = p - 1
      BY <1>1, <2>5, <2>6
    <3>00. t[i] = IF i <= p - 1 THEN x[i] ELSE y[i - (p - 1)]
      BY <3>0, <2>7
    <3>1. CASE i < p
      <4>1. i <= p - 1 /\ i \in 1 .. p - 1
        BY <3>1, <1>1
      <4> QED BY <3>1, <3>00, <4>1, <2>5
    <3>2. CASE i >= p
      <4>1. t[i] = y[i - (p - 1)] /\ i - (p - 1) \in 1 .. Len(s) - p
        BY <3>2, <1>1, <3>00
      <4>2. p + (i - (p - 1)) = i + 1
        BY <1>1
      <4> QED BY <3>2, <4>1, <4>2, <1>1, <2>6
    <3> QED BY <1>1, <3>1, <3>2
  <2>8. DOMAIN t = 1 .. Len(s) - 1
    BY <1>1, <2>5, <2>6, <2>7
  <2>9. IsInjective(t)
    <3> SUFFICES ASSUME NEW i \in 1 .. Len(s) - 1, NEW j \in 1 .. Len(s) - 1, t[i] = t[j]
                 PROVE  i = j
      BY <2>8 DEF IsInjective
    <3> DEFINE a == IF i < p THEN i ELSE i + 1
               b == IF j < p THEN j ELSE j + 1
    <3>1. t[i] = s[a] /\ t[j] = s[b]
      BY <2>71, Zenon
    <3>2. a \in 1 .. Len(s) /\ b \in 1 .. Len(s)
      BY <1>1
    <3> HIDE DEF a, b
    <3>3. a = b
      BY <1>1, <2>1, <3>1, <3>2, Zenon DEF ListOver, IsInjective
    <3> QED BY <1>1, <3>3 DEF a, b
  <2>10. Range(t) \subseteq Range(s) \ {e}
    <3> SUFFICES ASSUME NEW i \in 1 .. Len(s) - 1
                 PROVE  t[i] \in Range(s) /\ t[i] # s[p]
      BY <2>1, <2>8 DEF Range
    <3> DEFINE a == IF i < p THEN i ELSE i + 1
    <3>1. a \in DOMAIN s /\ a # p /\ p \in DOMAIN s
      BY <1>1
    <3>2. t[i] = s[a]
      BY <2>71
    <3> HIDE DEF a
    <3>3. t[i] \in Range(s)
      BY <3>1, <3>2 DEF Range
    <3>4. t[i] # s[p]
      BY <3>1, <3>2 DEF ListOver, IsInjective
    <3> QED BY <3>3, <3>4
  <2>11. \A i \in DOMAIN s : s[i] # e => \E j \in DOMAIN t : t[j] = s[i]
    <3> SUFFICES ASSUME NEW i \in DOMAIN s, s[i] # e
                 PROVE  \E j \in DOMAIN t : t[j] = s[i]
      OBVIOUS
    <3>1. CASE i < p
      BY <3>1, <1>1, <2>1, <2>71, <2>8
    <3>2. CASE i > p
      <4>1. i - 1 \in DOMAIN t /\ t[i - 1] = s[i]
        BY <3>2, <1>1, <2>1, <2>71, <2>8
      <4> QED BY <4>1
    <3> QED BY <1>1, <2>1, <3>1, <3>2
  <2>12. Range(t) = Range(s) \ {e}
    BY <2>10, <2>11 DEF Range
  <2> QED BY <2>4, <2>7, <2>9, <2>12 DEF ListOver
<1> QED BY <1>2, <1>3

(* Two lists joined, named so that a proof can leave it unexpanded. *)
Joined(s, t) == s \o t

(* Joining two lists that share no element. *)
LEMMA ConcatList ==
  ASSUME NEW S, NEW s, NEW t, ListOver(s, S), ListOver(t, S), Range(s) \cap Range(t) = {}
  PROVE  ListOver(Joined(s, t), S) /\ Range(Joined(s, t)) = Range(s) \cup Range(t)
<1> DEFINE u == s \o t
<1>1. /\ s \in Seq(S) /\ Len(s) \in Nat /\ DOMAIN s = 1 .. Len(s)
      /\ t \in Seq(S) /\ Len(t) \in Nat /\ DOMAIN t = 1 .. Len(t)
  BY DEF ListOver
<1>2. u \in Seq(S) /\ Len(u) = Len(s) + Len(t) /\ DOMAIN u = 1 .. Len(s) + Len(t)
      /\ \A i \in 1 .. Len(s) + Len(t) : u[i] = IF i <= Len(s) THEN s[i] ELSE t[i - Len(s)]
  BY <1>1
<1> HIDE DEF u
<1>3. \A i \in DOMAIN u : \/ i \in DOMAIN s /\ u[i] = s[i]
                          \/ i > Len(s) /\ i - Len(s) \in DOMAIN t /\ u[i] = t[i - Len(s)]
  BY <1>1, <1>2
<1>4. \A i \in DOMAIN s : i \in DOMAIN u /\ u[i] = s[i]
  BY <1>1, <1>2
<1>5. \A i \in DOMAIN t : i + Len(s) \in DOMAIN u /\ u[i + Len(s)] = t[i]
  BY <1>1, <1>2
<1>6. \A i \in DOMAIN s, j \in DOMAIN t : s[i] # t[j]
  BY DEF Range
<1>7. ASSUME NEW a \in DOMAIN u, NEW b \in DOMAIN u, u[a] = u[b]
      PROVE  a = b
  <2>1. CASE a \in DOMAIN s /\ b \in DOMAIN s
    BY <2>1, <1>4, <1>7 DEF ListOver, IsInjective
  <2>2. CASE a > Len(s) /\ b > Len(s)
    BY <2>2, <1>1, <1>2, <1>3, <1>7 DEF ListOver, IsInjective
  <2>3. CASE a \in DOMAIN s /\ b > Len(s)
    BY <2>3, <1>1, <1>2, <1>3, <1>6, <1>7
  <2>4. CASE a > Len(s) /\ b \in DOMAIN s
    BY <2>4, <1>1, <1>2, <1>3, <1>6, <1>7
  <2> QED BY <1>3, <2>1, <2>2, <2>3, <2>4
<1>8. Range(u) \subseteq Range(s) \cup Range(t)
  BY <1>3 DEF Range
<1>9. Range(s) \subseteq Range(u)
  BY <1>4 DEF Range
<1>10. Range(t) \subseteq Range(u)
  BY <1>5 DEF Range
<1>11. Range(u) = Range(s) \cup Range(t)
  BY <1>8, <1>9, <1>10
<1>12. ListOver(u, S)
  BY <1>2, <1>7 DEF ListOver, IsInjective
<1> QED BY <1>11, <1>12 DEF u, Joined

(* A prefix. *)
LEMMA PrefixList ==
  ASSUME NEW S, NEW s, ListOver(s, S), NEW k \in 0 .. Len(s)
  PROVE  /\ ListOver(SubSeq(s, 1, k), S)
         /\ Range(SubSeq(s, 1, k)) = {s[i] : i \in 1 .. k}
<1> DEFINE t == SubSeq(s, 1, k)
<1>1. s \in Seq(S) /\ Len(s) \in Nat /\ DOMAIN s = 1 .. Len(s)
  BY DEF ListOver
<1>2. t \in Seq(S) /\ DOMAIN t = 1 .. k /\ \A i \in 1 .. k : t[i] = s[i]
  BY <1>1
<1> HIDE DEF t
<1>3. IsInjective(t)
  BY <1>1, <1>2 DEF ListOver, IsInjective
<1>4. Range(t) = {s[i] : i \in 1 .. k}
  BY <1>2 DEF Range
<1> QED BY <1>2, <1>3, <1>4 DEF ListOver, t

(* A function on 1 .. k with distinct values in S is a list over S. *)
LEMMA FunctionList ==
  ASSUME NEW S, NEW k \in Nat, NEW f \in [1 .. k -> S],
         \A i, j \in 1 .. k : f[i] = f[j] => i = j
  PROVE  ListOver(f, S) /\ Range(f) = {f[i] : i \in 1 .. k}
<1>1. f \in Seq(S)
  OBVIOUS
<1> QED BY <1>1 DEF ListOver, IsInjective, Range

(* The elements of a list in the opposite order. *)
LEMMA ReverseList ==
  ASSUME NEW S, NEW s, ListOver(s, S)
  PROVE  ListOver(Reverse(s), S) /\ Range(Reverse(s)) = Range(s)
<1> DEFINE n == Len(s)
           t == Reverse(s)
<1>1. s \in Seq(S) /\ n \in Nat /\ DOMAIN s = 1 .. n /\ \A i \in 1 .. n : s[i] \in S
  BY DEF ListOver
<1>2. t = [i \in 1 .. n |-> s[(n - i) + 1]]
  BY DEF Reverse
<1> HIDE DEF n, t
<1>3. \A i \in 1 .. n : (n - i) + 1 \in 1 .. n /\ (n - ((n - i) + 1)) + 1 = i
  BY <1>1
<1>4. t \in [1 .. n -> S] /\ \A i \in 1 .. n : t[i] = s[(n - i) + 1]
  BY <1>1, <1>2, <1>3
<1>5. \A i, j \in 1 .. n : t[i] = t[j] => i = j
  BY <1>1, <1>3, <1>4 DEF ListOver, IsInjective
<1>6. ListOver(t, S) /\ Range(t) = {t[i] : i \in 1 .. n}
  <2>1. t \in Seq(S) /\ DOMAIN t = 1 .. n
    BY <1>1, <1>4
  <2> QED BY <2>1, <1>5 DEF ListOver, IsInjective, Range
<1>7. Range(t) \subseteq Range(s)
  BY <1>1, <1>3, <1>4, <1>6 DEF Range
<1>8. \A i \in 1 .. n : t[(n - i) + 1] = s[i]
  BY <1>3, <1>4
<1>9. Range(s) \subseteq Range(t)
  <2>1. \A i \in DOMAIN s : s[i] \in {t[j] : j \in 1 .. n}
    BY <1>1, <1>3, <1>8
  <2> QED BY <1>6, <2>1 DEF Range
<1> QED BY <1>6, <1>7, <1>9 DEF t

(* An enumeration of a set of elements of S is a list over S. *)
LEMMA BijectionList ==
  ASSUME NEW S, NEW K, K \subseteq S, NEW n \in Nat, NEW q \in Bijection(1 .. n, K)
  PROVE  ListOver(q, S) /\ Range(q) = K
<1>1. q \in [1 .. n -> K] /\ (\A i, j \in 1 .. n : q[i] = q[j] => i = j)
  BY DEF Bijection, Injection, IsInjective
<1>2. q \in [1 .. n -> S]
  BY <1>1
<1>3. \A x \in K : \E i \in 1 .. n : q[i] = x
  BY DEF Bijection, Surjection
<1>4. ListOver(q, S) /\ Range(q) = {q[i] : i \in 1 .. n}
  BY <1>1, <1>2, FunctionList
<1> QED BY <1>1, <1>3, <1>4

-----------------------------------------------------------------------------
(* Warm's LRU list holds idle Warm residents, each once. *)
WarmLruInv ==
  /\ ListOver(warmLru, Expert)
  /\ \A e \in Expert : e \in Range(warmLru) => owner[e] = "WARM" /\ operation[e] = "NONE"

(* So does Hot's; the shadow list holds exactly the shadow residents. *)
LruInv ==
  /\ WarmLruInv
  /\ ListOver(hotLru, Expert) /\ ListOver(shadowLru, Expert)
  /\ \A e \in Expert : e \in Range(hotLru) => owner[e] = "HOT" /\ operation[e] = "NONE"
  /\ \A e \in Expert : e \in Range(shadowLru) <=> shadowSlot[e] # NoSlot

(* What the fields of one catalog entry say together. *)
EntryOK(e) ==
  /\ operation[e] = "NONE" =>
       pendingSlot[e] = NoSlot /\ gpuTransfer[e] = "NONE" /\ ~warmShadow[e]
  /\ operation[e] = "DEMOTION" =>
       owner[e] = "HOT" /\ pendingSlot[e] = NoSlot /\ ~warmShadow[e] /\ gpuTransfer[e] # "H2D"
  /\ IsIncoming(e) => gpuTransfer[e] = "H2D"
  /\ operation[e] = "IO" => owner[e] = "COLD" /\ ~warmShadow[e]
  /\ operation[e] = "PROMOTION" => owner[e] = "WARM"
  /\ operation[e] # "NONE" => operationId[e] # 0
  /\ operationId[e] < nextOp
  /\ owner[e] = "HOT" => slotIdx[e] \in VSlot
  /\ owner[e] = "WARM" => slotIdx[e] \in HSlot
  /\ owner[e] = "COLD" => slotIdx[e] = NoSlot
  /\ shadowSlot[e] # NoSlot => owner[e] = "WARM" /\ operation[e] = "NONE" /\ frozen
  /\ warmShadow[e] => frozen

EntryInv == (\A e \in Expert : EntryOK(e)) /\ (stream => frozen)

(* A VRAM slot is free exactly when it is empty and not reserved. *)
FreeInv ==
  /\ ListOver(freeVram, VSlot)
  /\ \A s \in VSlot : s \in Range(freeVram) <=> vramSlots[s] = NoExpert /\ vramRes[s] = 0

(* The slot table lists exactly the Hot and the shadow residents. *)
HolderInv == \A s \in VSlot, e \in Expert : vramSlots[s] = e <=> Holds(e, s)

(* The reservation table lists exactly the incoming experts' destinations, and
   an operation has one incoming expert. *)
ClaimInv ==
  /\ \A s \in VSlot : vramRes[s] # 0 =>
       \E e \in Expert : Claims(e, s) /\ operationId[e] = vramRes[s]
  /\ \A e \in Expert : IsIncoming(e) /\ pendingSlot[e] # NoSlot =>
       vramRes[pendingSlot[e]] = operationId[e]
  /\ \A e, f \in Expert :
       IsIncoming(e) /\ IsIncoming(f) /\ operationId[e] = operationId[f] => e = f

(* A resident in a reserved slot is that operation's victim; a shadow copy has
   no victim. *)
VictimInv ==
  /\ \A e \in Expert : operation[e] = "DEMOTION" => vramRes[slotIdx[e]] = operationId[e]
  /\ \A s \in VSlot : vramRes[s] # 0 /\ vramSlots[s] # NoExpert =>
       operation[vramSlots[s]] = "DEMOTION"
  /\ \A e \in Expert : warmShadow[e] /\ pendingSlot[e] # NoSlot =>
       vramSlots[pendingSlot[e]] = NoExpert

VramInv == FreeInv /\ HolderInv /\ ClaimInv /\ VictimInv

(* pending_demotion_count is the number of D2H copies in flight. *)
CountInv == demotions = Cardinality({v \in Expert : gpuTransfer[v] = "D2H"})

IInv == TypeOK /\ LruInv /\ EntryInv /\ VramInv /\ CountInv

-----------------------------------------------------------------------------
(* The list operators of the registry. *)

(* A touched entry is in its list, once. *)
LEMMA TouchList ==
  ASSUME NEW s, ListOver(s, Expert), NEW e \in Expert
  PROVE  ListOver(Touch(s, e), Expert) /\ Range(Touch(s, e)) = Range(s) \cup {e}
<1>1. ListOver(RemoveFirst(s, e), Expert) /\ Range(RemoveFirst(s, e)) = Range(s) \ {e}
  BY RemoveList
<1>2. e \notin Range(RemoveFirst(s, e))
  BY <1>1
<1>3. /\ ListOver(Cons(e, RemoveFirst(s, e)), Expert)
      /\ Range(Cons(e, RemoveFirst(s, e))) = Range(RemoveFirst(s, e)) \cup {e}
  BY <1>1, <1>2, ConsList
<1> QED BY <1>1, <1>3 DEF Touch

(* push_lru_front never lists an entry twice. *)
LEMMA PushFrontList ==
  ASSUME NEW s, ListOver(s, Expert), NEW e \in Expert
  PROVE  ListOver(PushFront(s, e), Expert) /\ Range(PushFront(s, e)) = Range(s) \cup {e}
<1>1. CASE e \in Range(s)
  BY <1>1 DEF PushFront
<1>2. CASE e \notin Range(s)
  BY <1>2, ConsList DEF PushFront
<1> QED BY <1>1, <1>2

(* A selected victim is listed and eligible. *)
LEMMA OldestListed ==
  ASSUME NEW s, NEW S, NEW v \in Oldest(s, S)
  PROVE  v \in Range(s) /\ v \in S
BY DEF Oldest, Range

(* An operation that only counts leases keeps the invariant. *)
LEMMA LeaseStep ==
  ASSUME IInv, leases' \in [Expert -> Nat],
         UNCHANGED <<owner, slotIdx, pendingSlot, operation, operationId, gpuTransfer,
                     shadowSlot, warmShadow, marked, vramVars, hostVars, lruVars,
                     nextOp, demotions, modeVars>>
  PROVE  IInv'
<1>1. TypeOK'
  BY Zenon DEF IInv, TypeOK, vramVars, hostVars, lruVars, modeVars
<1>2. LruInv' /\ CountInv'
  BY DEF IInv, LruInv, WarmLruInv, CountInv, lruVars
<1>3. EntryInv'
  BY DEF IInv, EntryInv, EntryOK, IsIncoming, modeVars
<1>4. VramInv'
  BY DEF IInv, VramInv, FreeInv, HolderInv, ClaimInv, VictimInv, IsIncoming, Holds, Claims, vramVars
<1> QED BY <1>1, <1>2, <1>3, <1>4 DEF IInv

(* A resident that gives its VRAM slot up: a Hot one becomes Cold, a shadow
   goes back to Warm alone. *)
Released(e) ==
  /\ operation[e] = "NONE"
  /\ \/ /\ owner[e] = "HOT" /\ owner'[e] = "COLD" /\ slotIdx'[e] = NoSlot
        /\ shadowSlot'[e] = shadowSlot[e]
     \/ owner'[e] = owner[e] /\ slotIdx'[e] = slotIdx[e] /\ shadowSlot'[e] = NoSlot

Stays(e) == owner'[e] = owner[e] /\ slotIdx'[e] = slotIdx[e] /\ shadowSlot'[e] = shadowSlot[e]

(* The fields of an entry that describe its operation. *)
SameOperation(e) ==
  /\ operation'[e] = operation[e] /\ operationId'[e] = operationId[e]
  /\ gpuTransfer'[e] = gpuTransfer[e] /\ pendingSlot'[e] = pendingSlot[e]
  /\ warmShadow'[e] = warmShadow[e]

(* An entry that stays, or that an idle resident leaves its tier with, is still
   well formed. *)
LEMMA EntryFrame ==
  ASSUME NEW e \in Expert, EntryOK(e), operationId[e] \in Nat, nextOp \in Nat,
         nextOp' \in Nat, nextOp <= nextOp', frozen' = frozen,
         SameOperation(e), Stays(e) \/ Released(e)
  PROVE  EntryOK(e)'
<1>1. operationId'[e] < nextOp'
  <2>1. operationId[e] < nextOp
    BY ONLY EntryOK(e) DEF EntryOK
  <2>2. operationId'[e] = operationId[e]
    BY ONLY SameOperation(e) DEF SameOperation
  <2> QED BY ONLY <2>1, <2>2, operationId[e] \in Nat, nextOp \in Nat, nextOp' \in Nat, nextOp <= nextOp'
<1>2. CASE Stays(e)
  BY <1>1, <1>2, Zenon DEF EntryOK, IsIncoming, Stays, SameOperation
<1>3. CASE Released(e)
  BY <1>1, <1>3, Zenon DEF EntryOK, IsIncoming, Released, SameOperation
<1> QED BY <1>2, <1>3

(* The slot of an idle resident is its own and is not reserved. *)
LEMMA IdleSlot ==
  ASSUME IInv, NEW e \in Expert, NEW s \in VSlot, operation[e] = "NONE", Holds(e, s)
  PROVE  vramSlots[s] = e /\ vramRes[s] = 0 /\ e # NoExpert
<1>1. vramSlots[s] = e
  BY DEF IInv, VramInv, HolderInv
<1>2. e # NoExpert
  BY ExpertAssumption DEF NoExpert
<1> QED BY <1>1, <1>2 DEF IInv, VramInv, VictimInv

(* When the residents in R leave the slot table and give their slots up, the
   table still lists exactly the residents. *)
LEMMA ReleaseHolders ==
  ASSUME IInv, NEW R \in SUBSET Expert,
         vramSlots' \in [VSlot -> Expert \cup {NoExpert}],
         \A s \in VSlot : vramSlots'[s] = IF vramSlots[s] \in R THEN NoExpert ELSE vramSlots[s],
         \A e \in R : owner'[e] # "HOT" /\ shadowSlot'[e] = NoSlot,
         \A e \in Expert \ R : Stays(e)
  PROVE  HolderInv'
<1> SUFFICES ASSUME NEW s \in VSlot, NEW e \in Expert
             PROVE  (vramSlots[s] = e <=> Holds(e, s))'
  BY DEF HolderInv
<1>1. vramSlots[s] = e <=> Holds(e, s)
  BY DEF IInv, VramInv, HolderInv
<1>2. e # NoExpert /\ s # NoSlot
  BY ExpertAssumption DEF NoExpert, VSlot, NoSlot
<1>3. CASE e \in R
  BY <1>2, <1>3 DEF Holds
<1>4. CASE e \notin R
  BY <1>1, <1>2, <1>4 DEF Holds, Stays
<1> QED BY <1>3, <1>4

(* The number of copies in flight when v's copy starts or ends. *)
LEMMA DemotionCount ==
  ASSUME IInv, NEW v \in Expert
  PROVE  LET d2h == {e \in Expert : gpuTransfer[e] = "D2H"} IN
         /\ v \notin d2h => Cardinality(d2h \cup {v}) = demotions + 1
         /\ v \in d2h => Cardinality(d2h \ {v}) = demotions - 1 /\ demotions - 1 \in Nat
<1> DEFINE d2h == {e \in Expert : gpuTransfer[e] = "D2H"}
<1>1. IsFiniteSet(d2h) /\ demotions = Cardinality(d2h)
  BY ExpertAssumption, FS_Subset DEF IInv, CountInv
<1> HIDE DEF d2h
<1>2. v \notin d2h => Cardinality(d2h \cup {v}) = demotions + 1
  BY <1>1, FS_AddElement
<1>3. v \in d2h => Cardinality(d2h \ {v}) = demotions - 1
  BY <1>1, FS_RemoveElement
<1>4. IsFiniteSet(d2h \ {v})
  BY <1>1, FS_RemoveElement
<1>5. Cardinality(d2h \ {v}) \in Nat
  BY <1>4, FS_CardinalityType
<1> QED BY <1>2, <1>3, <1>5 DEF d2h

(* The part of the invariant that an LRU order does not touch. *)
LEMMA SameEntries ==
  ASSUME IInv,
         UNCHANGED <<owner, slotIdx, pendingSlot, operation, operationId, gpuTransfer,
                     shadowSlot, warmShadow, vramVars, nextOp, demotions, frozen>>,
         stream' => stream
  PROVE  EntryInv' /\ VramInv' /\ CountInv'
<1>1. CountInv'
  BY DEF IInv, CountInv
<1>2. EntryInv'
  BY DEF IInv, EntryInv, EntryOK, IsIncoming
<1>3. VramInv'
  BY DEF IInv, VramInv, FreeInv, HolderInv, ClaimInv, VictimInv, IsIncoming, Holds, Claims, vramVars
<1> QED BY <1>1, <1>2, <1>3

-----------------------------------------------------------------------------
(* Lists rebuilt from a set. *)

(* Ascending lists its set, once. *)
LEMMA AscendingList ==
  ASSUME NEW S, IsFiniteSet(S), NEW K \in SUBSET S, NEW q \in Ascending(K)
  PROVE  /\ ListOver(q, S) /\ Range(q) = K
         /\ Cardinality(K) \in Nat /\ q \in Bijection(1 .. Cardinality(K), K)
<1>1. Cardinality(K) \in Nat
  BY FS_Subset, FS_CardinalityType
<1>2. q \in Bijection(1 .. Cardinality(K), K)
  BY DEF Ascending
<1> QED BY <1>1, <1>2, BijectionList

(* A pruned list holds what is left, once. *)
LEMMA PrunedList ==
  ASSUME NEW lru, ListOver(lru, Expert), NEW S, NEW q \in Pruned(lru, S)
  PROVE  ListOver(q, Expert) /\ Range(q) = Range(lru) \ S
<1> DEFINE K == Range(lru) \ S
<1>1. K \in SUBSET Expert
  BY ListElements
<1>2. q \in Bijection(1 .. Cardinality(K), K)
  BY DEF Pruned
<1> HIDE DEF K
<1>3. Cardinality(K) \in Nat
  BY <1>1, ExpertAssumption, FS_Subset, FS_CardinalityType, Zenon
<1>4. ListOver(q, Expert) /\ Range(q) = K
  BY <1>1, <1>2, <1>3, BijectionList
<1> QED BY <1>4 DEF K

-----------------------------------------------------------------------------
(* What starting a transfer does to the catalog. *)

(* What a transfer with no victim does to the entries. *)
Launched(g) ==
  /\ IsIncoming(g)' /\ gpuTransfer'[g] = "H2D" /\ operationId'[g] = nextOp
  /\ operation'[g] = "IO" => owner[g] = "COLD" /\ ~warmShadow'[g]
  /\ operation'[g] = "PROMOTION" => owner[g] = "WARM"
  /\ warmShadow'[g] => frozen
  /\ operation[g] = "NONE" /\ owner[g] # "HOT" /\ shadowSlot[g] = NoSlot
  /\ \A e \in Expert \ {g} : SameOperation(e)
  /\ nextOp' = nextOp + 1
  /\ UNCHANGED <<frozen, stream, alloc>>

(* LaunchAlone does that: only the entry of the expert it brings in changes. *)
LEMMA LaunchAloneEntry ==
  ASSUME IInv, NEW g \in Expert, NEW s \in VSlot \cup {NoSlot}, LaunchAlone(g, s)
  PROVE  Launched(g)
BY Zenon DEF IInv, TypeOK, EntryInv, EntryOK, LaunchAlone, Launch, NeedsTransfer, Shadowing, IsIncoming,
       modeVars, Tier, Launched, SameOperation

(* What Demote does to the entries. *)
Demoted(g, v, gpu) ==
  /\ v # g /\ owner[v] = "HOT" /\ operation[v] = "NONE" /\ slotIdx[v] \in VSlot
  /\ operation[g] = "NONE" /\ owner[g] # "HOT" /\ ~frozen
  /\ IsIncoming(g)' /\ gpuTransfer'[g] = "H2D" /\ operationId'[g] = nextOp
  /\ operation'[g] = "IO" => owner[g] = "COLD"
  /\ operation'[g] = "PROMOTION" => owner[g] = "WARM"
  /\ ~warmShadow'[g] /\ pendingSlot'[g] = slotIdx[v]
  /\ operation'[v] = "DEMOTION" /\ operationId'[v] = nextOp /\ gpuTransfer'[v] = gpu
  /\ pendingSlot'[v] = pendingSlot[v] /\ warmShadow'[v] = warmShadow[v]
  /\ \A e \in Expert \ {g, v} : SameOperation(e)
  /\ nextOp' = nextOp + 1
  /\ UNCHANGED <<shadowSlot, vramSlots, freeVram, shadowLru, frozen, stream>>
  /\ \A s \in VSlot : vramRes'[s] = IF s = slotIdx[v] THEN nextOp ELSE vramRes[s]

(* Demote does that, to an idle Hot resident other than the incoming expert. *)
LEMMA DemoteEntry ==
  ASSUME IInv, NEW g \in Expert, NEW v \in DecodeVictim(g), NEW gpu, Demote(g, v, gpu)
  PROVE  v \in Expert /\ Demoted(g, v, gpu)
<1>1. v \in Expert /\ v # g /\ owner[v] = "HOT" /\ operation[v] = "NONE"
  <2>1. LruInv
    BY ONLY IInv DEF IInv
  <2>2. v \in Range(hotLru) /\ v \in {c \in Expert : c # g /\ Unused(c)}
    BY ONLY v \in DecodeVictim(g), OldestListed DEF DecodeVictim
  <2> QED BY ONLY <2>1, <2>2 DEF LruInv
<1>2. slotIdx[v] \in VSlot /\ slotIdx[v] # NoSlot
  <2>1. EntryOK(v)
    BY ONLY <1>1, IInv DEF IInv, EntryInv
  <2> QED BY ONLY <1>1, <2>1 DEF EntryOK, VSlot, NoSlot
<1> QED BY <1>1, <1>2, Zenon DEF Demote, Launch, NeedsTransfer, Shadowing, IsIncoming, Demoted, IInv, TypeOK,
           modeVars, Tier, SameOperation

(* The host slot of a promotion is reserved, nothing else. *)
LEMMA SourceHostResType ==
  ASSUME TypeOK, NEW g \in Expert
  PROVE  SourceHostRes(g) \in [HSlot -> Nat]
BY Zenon DEF TypeOK, SourceHostRes

-----------------------------------------------------------------------------
(* Moves of the Warm/staging boundary. *)

(* Growing Warm adds host slots to its free list. *)
LEMMA GrowHostStep ==
  ASSUME IInv, NEW u \in 0 .. HostCap, GrowHost(u)
  PROVE  IInv'
<1> DEFINE f == [i \in 1 .. u - usable |-> usable + i - 1]
<1>1. /\ usable < u /\ usable' = u /\ freeHost' = freeHost \o f
      /\ UNCHANGED <<entryVars, vramVars, hostSlots, hostRes, lruVars, nextOp, demotions, modeVars>>
  BY DEF GrowHost
<1>2. TypeOK'
  <2>1. usable \in Nat /\ usable <= HostCap /\ u - usable \in Nat /\ u <= HostCap /\ u \in Nat
    BY <1>1, CapacityAssumption DEF IInv, TypeOK
  <2>2. \A i \in 1 .. u - usable : usable + i - 1 \in HSlot
    BY <2>1, CapacityAssumption DEF HSlot
  <2>3. f \in Seq(HSlot)
    BY <2>1, <2>2
  <2> HIDE DEF f
  <2>4. freeHost' \in Seq(HSlot)
    BY <1>1, <2>3 DEF IInv, TypeOK
  <2> QED BY <1>1, <2>4, Zenon DEF IInv, TypeOK, entryVars, vramVars, lruVars, modeVars
<1>3. EntryInv' /\ VramInv' /\ CountInv'
  BY <1>1, SameEntries DEF entryVars, modeVars
<1>4. LruInv'
  BY <1>1, Zenon DEF IInv, LruInv, WarmLruInv, entryVars, lruVars
<1> QED BY <1>2, <1>3, <1>4 DEF IInv

(* Shrinking Warm makes the experts above the boundary Cold and leaves VRAM
   alone. *)
LEMMA ShrinkHostStep ==
  ASSUME IInv, NEW u \in 0 .. HostCap, ShrinkHost(u)
  PROVE  IInv'
<1> DEFINE gone == {e \in Expert : owner[e] = "WARM" /\ slotIdx[e] >= u}
           room == {h \in HSlot : h < u /\ hostSlots[h] = NoExpert /\ hostRes[h] = 0}
<1>1. /\ \A e \in gone : operation[e] = "NONE" /\ shadowSlot[e] = NoSlot /\ owner[e] = "WARM"
      /\ gone \subseteq Expert /\ room \subseteq HSlot
  BY Zenon DEF ShrinkHost, Quiet
<1>2. /\ owner' = [e \in Expert |-> IF e \in gone THEN "COLD" ELSE owner[e]]
      /\ slotIdx' = [e \in Expert |-> IF e \in gone THEN NoSlot ELSE slotIdx[e]]
      /\ warmLru' \in Pruned(warmLru, gone)
      /\ hostSlots' = [h \in HSlot |-> IF h >= u THEN NoExpert ELSE hostSlots[h]]
      /\ usable' = u
      /\ \E q \in Ascending(room) : freeHost' = Reverse(q)
      /\ UNCHANGED <<pendingSlot, operation, operationId, gpuTransfer, leases, shadowSlot, warmShadow,
                     marked, vramVars, hostRes, hotLru, shadowLru, nextOp, demotions, modeVars>>
  BY Zenon DEF ShrinkHost
<1> HIDE DEF gone, room
<1>3. ListOver(warmLru', Expert) /\ Range(warmLru') = Range(warmLru) \ gone
  BY <1>2, PrunedList, Zenon DEF IInv, LruInv, WarmLruInv
<1>4. freeHost' \in Seq(HSlot)
  <2>1. PICK q \in Ascending(room) : freeHost' = Reverse(q)
    BY <1>2, Zenon
  <2>2. IsFiniteSet(HSlot)
    BY CapacityAssumption, FS_Interval DEF HSlot
  <2>3. ListOver(q, HSlot)
    BY <1>1, <2>2, AscendingList
  <2>4. ListOver(Reverse(q), HSlot)
    BY <2>3, ReverseList
  <2> QED BY <2>1, <2>4 DEF ListOver
<1>5. TypeOK'
  <2>1. /\ owner' \in [Expert -> Tier] /\ slotIdx' \in [Expert -> Nat \cup {NoSlot}]
        /\ hostSlots' \in [HSlot -> Expert \cup {NoExpert}]
    BY <1>2, Zenon DEF IInv, TypeOK, Tier
  <2> QED BY <1>2, <1>3, <1>4, <2>1, Zenon DEF IInv, TypeOK, ListOver, vramVars, modeVars
<1>6. LruInv'
  <2>1. \A e \in Expert : e \in Range(hotLru) => e \notin gone
    BY <1>1, Zenon DEF IInv, LruInv
  <2>2. WarmLruInv'
    BY <1>2, <1>3, Zenon DEF IInv, LruInv, WarmLruInv
  <2> QED BY <1>2, <2>1, <2>2, Zenon DEF IInv, LruInv
<1>7. EntryInv'
  <2>1. ASSUME NEW e \in Expert PROVE EntryOK(e)'
    <3>1. EntryOK(e) /\ UNCHANGED <<pendingSlot, operation, operationId, gpuTransfer, shadowSlot,
                                    warmShadow, nextOp, frozen>>
      BY <1>2, Zenon DEF IInv, EntryInv, modeVars
    <3>2. CASE e \in gone
      <4>1. /\ owner'[e] = "COLD" /\ slotIdx'[e] = NoSlot /\ operation[e] = "NONE"
            /\ shadowSlot[e] = NoSlot
        BY <1>1, <1>2, <3>2, Zenon
      <4> QED BY <3>1, <4>1, Zenon DEF EntryOK, IsIncoming
    <3>3. CASE e \notin gone
      <4>1. owner'[e] = owner[e] /\ slotIdx'[e] = slotIdx[e]
        BY <1>2, <3>3, Zenon
      <4> QED BY <3>1, <4>1, Zenon DEF EntryOK, IsIncoming
    <3> QED BY <3>2, <3>3
  <2> QED BY <1>2, <2>1, Zenon DEF IInv, EntryInv, modeVars
<1>8. VramInv' /\ CountInv'
  <2>1. \A e \in Expert, s \in VSlot : Holds(e, s)' <=> Holds(e, s)
    BY <1>1, <1>2, Zenon DEF Holds, VSlot, NoSlot
  <2>2. \A e \in Expert : operation[e] = "DEMOTION" => slotIdx'[e] = slotIdx[e]
    BY <1>1, <1>2, Zenon
  <2>3. HolderInv'
    BY <1>2, <2>1, Zenon DEF IInv, VramInv, HolderInv, vramVars
  <2>4. FreeInv' /\ ClaimInv' /\ CountInv'
    BY <1>2, Zenon DEF IInv, VramInv, FreeInv, ClaimInv, CountInv, IsIncoming, Claims, vramVars
  <2>5. VictimInv'
    BY <1>2, <2>2, Zenon DEF IInv, VramInv, VictimInv, vramVars
  <2> QED BY <2>3, <2>4, <2>5 DEF VramInv
<1> QED BY <1>5, <1>6, <1>7, <1>8 DEF IInv

-----------------------------------------------------------------------------
(* The ends of a demotion. *)

(* The end of a demotion: the victim leaves its slot to the incoming expert,
   which still has it reserved. *)
LEMMA EndDemotionStep ==
  ASSUME IInv, NEW v \in Expert, operation[v] = "DEMOTION", gpuTransfer[v] = "D2H",
         NEW tier \in {"WARM", "COLD"}, NEW h,
         tier = "WARM" => h \in HSlot, tier = "COLD" => h = NoSlot,
         owner' = [owner EXCEPT ![v] = tier],
         slotIdx' = [slotIdx EXCEPT ![v] = h],
         operation' = [operation EXCEPT ![v] = "NONE"],
         gpuTransfer' = [gpuTransfer EXCEPT ![v] = "NONE"],
         vramSlots' = [vramSlots EXCEPT ![slotIdx[v]] = NoExpert],
         demotions' = demotions - 1,
         ListOver(warmLru', Expert),
         Range(warmLru') = IF tier = "WARM" THEN Range(warmLru) \cup {v} ELSE Range(warmLru),
         hostSlots' \in [HSlot -> Expert \cup {NoExpert}], hostRes' \in [HSlot -> Nat],
         freeHost' \in Seq(HSlot),
         UNCHANGED <<pendingSlot, operationId, leases, shadowSlot, warmShadow, marked, vramRes,
                     freeVram, usable, hotLru, shadowLru, nextOp, modeVars>>
  PROVE  IInv'
<1>0. /\ operation \in [Expert -> Operation] /\ gpuTransfer \in [Expert -> GpuTransfer]
      /\ owner \in [Expert -> Tier] /\ slotIdx \in [Expert -> Nat \cup {NoSlot}]
      /\ vramSlots \in [VSlot -> Expert \cup {NoExpert}]
  BY ONLY IInv, Zenon DEF IInv, TypeOK
<1>1. PICK d \in VSlot : d = slotIdx[v]
  BY ONLY IInv, v \in Expert, operation[v] = "DEMOTION", Zenon DEF IInv, EntryInv, EntryOK
<1>2. /\ owner[v] = "HOT" /\ vramSlots[d] = v /\ vramRes[d] = operationId[v] /\ v # NoExpert
      /\ operationId[v] # 0 /\ shadowSlot[v] = NoSlot
  <2>1. EntryOK(v) /\ HolderInv /\ VictimInv
    BY ONLY IInv, v \in Expert DEF IInv, EntryInv, VramInv
  <2>2. (vramSlots[d] = v <=> Holds(v, d)) /\ vramRes[slotIdx[v]] = operationId[v]
    BY ONLY <2>1, d \in VSlot, v \in Expert, operation[v] = "DEMOTION" DEF HolderInv, VictimInv
  <2>3. owner[v] = "HOT" /\ operationId[v] # 0 /\ shadowSlot[v] = NoSlot
    BY ONLY <2>1, operation[v] = "DEMOTION", Zenon DEF EntryOK
  <2>4. v # NoExpert
    BY ONLY v \in Expert, ExpertAssumption DEF NoExpert
  <2> QED BY ONLY <1>1, <2>2, <2>3, <2>4, Zenon DEF Holds
<1>21. \A s \in VSlot : vramSlots[s] = v => s = d
  <2>1. HolderInv
    BY ONLY IInv DEF IInv, VramInv
  <2>2. \A s \in VSlot : vramSlots[s] = v <=> Holds(v, s)
    BY ONLY <2>1, v \in Expert DEF HolderInv
  <2>3. NoSlot \notin VSlot
    BY ONLY CapacityAssumption DEF VSlot, NoSlot
  <2> QED BY ONLY <1>1, <1>2, <2>2, <2>3, Zenon DEF Holds
<1>3. /\ owner'[v] = tier /\ slotIdx'[v] = h /\ operation'[v] = "NONE"
      /\ \A e \in Expert \ {v} : owner'[e] = owner[e] /\ slotIdx'[e] = slotIdx[e]
           /\ operation'[e] = operation[e] /\ gpuTransfer'[e] = gpuTransfer[e]
  BY ONLY <1>0, v \in Expert, owner' = [owner EXCEPT ![v] = tier],
          slotIdx' = [slotIdx EXCEPT ![v] = h], operation' = [operation EXCEPT ![v] = "NONE"],
          gpuTransfer' = [gpuTransfer EXCEPT ![v] = "NONE"], Zenon
<1>4. TypeOK'
  <2>1. owner' \in [Expert -> Tier] /\ slotIdx' \in [Expert -> Nat \cup {NoSlot}]
    <3>1. tier \in Tier /\ h \in Nat \cup {NoSlot}
      BY ONLY tier \in {"WARM", "COLD"}, tier = "WARM" => h \in HSlot, tier = "COLD" => h = NoSlot,
              CapacityAssumption DEF Tier, HSlot
    <3> QED BY ONLY <1>0, <3>1, owner' = [owner EXCEPT ![v] = tier],
                    slotIdx' = [slotIdx EXCEPT ![v] = h]
  <2>2. operation' \in [Expert -> Operation] /\ gpuTransfer' \in [Expert -> GpuTransfer]
    BY ONLY <1>0, operation' = [operation EXCEPT ![v] = "NONE"],
            gpuTransfer' = [gpuTransfer EXCEPT ![v] = "NONE"] DEF Operation, GpuTransfer
  <2>3. vramSlots' \in [VSlot -> Expert \cup {NoExpert}]
    BY ONLY <1>0, vramSlots' = [vramSlots EXCEPT ![slotIdx[v]] = NoExpert], Zenon
  <2>4. demotions' \in Nat
    BY DemotionCount, Zenon
  <2> QED BY <2>1, <2>2, <2>3, <2>4, Zenon DEF IInv, TypeOK, ListOver, modeVars
<1>5. CountInv'
  <2> DEFINE d2h == {e \in Expert : gpuTransfer[e] = "D2H"}
  <2>1. {e \in Expert : gpuTransfer'[e] = "D2H"} = d2h \ {v}
    BY ONLY <1>0, v \in Expert, gpuTransfer' = [gpuTransfer EXCEPT ![v] = "NONE"]
  <2>2. Cardinality(d2h \ {v}) = demotions - 1
    BY DemotionCount, Zenon
  <2> QED BY <2>1, <2>2, Zenon DEF CountInv
<1>6. LruInv'
  <2>1. LruInv
    BY ONLY IInv DEF IInv
  <2>2. WarmLruInv'
    BY ONLY <1>3, <2>1, ListOver(warmLru', Expert), v \in Expert, tier \in {"WARM", "COLD"},
            operation[v] = "DEMOTION",
            Range(warmLru') = IF tier = "WARM" THEN Range(warmLru) \cup {v} ELSE Range(warmLru), Zenon
       DEF LruInv, WarmLruInv
  <2>3. hotLru' = hotLru /\ shadowLru' = shadowLru /\ shadowSlot' = shadowSlot
    OBVIOUS
  <2> QED BY ONLY <1>3, <2>1, <2>2, <2>3, operation[v] = "DEMOTION", Zenon DEF LruInv
<1>7. EntryInv'
  <2>0. nextOp \in Nat /\ \A e \in Expert : EntryOK(e) /\ operationId[e] \in Nat
    BY ONLY IInv DEF IInv, TypeOK, EntryInv
  <2>1. EntryOK(v)'
    <3>1. /\ pendingSlot'[v] = NoSlot /\ ~warmShadow'[v] /\ gpuTransfer'[v] = "NONE"
          /\ shadowSlot'[v] = NoSlot /\ operationId'[v] < nextOp'
      <4>1. UNCHANGED <<pendingSlot, warmShadow, shadowSlot, operationId, nextOp>>
        OBVIOUS
      <4>2. gpuTransfer'[v] = "NONE"
        BY ONLY <1>0, v \in Expert, gpuTransfer' = [gpuTransfer EXCEPT ![v] = "NONE"]
      <4> QED BY ONLY <1>2, <2>0, <4>1, <4>2, v \in Expert, operation[v] = "DEMOTION", Zenon DEF EntryOK
    <3> QED BY ONLY <1>3, <3>1, tier \in {"WARM", "COLD"}, tier = "WARM" => h \in HSlot,
                    tier = "COLD" => h = NoSlot, Zenon DEF EntryOK, IsIncoming
  <2>2. ASSUME NEW e \in Expert \ {v} PROVE EntryOK(e)'
    <3>1. SameOperation(e) /\ Stays(e)
      BY <1>3, Zenon DEF SameOperation, Stays
    <3>2. frozen' = frozen /\ nextOp' = nextOp
      BY Zenon DEF modeVars
    <3>3. nextOp' \in Nat /\ nextOp <= nextOp' /\ nextOp \in Nat /\ EntryOK(e) /\ operationId[e] \in Nat
      BY ONLY <2>0, <3>2
    <3> QED BY ONLY <3>1, <3>2, <3>3, EntryFrame
  <2> QED BY <2>1, <2>2, Zenon DEF IInv, EntryInv, modeVars
<1>8. /\ \A s \in VSlot : vramSlots'[s] = IF s = d THEN NoExpert ELSE vramSlots[s]
      /\ vramRes' = vramRes
  <2>1. \A s \in VSlot : vramSlots'[s] = IF s = d THEN NoExpert ELSE vramSlots[s]
    BY ONLY <1>0, <1>1, vramSlots' = [vramSlots EXCEPT ![slotIdx[v]] = NoExpert]
  <2> QED BY <2>1, Zenon
<1>9. HolderInv'
  <2>2. \A s \in VSlot : vramSlots'[s] = IF vramSlots[s] \in {v} THEN NoExpert ELSE vramSlots[s]
    BY ONLY <1>2, <1>8, <1>21, Zenon
  <2>3. {v} \in SUBSET Expert /\ \A e \in {v} : owner'[e] # "HOT" /\ shadowSlot'[e] = NoSlot
    <3>1. shadowSlot' = shadowSlot
      BY Zenon
    <3> QED BY ONLY <1>2, <1>3, <3>1, v \in Expert, tier \in {"WARM", "COLD"}, Zenon
  <2>4. \A e \in Expert \ {v} : Stays(e)
    BY <1>3, Zenon DEF Stays
  <2>5. vramSlots' \in [VSlot -> Expert \cup {NoExpert}]
    BY <1>4, Zenon DEF TypeOK
  <2> QED BY <2>2, <2>3, <2>4, <2>5, ReleaseHolders, Zenon
<1>10. FreeInv'
  <2>1. freeVram' = freeVram
    BY Zenon
  <2> QED BY ONLY <1>2, <1>8, <2>1, IInv, Zenon DEF IInv, VramInv, FreeInv
<1>11. ClaimInv'
  <2>1. \A e \in Expert : IsIncoming(e)' <=> IsIncoming(e)
    BY ONLY <1>3, operation[v] = "DEMOTION" DEF IsIncoming
  <2>2. UNCHANGED <<pendingSlot, operationId, vramRes>>
    BY Zenon
  <2>3. ClaimInv
    BY ONLY IInv DEF IInv, VramInv
  <2> QED BY ONLY <2>1, <2>2, <2>3, Zenon DEF ClaimInv, Claims
<1>12. VictimInv'
  <2>1. \A e \in Expert \ {v} : operation[e] = "DEMOTION" => vramRes[slotIdx[e]] = operationId[e]
    BY ONLY IInv, Zenon DEF IInv, VramInv, VictimInv
  <2>2. \A t \in VSlot : vramRes[t] # 0 /\ vramSlots[t] # NoExpert /\ t # d =>
          operation[vramSlots[t]] = "DEMOTION" /\ vramSlots[t] \in Expert /\ vramSlots[t] # v
    BY ONLY <1>21, IInv, Zenon DEF IInv, VramInv, VictimInv, TypeOK
  <2>3. \A e \in Expert : warmShadow[e] /\ pendingSlot[e] # NoSlot =>
          vramSlots[pendingSlot[e]] = NoExpert /\ pendingSlot[e] \in VSlot
    BY ONLY IInv DEF IInv, VramInv, VictimInv, TypeOK
  <2>4. UNCHANGED <<pendingSlot, operationId, warmShadow>>
    BY Zenon
  <2>5. \A e \in Expert : operation'[e] = "DEMOTION" => vramRes'[slotIdx'[e]] = operationId'[e]
    BY ONLY <1>3, <1>8, <2>1, <2>4
  <2>6. \A t \in VSlot : vramRes'[t] # 0 /\ vramSlots'[t] # NoExpert =>
          operation'[vramSlots'[t]] = "DEMOTION"
    BY ONLY <1>3, <1>8, <2>2
  <2>7. \A e \in Expert : warmShadow'[e] /\ pendingSlot'[e] # NoSlot =>
          vramSlots'[pendingSlot'[e]] = NoExpert
    BY ONLY <1>8, <2>3, <2>4
  <2> QED BY ONLY <2>5, <2>6, <2>7, Zenon DEF VictimInv
<1> QED BY ONLY <1>4, <1>5, <1>6, <1>7, <1>9, <1>10, <1>11, <1>12 DEF IInv, VramInv

(* The demoted expert is Warm and its VRAM slot is the incoming one's alone. *)
LEMMA CompleteDemotionStep ==
  ASSUME IInv, NEW v \in Expert, CompleteDemotion(v)
  PROVE  IInv'
<1>1. PICK h \in ReservedHost(operationId[v]) :
        /\ hostSlots' = [hostSlots EXCEPT ![h] = v]
        /\ hostRes' = [hostRes EXCEPT ![h] = 0]
        /\ slotIdx' = [slotIdx EXCEPT ![v] = h]
  BY Zenon DEF CompleteDemotion
<1>2. h \in HSlot
  BY Zenon DEF ReservedHost
<1>3. ListOver(warmLru', Expert) /\ Range(warmLru') = Range(warmLru) \cup {v}
  <2>1. ListOver(warmLru, Expert)
    BY Zenon DEF IInv, LruInv, WarmLruInv
  <2>2. warmLru' = PushFront(warmLru, v)
    BY DEF CompleteDemotion
  <2> QED BY ONLY <2>1, <2>2, PushFrontList
<1>4. hostSlots' \in [HSlot -> Expert \cup {NoExpert}] /\ hostRes' \in [HSlot -> Nat]
  BY <1>1, Zenon DEF IInv, TypeOK
<1>5. freeHost' \in Seq(HSlot)
  BY Zenon DEF IInv, TypeOK, CompleteDemotion
<1> QED BY <1>1, <1>2, <1>3, <1>4, <1>5, EndDemotionStep, Zenon DEF CompleteDemotion

(* The demoted expert is Cold; its VRAM slot still belongs to the operation. *)
LEMMA FailDemotionStep ==
  ASSUME IInv, NEW v \in Expert, FailDemotion(v)
  PROVE  IInv'
<1>1. PICK h \in ReservedHost(operationId[v]) :
        /\ hostSlots' = [hostSlots EXCEPT ![h] = NoExpert]
        /\ hostRes' = [hostRes EXCEPT ![h] = 0]
        /\ freeHost' = Append(freeHost, h)
  BY Zenon DEF FailDemotion
<1>2. h \in HSlot
  BY Zenon DEF ReservedHost
<1>3. ListOver(warmLru', Expert) /\ Range(warmLru') = Range(warmLru)
  BY Zenon DEF IInv, LruInv, WarmLruInv, FailDemotion, lruVars
<1>4. hostSlots' \in [HSlot -> Expert \cup {NoExpert}] /\ hostRes' \in [HSlot -> Nat]
  BY <1>1, Zenon DEF IInv, TypeOK
<1>5. freeHost' \in Seq(HSlot)
  BY <1>1, <1>2 DEF IInv, TypeOK
<1> QED BY <1>3, <1>4, <1>5, EndDemotionStep, Zenon DEF FailDemotion, lruVars

-----------------------------------------------------------------------------
(* The end of a request. *)

(* An operation's victim sits in the slot its incoming expert waits for. *)
LEMMA VictimOf ==
  ASSUME IInv, NEW g \in Expert, IsIncoming(g), NEW v \in Victims(operationId[g])
  PROVE  /\ v \in Expert /\ v # g /\ owner[v] = "HOT" /\ slotIdx[v] \in VSlot
         /\ pendingSlot[g] = slotIdx[v] /\ vramSlots[slotIdx[v]] = v /\ ~warmShadow[g]
<1>1. v \in Expert /\ operation[v] = "DEMOTION" /\ operationId[v] = operationId[g]
  BY DEF Victims
<1>2. v # g
  BY <1>1 DEF IsIncoming
<1>3. PICK d \in VSlot : d = slotIdx[v] /\ owner[v] = "HOT" /\ operationId[v] # 0
  BY <1>1 DEF IInv, EntryInv, EntryOK
<1>4. vramSlots[d] = v /\ vramRes[d] = operationId[v]
  BY <1>1, <1>3 DEF IInv, VramInv, HolderInv, VictimInv, Holds
<1>5. PICK e \in Expert : IsIncoming(e) /\ pendingSlot[e] = d /\ operationId[e] = vramRes[d]
  BY <1>3, <1>4 DEF IInv, VramInv, ClaimInv, Claims
<1>6. e = g
  BY <1>1, <1>4, <1>5 DEF IInv, VramInv, ClaimInv
<1>7. v # NoExpert /\ d # NoSlot
  BY ExpertAssumption, <1>1 DEF NoExpert, VSlot, NoSlot
<1>8. ~warmShadow[g]
  BY <1>4, <1>5, <1>6, <1>7 DEF IInv, VramInv, VictimInv
<1> QED BY <1>1, <1>2, <1>3, <1>4, <1>5, <1>6, <1>8

(* The destination of an incoming expert is reserved for it alone, and whoever
   still sits there is its victim. *)
LEMMA DestinationOf ==
  ASSUME IInv, NEW g \in Expert, IsIncoming(g), NEW d \in VSlot, pendingSlot[g] = d
  PROVE  /\ vramRes[d] = operationId[g] /\ operationId[g] # 0 /\ d \notin Range(freeVram)
         /\ vramSlots[d] # NoExpert => vramSlots[d] \in Victims(operationId[g])
         /\ \A e \in Expert : IsIncoming(e) /\ pendingSlot[e] = d => e = g
<1>1. d # NoSlot /\ operationId[g] # 0
  BY DEF VSlot, NoSlot, IInv, EntryInv, EntryOK, IsIncoming
<1>2. vramRes[d] = operationId[g]
  BY <1>1 DEF IInv, VramInv, ClaimInv
<1>3. d \notin Range(freeVram)
  BY <1>1, <1>2 DEF IInv, VramInv, FreeInv
<1>4. ASSUME vramSlots[d] # NoExpert PROVE vramSlots[d] \in Victims(operationId[g])
  <2>1. PICK x \in Expert : x = vramSlots[d]
    BY <1>4 DEF IInv, TypeOK
  <2>2. operation[x] = "DEMOTION"
    BY <1>1, <1>2, <1>4, <2>1 DEF IInv, VramInv, VictimInv
  <2>3. slotIdx[x] = d
    BY <2>1, <2>2 DEF IInv, VramInv, HolderInv, Holds, EntryInv, EntryOK, VSlot, NoSlot
  <2>4. operationId[x] = vramRes[d]
    BY <2>2, <2>3 DEF IInv, VramInv, VictimInv
  <2> QED BY <1>2, <2>1, <2>2, <2>4 DEF Victims
<1>5. ASSUME NEW e \in Expert, IsIncoming(e), pendingSlot[e] = d PROVE e = g
  <2>1. vramRes[d] = operationId[e]
    BY <1>1, <1>5 DEF IInv, VramInv, ClaimInv
  <2> QED BY <1>2, <1>5, <2>1, Zenon DEF IInv, VramInv, ClaimInv
<1> QED BY <1>1, <1>2, <1>3, <1>4, <1>5

(* What every end of a request does to the operations. *)
RetiresOperation(g) ==
  /\ \A e \in Retired(g) : operation'[e] = "NONE" /\ gpuTransfer'[e] = "NONE"
  /\ pendingSlot'[g] = NoSlot /\ ~warmShadow'[g] /\ operationId'[g] \in {0, operationId[g]}
  /\ \A e \in Expert \ {g} :
       /\ pendingSlot'[e] = pendingSlot[e] /\ warmShadow'[e] = warmShadow[e]
       /\ operationId'[e] = operationId[e]
  /\ \A e \in Expert \ Retired(g) : SameOperation(e) /\ Stays(e)
  /\ \A e \in Retired(g) \ {g} :
       owner'[e] = "COLD" /\ slotIdx'[e] = NoSlot /\ shadowSlot'[e] = shadowSlot[e]
  /\ \A s \in VSlot : vramRes'[s] = IF s = pendingSlot[g] THEN 0 ELSE vramRes[s]
  /\ \A s \in VSlot : s # pendingSlot[g] => vramSlots'[s] = vramSlots[s]
  /\ UNCHANGED <<nextOp, demotions, frozen, stream>>

(* Retiring an operation keeps every other operation's records. *)
LEMMA RetireStep ==
  ASSUME IInv, NEW g \in Expert, IsIncoming(g), Settled(g), RetiresOperation(g), EntryOK(g)'
  PROVE  EntryInv' /\ CountInv' /\ ClaimInv' /\ VictimInv'
<1> DEFINE V == Victims(operationId[g])
<1>1. /\ Retired(g) = {g} \cup V /\ V \subseteq Expert
      /\ \A v \in V : operation[v] = "DEMOTION" /\ operationId[v] = operationId[g] /\ v # g
           /\ owner[v] = "HOT" /\ pendingSlot[g] = slotIdx[v] /\ slotIdx[v] \in VSlot
  <2>1. \A v \in V : v \in Expert /\ operation[v] = "DEMOTION" /\ operationId[v] = operationId[g]
    BY DEF Victims
  <2>2. \A v \in V : v # g /\ owner[v] = "HOT" /\ pendingSlot[g] = slotIdx[v] /\ slotIdx[v] \in VSlot
    BY ONLY IInv, g \in Expert, IsIncoming(g), VictimOf, Zenon
  <2> QED BY ONLY <2>1, <2>2, Zenon DEF Retired
<1>2. \A e \in Expert : IsIncoming(e)' <=> IsIncoming(e) /\ e # g
  <2>1. \A e \in {g} \cup V : ~IsIncoming(e)'
    BY ONLY <1>1, RetiresOperation(g), Zenon DEF RetiresOperation, IsIncoming
  <2>2. \A e \in V : ~IsIncoming(e)
    BY ONLY <1>1, Zenon DEF IsIncoming
  <2>3. \A e \in Expert \ ({g} \cup V) : operation'[e] = operation[e]
    BY ONLY <1>1, RetiresOperation(g), Zenon DEF RetiresOperation, SameOperation
  <2> QED BY ONLY <2>1, <2>2, <2>3, Zenon DEF IsIncoming
<1> HIDE DEF V
<1>3. EntryInv'
  <2>0. nextOp \in Nat /\ \A e \in Expert : EntryOK(e) /\ operationId[e] \in Nat
    BY DEF IInv, TypeOK, EntryInv
  <2>1. ASSUME NEW e \in V PROVE EntryOK(e)'
    <3>1. /\ EntryOK(e) /\ operation[e] = "DEMOTION" /\ e # g /\ e \in Retired(g) \ {g} /\ e \in Expert
      BY <1>1, <2>0, <2>1
    <3>2. /\ operation'[e] = "NONE" /\ gpuTransfer'[e] = "NONE" /\ owner'[e] = "COLD"
          /\ slotIdx'[e] = NoSlot /\ shadowSlot'[e] = NoSlot
          /\ pendingSlot'[e] = NoSlot /\ ~warmShadow'[e] /\ operationId'[e] < nextOp'
      <4>1. shadowSlot[e] = NoSlot /\ pendingSlot[e] = NoSlot /\ ~warmShadow[e] /\ operationId[e] < nextOp
        BY ONLY <3>1, Zenon DEF EntryOK, IsIncoming
      <4> QED BY ONLY <3>1, <4>1, RetiresOperation(g), Zenon DEF RetiresOperation
    <3> QED BY ONLY <3>2, Zenon DEF EntryOK, IsIncoming
  <2>2. ASSUME NEW e \in Expert \ Retired(g) PROVE EntryOK(e)'
    <3>1. /\ SameOperation(e) /\ Stays(e) /\ frozen' = frozen /\ nextOp' \in Nat /\ nextOp <= nextOp'
          /\ EntryOK(e) /\ operationId[e] \in Nat /\ nextOp \in Nat
      <4>1. SameOperation(e) /\ Stays(e) /\ frozen' = frozen /\ nextOp' = nextOp
        BY ONLY <2>2, RetiresOperation(g), Zenon DEF RetiresOperation
      <4> QED BY ONLY <2>0, <2>2, <4>1
    <3> QED BY ONLY <2>2, <3>1, EntryFrame
  <2>3. \A e \in Expert : EntryOK(e)'
    BY <1>1, <2>1, <2>2
  <2> QED BY <2>3 DEF IInv, EntryInv, RetiresOperation
<1>4. CountInv'
  <2>1. \A e \in Retired(g) : gpuTransfer[e] # "D2H"
    BY <1>1, Zenon DEF Settled, V, IInv, EntryInv, EntryOK
  <2>2. {e \in Expert : gpuTransfer'[e] = "D2H"} = {e \in Expert : gpuTransfer[e] = "D2H"}
    <3>1. \A e \in Retired(g) : gpuTransfer'[e] = "NONE"
      BY ONLY RetiresOperation(g), Zenon DEF RetiresOperation
    <3>2. \A e \in Expert \ Retired(g) : gpuTransfer'[e] = gpuTransfer[e]
      BY ONLY RetiresOperation(g), Zenon DEF RetiresOperation, SameOperation
    <3> QED BY ONLY <2>1, <3>1, <3>2, Zenon
  <2> QED BY <2>2, Zenon DEF IInv, CountInv, RetiresOperation
<1>5. ClaimInv'
  <2> USE DEF IInv, VramInv, ClaimInv, Claims
  <2>1. ASSUME NEW t \in VSlot, vramRes'[t] # 0
        PROVE  \E e \in Expert : Claims(e, t)' /\ operationId'[e] = vramRes'[t]
    <3>1. t # pendingSlot[g] /\ vramRes'[t] = vramRes[t]
      BY ONLY <2>1, RetiresOperation(g), Zenon DEF RetiresOperation
    <3>2. PICK e \in Expert : IsIncoming(e) /\ pendingSlot[e] = t /\ operationId[e] = vramRes[t]
      BY ONLY <2>1, <3>1, IInv, Zenon DEF IInv, VramInv, ClaimInv, Claims
    <3>3. e # g /\ IsIncoming(e)' /\ pendingSlot'[e] = t /\ operationId'[e] = vramRes'[t]
      BY <1>2, <3>1, <3>2, Zenon DEF RetiresOperation
    <3> QED BY <3>3
  <2>2. ASSUME NEW e \in Expert, IsIncoming(e)', pendingSlot'[e] # NoSlot
        PROVE  vramRes'[pendingSlot'[e]] = operationId'[e]
    <3>1. /\ e # g /\ IsIncoming(e) /\ pendingSlot'[e] = pendingSlot[e]
          /\ operationId'[e] = operationId[e] /\ pendingSlot[e] \in VSlot
      <4>1. e # g /\ IsIncoming(e)
        BY ONLY <1>2, <2>2, Zenon
      <4>2. pendingSlot'[e] = pendingSlot[e] /\ operationId'[e] = operationId[e]
        BY ONLY <4>1, e \in Expert, RetiresOperation(g), Zenon DEF RetiresOperation
      <4>3. pendingSlot[e] \in VSlot \cup {NoSlot}
        BY ONLY IInv, e \in Expert, Zenon DEF IInv, TypeOK
      <4> QED BY ONLY <2>2, <4>1, <4>2, <4>3, Zenon
    <3>2. pendingSlot[e] # pendingSlot[g]
      <4>1. PICK d \in VSlot : d = pendingSlot[e]
        BY ONLY <3>1, Zenon
      <4>2. \A f \in Expert : IsIncoming(f) /\ pendingSlot[f] = d => f = e
        BY ONLY <3>1, <4>1, IInv, e \in Expert, DestinationOf, Zenon
      <4> QED BY <3>1, <4>1, <4>2, Zenon
    <3>3. vramRes[pendingSlot[e]] = operationId[e]
      BY ONLY <2>2, <3>1, e \in Expert, IInv, Zenon DEF IInv, VramInv, ClaimInv
    <3>4. vramRes'[pendingSlot[e]] = vramRes[pendingSlot[e]]
      BY ONLY <3>1, <3>2, RetiresOperation(g), Zenon DEF RetiresOperation
    <3> QED BY ONLY <3>1, <3>3, <3>4, Zenon
  <2>3. ASSUME NEW e \in Expert, NEW f \in Expert,
               IsIncoming(e)', IsIncoming(f)', operationId'[e] = operationId'[f]
        PROVE  e = f
    <3>1. e # g /\ f # g /\ IsIncoming(e) /\ IsIncoming(f)
      BY ONLY <1>2, <2>3, Zenon
    <3>2. operationId[e] = operationId[f]
      BY ONLY <2>3, <3>1, RetiresOperation(g), Zenon DEF RetiresOperation
    <3> QED BY ONLY <2>3, <3>1, <3>2, IInv, Zenon DEF IInv, VramInv, ClaimInv
  <2> QED BY ONLY <2>1, <2>2, <2>3, Zenon DEF ClaimInv
<1>6. VictimInv'
  <2>1. ASSUME NEW e \in Expert, operation'[e] = "DEMOTION"
        PROVE  vramRes'[slotIdx'[e]] = operationId'[e]
    <3>1. e \notin Retired(g) /\ SameOperation(e) /\ Stays(e)
      BY <2>1, Zenon DEF RetiresOperation
    <3>2. operation[e] = "DEMOTION" /\ slotIdx[e] \in VSlot /\ vramRes[slotIdx[e]] = operationId[e]
      <4>1. operation[e] = "DEMOTION"
        BY ONLY <2>1, <3>1 DEF SameOperation
      <4> QED BY ONLY <4>1, IInv, e \in Expert, Zenon DEF IInv, EntryInv, EntryOK, VramInv, VictimInv
    <3>3. slotIdx[e] # pendingSlot[g]
      <4>1. e \notin Victims(operationId[g])
        BY <1>1, <3>1 DEF V
      <4>2. operationId[e] # operationId[g]
        BY <3>2, <4>1 DEF Victims
      <4>3. slotIdx[e] = pendingSlot[g] => vramRes[slotIdx[e]] = operationId[g]
        BY ONLY <3>2, IInv, g \in Expert, IsIncoming(g), DestinationOf, Zenon
      <4> QED BY ONLY <3>2, <4>2, <4>3, Zenon
    <3>4. vramRes'[slotIdx[e]] = vramRes[slotIdx[e]]
      BY ONLY <3>2, <3>3, RetiresOperation(g), Zenon DEF RetiresOperation
    <3> QED BY ONLY <3>1, <3>2, <3>4, Zenon DEF SameOperation, Stays
  <2>2. ASSUME NEW t \in VSlot, vramRes'[t] # 0, vramSlots'[t] # NoExpert
        PROVE  operation'[vramSlots'[t]] = "DEMOTION"
    <3>1. t # pendingSlot[g] /\ vramRes[t] # 0 /\ vramSlots'[t] = vramSlots[t]
      BY <2>2, Zenon DEF RetiresOperation
    <3>2. PICK x \in Expert : x = vramSlots[t] /\ operation[x] = "DEMOTION"
      BY <2>2, <3>1, Zenon DEF IInv, VramInv, VictimInv, TypeOK
    <3>3. slotIdx[x] = t
      <4>1. t # NoSlot
        BY ONLY CapacityAssumption, t \in VSlot DEF VSlot, NoSlot
      <4>2. shadowSlot[x] = NoSlot /\ Holds(x, t)
        BY ONLY IInv, t \in VSlot, <3>2, Zenon DEF IInv, VramInv, HolderInv, EntryInv, EntryOK
      <4> QED BY ONLY <4>1, <4>2, Zenon DEF Holds
    <3>4. x \notin Retired(g)
      <4>1. x # g
        BY ONLY <3>2, IsIncoming(g), Zenon DEF IsIncoming
      <4>2. x \notin V
        BY ONLY <1>1, <3>1, <3>3, Zenon
      <4> QED BY ONLY <1>1, <4>1, <4>2, Zenon
    <3>5. SameOperation(x)
      BY ONLY <3>4, x \in Expert, RetiresOperation(g), Zenon DEF RetiresOperation
    <3> QED BY ONLY <3>1, <3>2, <3>5, Zenon DEF SameOperation
  <2>3. ASSUME NEW e \in Expert, warmShadow'[e], pendingSlot'[e] # NoSlot
        PROVE  vramSlots'[pendingSlot'[e]] = NoExpert
    <3>1. e # g /\ warmShadow[e] /\ pendingSlot'[e] = pendingSlot[e] /\ pendingSlot[e] \in VSlot
      <4>1. e # g /\ warmShadow[e] /\ pendingSlot'[e] = pendingSlot[e]
        BY ONLY <2>3, RetiresOperation(g) DEF RetiresOperation
      <4>2. pendingSlot[e] \in VSlot \cup {NoSlot}
        BY ONLY IInv, e \in Expert DEF IInv, TypeOK
      <4> QED BY ONLY <2>3, <4>1, <4>2
    <3>2. IsIncoming(e) /\ vramSlots[pendingSlot[e]] = NoExpert
      <4>1. EntryOK(e) /\ operation[e] \in Operation /\ pendingSlot[e] # NoSlot
        BY ONLY <2>3, <3>1, IInv, Zenon DEF IInv, EntryInv, TypeOK
      <4>2. IsIncoming(e)
        BY ONLY <3>1, <4>1, Zenon DEF EntryOK, IsIncoming, Operation
      <4>3. vramSlots[pendingSlot[e]] = NoExpert
        BY ONLY <3>1, <4>1, IInv, e \in Expert DEF IInv, VramInv, VictimInv
      <4> QED BY ONLY <4>2, <4>3
    <3>3. pendingSlot[e] # pendingSlot[g]
      BY <3>1, <3>2, DestinationOf, Zenon
    <3>4. vramSlots'[pendingSlot[e]] = vramSlots[pendingSlot[e]]
      BY ONLY <3>1, <3>3, RetiresOperation(g), Zenon DEF RetiresOperation
    <3> QED BY ONLY <3>1, <3>2, <3>4, Zenon
  <2> QED BY ONLY <2>1, <2>2, <2>3, Zenon DEF VictimInv
<1> QED BY ONLY <1>3, <1>4, <1>5, <1>6

(* complete_request: the expert is Hot in its slot, a dropped victim is Cold. *)
LEMMA CompleteRequestStep ==
  ASSUME IInv, NEW g \in Expert, CompleteRequest(g)
  PROVE  IInv'
<1> DEFINE V == Victims(operationId[g])
<1>1. IsIncoming(g) /\ ~warmShadow[g] /\ Settled(g) /\ pendingSlot[g] # NoSlot
  BY Zenon DEF CompleteRequest
<1>2. PICK d \in VSlot : d = pendingSlot[g]
  BY <1>1 DEF IInv, TypeOK
<1>3. /\ vramRes[d] = operationId[g] /\ operationId[g] # 0 /\ d \notin Range(freeVram)
      /\ vramSlots[d] # NoExpert => vramSlots[d] \in V
  BY <1>1, <1>2, DestinationOf
<1>4. /\ V \subseteq Expert /\ g \notin V
      /\ \A v \in V : owner[v] = "HOT" /\ slotIdx[v] = d /\ vramSlots[d] = v
  BY <1>1, <1>2, VictimOf
<1>5. /\ owner' = [e \in Expert |-> IF e = g THEN "HOT" ELSE IF e \in V THEN "COLD" ELSE owner[e]]
      /\ slotIdx' = [e \in Expert |-> IF e = g THEN d ELSE IF e \in V THEN NoSlot ELSE slotIdx[e]]
      /\ operation' = [e \in Expert |-> IF e \in {g} \cup V THEN "NONE" ELSE operation[e]]
      /\ gpuTransfer' = [e \in Expert |-> IF e \in {g} \cup V THEN "NONE" ELSE gpuTransfer[e]]
      /\ pendingSlot' = [pendingSlot EXCEPT ![g] = NoSlot]
      /\ vramRes' = [vramRes EXCEPT ![d] = 0]
      /\ vramSlots' = [s \in VSlot |-> IF s = d THEN g
                          ELSE IF \E v \in V : slotIdx[v] = s THEN NoExpert ELSE vramSlots[s]]
      /\ hotLru' = PushFront(hotLru, g)
      /\ UNCHANGED <<operationId, leases, shadowSlot, warmShadow, marked, freeVram, usable,
                     warmLru, shadowLru, nextOp, demotions, modeVars>>
  BY <1>2, Zenon DEF CompleteRequest, ClearOperations, Retired
<1>6. \A s \in VSlot : vramSlots'[s] = IF s = d THEN g ELSE vramSlots[s]
  BY <1>4, <1>5, Zenon
<1>7. /\ owner[g] # "HOT" /\ shadowSlot[g] = NoSlot /\ operation[g] # "NONE"
      /\ operationId[g] < nextOp /\ operationId[g] \in Nat /\ g # NoExpert
  <2>1. g # NoExpert
    BY ONLY ExpertAssumption, g \in Expert DEF NoExpert
  <2> QED BY ONLY <1>1, <2>1, IInv, g \in Expert, Zenon DEF IInv, TypeOK, EntryInv, EntryOK, IsIncoming
<1> HIDE DEF V
<1>8. RetiresOperation(g)
  <2>1. \A e \in Expert : e # g => SameOperation(e) \/ e \in V
    BY <1>5, Zenon DEF SameOperation, IInv, TypeOK
  <2>2. Retired(g) = {g} \cup V
    BY DEF Retired, V
  <2>3. \A e \in Expert \ ({g} \cup V) : Stays(e)
    BY <1>5, Zenon DEF Stays
  <2>4. /\ pendingSlot'[g] = NoSlot /\ ~warmShadow'[g]
        /\ \A e \in Expert \ {g} : pendingSlot'[e] = pendingSlot[e]
        /\ \A s \in VSlot : vramRes'[s] = IF s = pendingSlot[g] THEN 0 ELSE vramRes[s]
    BY <1>1, <1>2, <1>5, Zenon DEF IInv, TypeOK
  <2>5. /\ \A e \in {g} \cup V : operation'[e] = "NONE" /\ gpuTransfer'[e] = "NONE"
        /\ \A e \in V : e # g /\ owner'[e] = "COLD" /\ slotIdx'[e] = NoSlot
    BY ONLY <1>4, <1>5, g \in Expert, Zenon
  <2>6. UNCHANGED <<operationId, warmShadow, shadowSlot, nextOp, demotions, frozen, stream>>
    BY ONLY <1>5, Zenon DEF modeVars
  <2>7. \A s \in VSlot : s # pendingSlot[g] => vramSlots'[s] = vramSlots[s]
    BY ONLY <1>2, <1>6, Zenon
  <2>8. \A e \in Expert \ ({g} \cup V) : SameOperation(e)
    BY ONLY <2>1, Zenon
  <2> QED BY ONLY <2>2, <2>3, <2>4, <2>5, <2>6, <2>7, <2>8, Zenon DEF RetiresOperation
<1>9. EntryOK(g)'
  <2>1. /\ owner'[g] = "HOT" /\ slotIdx'[g] \in VSlot /\ operation'[g] = "NONE"
        /\ gpuTransfer'[g] = "NONE" /\ pendingSlot'[g] = NoSlot /\ ~warmShadow'[g]
        /\ shadowSlot'[g] = NoSlot /\ operationId'[g] < nextOp'
    BY <1>1, <1>5, <1>7, Zenon DEF IInv, TypeOK
  <2> QED BY <2>1, Zenon DEF EntryOK, IsIncoming
<1>10. EntryInv' /\ CountInv' /\ ClaimInv' /\ VictimInv'
  BY <1>1, <1>8, <1>9, RetireStep, Zenon
<1>11. ListOver(hotLru', Expert) /\ Range(hotLru') = Range(hotLru) \cup {g}
  BY <1>5, PushFrontList, Zenon DEF IInv, LruInv
<1>12. TypeOK'
  <2>1. /\ owner' \in [Expert -> Tier] /\ operation' \in [Expert -> Operation]
        /\ gpuTransfer' \in [Expert -> GpuTransfer]
    BY <1>5, Zenon DEF IInv, TypeOK, Tier, Operation, GpuTransfer
  <2>2. slotIdx' \in [Expert -> Nat \cup {NoSlot}]
    <3>1. d \in Nat
      BY ONLY d \in VSlot, CapacityAssumption DEF VSlot
    <3> QED BY ONLY <1>5, <3>1, IInv, Zenon DEF IInv, TypeOK
  <2>3. /\ pendingSlot' \in [Expert -> VSlot \cup {NoSlot}] /\ vramRes' \in [VSlot -> Nat]
        /\ vramSlots' \in [VSlot -> Expert \cup {NoExpert}]
    BY <1>5, Zenon DEF IInv, TypeOK
  <2>4. /\ hostSlots' \in [HSlot -> Expert \cup {NoExpert}] /\ hostRes' \in [HSlot -> Nat]
        /\ freeHost' \in Seq(HSlot)
    <3>1. CASE owner[g] = "WARM"
      <4>1. slotIdx[g] \in HSlot
        BY <3>1, Zenon DEF IInv, EntryInv, EntryOK
      <4>2. /\ hostSlots' = [hostSlots EXCEPT ![slotIdx[g]] = NoExpert]
            /\ hostRes' = [hostRes EXCEPT ![slotIdx[g]] = 0]
            /\ freeHost' = Append(freeHost, slotIdx[g])
        BY <3>1, Zenon DEF CompleteRequest
      <4>3. freeHost' \in Seq(HSlot)
        BY <4>1, <4>2 DEF IInv, TypeOK
      <4>4. hostSlots' \in [HSlot -> Expert \cup {NoExpert}] /\ hostRes' \in [HSlot -> Nat]
        BY <4>1, <4>2, Zenon DEF IInv, TypeOK
      <4> QED BY <4>3, <4>4
    <3>2. CASE owner[g] # "WARM"
      <4>1. UNCHANGED <<hostSlots, hostRes, freeHost>>
        BY <3>2, Zenon DEF CompleteRequest
      <4> QED BY <4>1, Zenon DEF IInv, TypeOK
    <3> QED BY <3>1, <3>2
  <2> QED BY <1>5, <1>11, <2>1, <2>2, <2>3, <2>4, Zenon DEF IInv, TypeOK, ListOver, modeVars
<1>13. LruInv'
  <2>1. \A e \in Expert : e \in Range(hotLru) => e \notin V
    BY Zenon DEF IInv, LruInv, V, Victims
  <2>2. \A e \in Expert : e \in Range(warmLru) => e \notin V /\ e # g
    BY <1>7, Zenon DEF IInv, LruInv, WarmLruInv, V, Victims
  <2> QED BY <1>5, <1>11, <2>1, <2>2, Zenon DEF IInv, LruInv, WarmLruInv
<1>14. FreeInv'
  <2>1. \A s \in VSlot : vramRes'[s] = IF s = d THEN 0 ELSE vramRes[s]
    BY <1>5, Zenon DEF IInv, TypeOK
  <2>2. FreeInv /\ freeVram' = freeVram
    BY <1>5, Zenon DEF IInv, VramInv
  <2>3. d \notin Range(freeVram) /\ g # NoExpert
    BY <1>3, <1>7, Zenon
  <2> QED BY ONLY <1>6, <2>1, <2>2, <2>3, Zenon DEF FreeInv
<1>15. HolderInv'
  <2>1. ASSUME NEW s \in VSlot, NEW e \in Expert PROVE (vramSlots[s] = e <=> Holds(e, s))'
    <3>1. vramSlots[s] = e <=> Holds(e, s)
      BY DEF IInv, VramInv, HolderInv
    <3>2. s # NoSlot
      BY DEF VSlot, NoSlot
    <3>3. CASE e = g
      BY <1>5, <1>6, <1>7, <3>1, <3>2, <3>3, Zenon DEF Holds
    <3>4. CASE e \in V
      <4>1. shadowSlot[e] = NoSlot /\ e # g
        BY <1>4, <3>4, Zenon DEF IInv, EntryInv, EntryOK
      <4>2. ~Holds(e, s)'
        BY <1>5, <3>2, <3>4, <4>1, Zenon DEF Holds
      <4>3. vramSlots'[s] # e
        <5>1. owner[e] = "HOT" /\ slotIdx[e] = d /\ vramSlots[d] = e
          BY <1>4, <3>4, Zenon
        <5>2. s # d => ~Holds(e, s)
          BY <3>2, <4>1, <5>1, Zenon DEF Holds
        <5> QED BY <1>6, <3>1, <4>1, <5>2, Zenon
      <4> QED BY <4>2, <4>3
    <3>5. CASE e \notin V /\ e # g
      <4>1. Holds(e, s)' <=> Holds(e, s)
        BY <1>5, <3>5, Zenon DEF Holds
      <4>2. vramSlots[d] # e
        BY <1>3, <3>5, ExpertAssumption DEF NoExpert
      <4> QED BY <1>6, <3>1, <3>5, <4>1, <4>2, Zenon
    <3> QED BY <3>3, <3>4, <3>5
  <2> QED BY <2>1 DEF HolderInv
<1> QED BY <1>10, <1>12, <1>13, <1>14, <1>15 DEF IInv, VramInv

(* A shadow copy has no victim, so nothing but its own entry is retired. *)
LEMMA ShadowAlone ==
  ASSUME IInv, NEW g \in Expert, IsIncoming(g), warmShadow[g]
  PROVE  /\ Victims(operationId[g]) = {} /\ Settled(g) /\ Retired(g) = {g}
         /\ owner[g] = "WARM" /\ slotIdx[g] \in HSlot /\ shadowSlot[g] = NoSlot /\ frozen
         /\ operationId[g] \in Nat /\ nextOp \in Nat \ {0}
<1>1. Victims(operationId[g]) = {}
  BY VictimOf, Zenon
<1>2. Settled(g) /\ Retired(g) = {g}
  BY <1>1 DEF Settled, Retired
<1>3. /\ owner[g] = "WARM" /\ slotIdx[g] \in HSlot /\ shadowSlot[g] = NoSlot /\ frozen
      /\ operationId[g] \in Nat /\ nextOp \in Nat \ {0}
  BY Zenon DEF IInv, TypeOK, EntryInv, EntryOK, IsIncoming
<1> QED BY <1>1, <1>2, <1>3, Zenon

(* A shadow copy lands: the slot is held by it. *)
LEMMA CompleteShadowStep ==
  ASSUME IInv, NEW g \in Expert, CompleteShadow(g)
  PROVE  IInv'
<1>1. IsIncoming(g) /\ warmShadow[g] /\ pendingSlot[g] # NoSlot
  BY Zenon DEF CompleteShadow
<1>2. PICK d \in VSlot : d = pendingSlot[g]
  BY <1>1, Zenon DEF IInv, TypeOK
<1>3. /\ Victims(operationId[g]) = {} /\ Settled(g) /\ Retired(g) = {g}
      /\ owner[g] = "WARM" /\ slotIdx[g] \in HSlot /\ shadowSlot[g] = NoSlot /\ frozen
      /\ operationId[g] \in Nat /\ nextOp \in Nat \ {0}
  BY <1>1, ShadowAlone, Zenon
<1>4. /\ vramRes[d] = operationId[g] /\ operationId[g] # 0 /\ d \notin Range(freeVram)
      /\ vramSlots[d] = NoExpert
  BY <1>1, <1>2, <1>3, DestinationOf, Zenon
<1>5. /\ operation' = [operation EXCEPT ![g] = "NONE"]
      /\ operationId' = [operationId EXCEPT ![g] = 0]
      /\ gpuTransfer' = [gpuTransfer EXCEPT ![g] = "NONE"]
      /\ pendingSlot' = [pendingSlot EXCEPT ![g] = NoSlot]
      /\ warmShadow' = [warmShadow EXCEPT ![g] = FALSE]
      /\ shadowSlot' = [shadowSlot EXCEPT ![g] = d]
      /\ vramSlots' = [vramSlots EXCEPT ![d] = g]
      /\ vramRes' = [vramRes EXCEPT ![d] = 0]
      /\ warmLru' = PushFront(warmLru, g)
      /\ shadowLru' = Touch(shadowLru, g)
      /\ UNCHANGED <<owner, slotIdx, leases, marked, freeVram, hostVars, hotLru, nextOp,
                     demotions, modeVars>>
  BY <1>2, Zenon DEF CompleteShadow
<1>6. TypeOK /\ g # NoExpert /\ d # NoSlot
  BY ExpertAssumption DEF IInv, NoExpert, VSlot, NoSlot
<1>7. /\ operation'[g] = "NONE" /\ gpuTransfer'[g] = "NONE" /\ pendingSlot'[g] = NoSlot
      /\ ~warmShadow'[g] /\ operationId'[g] = 0 /\ shadowSlot'[g] = d
      /\ owner'[g] = "WARM" /\ slotIdx'[g] \in HSlot /\ frozen'
      /\ \A e \in Expert \ {g} : SameOperation(e) /\ Stays(e)
      /\ \A s \in VSlot : vramRes'[s] = IF s = d THEN 0 ELSE vramRes[s]
      /\ \A s \in VSlot : vramSlots'[s] = IF s = d THEN g ELSE vramSlots[s]
  BY <1>3, <1>5, <1>6, Zenon DEF TypeOK, SameOperation, Stays, modeVars
<1>8. RetiresOperation(g)
  <2>1. UNCHANGED <<nextOp, demotions, frozen, stream>>
    BY <1>5 DEF modeVars
  <2>2. Retired(g) = {g}
    BY <1>3
  <2>3. \A e \in Expert \ {g} : /\ pendingSlot'[e] = pendingSlot[e] /\ warmShadow'[e] = warmShadow[e]
                               /\ operationId'[e] = operationId[e]
    BY <1>7, Zenon DEF SameOperation
  <2> QED BY ONLY <1>2, <1>7, <2>1, <2>2, <2>3, Zenon DEF RetiresOperation
<1>9. EntryOK(g)'
  <2>0. nextOp' = nextOp
    BY ONLY <1>5
  <2>1. 0 < nextOp'
    BY ONLY <1>3, <2>0
  <2> QED BY ONLY <1>7, <2>1, Zenon DEF EntryOK, IsIncoming
<1>10. EntryInv' /\ CountInv' /\ ClaimInv' /\ VictimInv'
  BY <1>1, <1>3, <1>8, <1>9, RetireStep, Zenon
<1>11. /\ ListOver(warmLru', Expert) /\ Range(warmLru') = Range(warmLru) \cup {g}
       /\ ListOver(shadowLru', Expert) /\ Range(shadowLru') = Range(shadowLru) \cup {g}
  BY <1>5, PushFrontList, TouchList, Zenon DEF IInv, LruInv, WarmLruInv
<1>12. TypeOK'
  BY <1>5, <1>6, <1>11, Zenon DEF TypeOK, ListOver, modeVars, hostVars, Operation, GpuTransfer
<1>13. LruInv'
  <2>1. LruInv /\ hotLru' = hotLru
    BY <1>5 DEF IInv
  <2>2. owner[g] = "WARM"
    BY <1>3, Zenon
  <2>3. \A e \in Expert \ {g} : /\ owner'[e] = owner[e] /\ operation'[e] = operation[e]
                               /\ shadowSlot'[e] = shadowSlot[e]
    BY <1>7, Zenon DEF SameOperation, Stays
  <2>4. owner'[g] = "WARM" /\ operation'[g] = "NONE" /\ shadowSlot'[g] # NoSlot
    BY <1>6, <1>7, Zenon
  <2> QED BY ONLY <1>11, <2>1, <2>2, <2>3, <2>4, Zenon DEF LruInv, WarmLruInv
<1>14. FreeInv'
  <2>1. FreeInv /\ freeVram' = freeVram
    BY <1>5, Zenon DEF IInv, VramInv
  <2>2. /\ \A s \in VSlot \ {d} : vramSlots'[s] = vramSlots[s] /\ vramRes'[s] = vramRes[s]
        /\ vramSlots'[d] # NoExpert
    BY <1>6, <1>7, Zenon
  <2> QED BY ONLY <1>4, <2>1, <2>2, Zenon DEF FreeInv
<1>15. HolderInv'
  <2>1. ASSUME NEW s \in VSlot, NEW e \in Expert PROVE (vramSlots[s] = e <=> Holds(e, s))'
    <3>1. vramSlots[s] = e <=> Holds(e, s)
      BY DEF IInv, VramInv, HolderInv
    <3>2. CASE e = g
      <4>1. ~Holds(g, s) /\ vramSlots[s] # g
        <5>1. s # NoSlot
          BY ONLY CapacityAssumption, s \in VSlot DEF VSlot, NoSlot
        <5> QED BY ONLY <1>3, <3>1, <3>2, <5>1, Zenon DEF Holds
      <4> QED BY <1>7, <3>2, <4>1, Zenon DEF Holds
    <3>3. CASE e # g
      <4>1. Holds(e, s)' <=> Holds(e, s)
        BY <1>7, <3>3, Zenon DEF Holds, Stays
      <4>2. e # NoExpert
        BY ExpertAssumption DEF NoExpert
      <4> QED BY <1>4, <1>7, <3>1, <3>3, <4>1, <4>2, Zenon
    <3> QED BY <3>2, <3>3
  <2> QED BY <2>1 DEF HolderInv
<1> QED BY <1>10, <1>12, <1>13, <1>14, <1>15 DEF IInv, VramInv

(* A slot that a failed request gives back, empty, is free again. *)
LEMMA ReturnSlot ==
  ASSUME IInv, NEW g \in Expert, IsIncoming(g),
         \A s \in VSlot : vramRes'[s] = IF s = pendingSlot[g] THEN 0 ELSE vramRes[s],
         \A s \in VSlot : vramSlots'[s] = IF s = pendingSlot[g] THEN NoExpert ELSE vramSlots[s],
         freeVram' = IF pendingSlot[g] # NoSlot THEN Append(freeVram, pendingSlot[g]) ELSE freeVram
  PROVE  FreeInv'
<1>1. ListOver(freeVram, VSlot) /\ pendingSlot[g] \in VSlot \cup {NoSlot}
  BY Zenon DEF IInv, VramInv, FreeInv, TypeOK
<1>2. CASE pendingSlot[g] = NoSlot
  <2>1. \A s \in VSlot : s # NoSlot
    BY ONLY CapacityAssumption DEF VSlot, NoSlot
  <2>2. /\ \A s \in VSlot : vramRes'[s] = vramRes[s] /\ vramSlots'[s] = vramSlots[s]
        /\ freeVram' = freeVram
    BY <1>2, <2>1
  <2>3. FreeInv
    BY ONLY IInv DEF IInv, VramInv
  <2> QED BY ONLY <2>2, <2>3, Zenon DEF FreeInv
<1>3. CASE pendingSlot[g] # NoSlot
  <2>1. PICK d \in VSlot : d = pendingSlot[g]
    BY <1>1, <1>3, Zenon
  <2>2. d \notin Range(freeVram)
    BY <2>1, DestinationOf, Zenon
  <2>3. ListOver(freeVram', VSlot) /\ Range(freeVram') = Range(freeVram) \cup {d}
    BY <1>1, <1>3, <2>1, <2>2, AppendList
  <2> QED BY <2>1, <2>3, Zenon DEF IInv, VramInv, FreeInv
<1> QED BY <1>2, <1>3

-----------------------------------------------------------------------------
(* The failures of a request. *)

(* A shadow copy fails: its slot is free again and Warm alone has the expert. *)
LEMMA FailShadowStep ==
  ASSUME IInv, NEW g \in Expert, FailShadow(g)
  PROVE  IInv'
<1>1. IsIncoming(g) /\ warmShadow[g] /\ TypeOK
  BY Zenon DEF FailShadow, IInv
<1>2. /\ Victims(operationId[g]) = {} /\ Settled(g) /\ Retired(g) = {g}
      /\ owner[g] = "WARM" /\ slotIdx[g] \in HSlot /\ shadowSlot[g] = NoSlot /\ frozen
      /\ operationId[g] \in Nat /\ nextOp \in Nat \ {0}
  BY <1>1, ShadowAlone, Zenon
<1>3. /\ pendingSlot[g] \in VSlot \cup {NoSlot} /\ \A s \in VSlot : s # NoSlot
      /\ pendingSlot[g] # NoSlot => vramSlots[pendingSlot[g]] = NoExpert
  <2>1. pendingSlot[g] \in VSlot \cup {NoSlot} /\ \A s \in VSlot : s # NoSlot
    BY <1>1 DEF TypeOK, VSlot, NoSlot
  <2> QED BY <1>1, <1>2, <2>1, DestinationOf, Zenon
<1>4. /\ operation' = [operation EXCEPT ![g] = "NONE"]
      /\ operationId' = [operationId EXCEPT ![g] = 0]
      /\ gpuTransfer' = [gpuTransfer EXCEPT ![g] = "NONE"]
      /\ pendingSlot' = [pendingSlot EXCEPT ![g] = NoSlot]
      /\ warmShadow' = [warmShadow EXCEPT ![g] = FALSE]
      /\ vramRes' = (IF pendingSlot[g] = NoSlot THEN vramRes
                     ELSE [vramRes EXCEPT ![pendingSlot[g]] = 0])
      /\ freeVram' = (IF pendingSlot[g] # NoSlot THEN Append(freeVram, pendingSlot[g]) ELSE freeVram)
      /\ warmLru' = PushFront(warmLru, g)
      /\ UNCHANGED <<owner, slotIdx, leases, shadowSlot, marked, vramSlots, hostVars, hotLru,
                     shadowLru, nextOp, demotions, modeVars>>
  BY <1>3, Zenon DEF FailShadow
<1>5. /\ operation'[g] = "NONE" /\ gpuTransfer'[g] = "NONE" /\ pendingSlot'[g] = NoSlot
      /\ ~warmShadow'[g] /\ operationId'[g] = 0 /\ shadowSlot'[g] = NoSlot
      /\ owner'[g] = "WARM" /\ slotIdx'[g] \in HSlot /\ frozen'
      /\ \A e \in Expert \ {g} : SameOperation(e) /\ Stays(e)
  BY <1>1, <1>2, <1>4, Zenon DEF TypeOK, SameOperation, Stays, modeVars
<1>6. /\ \A s \in VSlot : vramRes'[s] = IF s = pendingSlot[g] THEN 0 ELSE vramRes[s]
      /\ \A s \in VSlot : vramSlots'[s] = IF s = pendingSlot[g] THEN NoExpert ELSE vramSlots[s]
  BY <1>1, <1>3, <1>4, Zenon DEF TypeOK
<1>7. RetiresOperation(g)
  BY <1>2, <1>4, <1>5, <1>6, Zenon DEF RetiresOperation, SameOperation, modeVars
<1>8. EntryOK(g)'
  <2>1. nextOp' = nextOp
    BY ONLY <1>4
  <2>2. operationId'[g] < nextOp'
    BY ONLY <1>2, <1>5, <2>1
  <2> QED BY ONLY <1>5, <2>2, Zenon DEF EntryOK, IsIncoming
<1>9. EntryInv' /\ CountInv' /\ ClaimInv' /\ VictimInv'
  BY <1>1, <1>2, <1>7, <1>8, RetireStep, Zenon
<1>10. FreeInv'
  BY <1>1, <1>4, <1>6, ReturnSlot, Zenon
<1>11. ListOver(warmLru', Expert) /\ Range(warmLru') = Range(warmLru) \cup {g}
  BY <1>4, PushFrontList, Zenon DEF IInv, LruInv, WarmLruInv
<1>12. TypeOK'
  <2>1. vramRes' \in [VSlot -> Nat]
    BY <1>1, <1>3, <1>4, Zenon DEF TypeOK
  <2>2. freeVram' \in Seq(VSlot) /\ warmLru' \in Seq(Expert)
    BY <1>10, <1>11 DEF FreeInv, ListOver
  <2> QED BY <1>1, <1>4, <2>1, <2>2, Zenon DEF TypeOK, modeVars, hostVars, Operation, GpuTransfer
<1>13. LruInv'
  <2>1. LruInv /\ UNCHANGED <<hotLru, shadowLru, shadowSlot>>
    BY ONLY <1>4, IInv, Zenon DEF IInv
  <2>2. \A e \in Expert \ {g} : owner'[e] = owner[e] /\ operation'[e] = operation[e]
    BY ONLY <1>5, Zenon DEF SameOperation, Stays
  <2> QED BY ONLY <1>2, <1>5, <1>11, <2>1, <2>2, Zenon DEF LruInv, WarmLruInv
<1>14. HolderInv'
  BY <1>4, Zenon DEF IInv, VramInv, HolderInv, Holds
<1> QED BY <1>9, <1>10, <1>12, <1>13, <1>14 DEF IInv, VramInv

(* A failed request: its victim, if its demotion was dropped, is Cold, and its
   slot is empty and free. *)
LEMMA FailIncomingStep ==
  ASSUME IInv, NEW g \in Expert, FailIncoming(g),
         NEW V, V = Victims(operationId[g]),
         owner' = [e \in Expert |-> IF e \in V THEN "COLD" ELSE owner[e]],
         slotIdx' = [e \in Expert |-> IF e \in V THEN NoSlot ELSE slotIdx[e]],
         vramSlots' \in [VSlot -> Expert \cup {NoExpert}],
         \A s \in VSlot : vramSlots'[s] = IF s = pendingSlot[g] THEN NoExpert ELSE vramSlots[s],
         freeVram' = IF pendingSlot[g] # NoSlot THEN Append(freeVram, pendingSlot[g]) ELSE freeVram
  PROVE  IInv'
<1>1. IsIncoming(g) /\ ~warmShadow[g] /\ Settled(g) /\ TypeOK /\ Retired(g) = {g} \cup V
  BY Zenon DEF FailIncoming, IInv, Retired
<1>2. /\ V \subseteq Expert /\ g \notin V
      /\ \A v \in V : /\ owner[v] = "HOT" /\ slotIdx[v] = pendingSlot[g] /\ operation[v] = "DEMOTION"
                      /\ pendingSlot[g] \in VSlot /\ vramSlots[pendingSlot[g]] = v
  <2>1. ASSUME NEW v \in V
        PROVE  /\ v \in Expert /\ v # g /\ owner[v] = "HOT" /\ slotIdx[v] = pendingSlot[g]
               /\ operation[v] = "DEMOTION" /\ pendingSlot[g] \in VSlot /\ vramSlots[pendingSlot[g]] = v
    <3>1. v \in Victims(operationId[g])
      BY Zenon
    <3>2. /\ v \in Expert /\ v # g /\ owner[v] = "HOT" /\ slotIdx[v] \in VSlot
          /\ pendingSlot[g] = slotIdx[v] /\ vramSlots[slotIdx[v]] = v
      BY ONLY <1>1, <3>1, IInv, g \in Expert, VictimOf, Zenon
    <3>3. operation[v] = "DEMOTION"
      BY ONLY <3>1 DEF Victims
    <3> QED BY ONLY <3>2, <3>3, Zenon
  <2> QED BY ONLY <2>1, Zenon
<1>3. /\ EntryOK(g) /\ owner[g] # "HOT" /\ shadowSlot[g] = NoSlot /\ operation[g] # "NONE"
      /\ operationId[g] < nextOp /\ operationId[g] \in Nat
  BY <1>1, Zenon DEF IInv, TypeOK, EntryInv, EntryOK, IsIncoming
<1>4. /\ operation' = [e \in Expert |-> IF e \in {g} \cup V THEN "NONE" ELSE operation[e]]
      /\ gpuTransfer' = [e \in Expert |-> IF e \in {g} \cup V THEN "NONE" ELSE gpuTransfer[e]]
      /\ pendingSlot' = [pendingSlot EXCEPT ![g] = NoSlot]
      /\ vramRes' = (IF pendingSlot[g] = NoSlot THEN vramRes
                     ELSE [vramRes EXCEPT ![pendingSlot[g]] = 0])
      /\ UNCHANGED <<operationId, leases, shadowSlot, warmShadow, marked, hostSlots, freeHost,
                     usable, hotLru, shadowLru, nextOp, demotions, modeVars>>
  BY <1>1, Zenon DEF FailIncoming, ClearOperations
<1>5. pendingSlot[g] \in VSlot \cup {NoSlot} /\ \A s \in VSlot : s # NoSlot
  BY <1>1 DEF TypeOK, VSlot, NoSlot
<1>6. /\ operation'[g] = "NONE" /\ gpuTransfer'[g] = "NONE" /\ pendingSlot'[g] = NoSlot
      /\ ~warmShadow'[g] /\ Stays(g)
      /\ \A e \in Expert \ ({g} \cup V) : SameOperation(e) /\ Stays(e)
      /\ \A e \in Expert \ {g} : pendingSlot'[e] = pendingSlot[e]
  <2>1. \A e \in Expert \ V : Stays(e)
    BY <1>4, Zenon DEF Stays
  <2>2. \A e \in Expert \ {g} : pendingSlot'[e] = pendingSlot[e]
    BY ONLY <1>1, <1>4, Zenon DEF TypeOK
  <2>3. \A e \in Expert \ ({g} \cup V) : SameOperation(e)
    BY ONLY <1>4, <2>2, Zenon DEF SameOperation
  <2>4. /\ operation'[g] = "NONE" /\ gpuTransfer'[g] = "NONE" /\ pendingSlot'[g] = NoSlot
        /\ ~warmShadow'[g]
    BY ONLY <1>1, <1>4, g \in Expert, Zenon DEF TypeOK
  <2> QED BY ONLY <1>2, <2>1, <2>2, <2>3, <2>4, g \in Expert, Zenon
<1>7. \A s \in VSlot : vramRes'[s] = IF s = pendingSlot[g] THEN 0 ELSE vramRes[s]
  BY <1>1, <1>4, <1>5, Zenon DEF TypeOK
<1>8. RetiresOperation(g)
  <2>1. /\ \A e \in {g} \cup V : operation'[e] = "NONE" /\ gpuTransfer'[e] = "NONE"
        /\ \A e \in V : owner'[e] = "COLD" /\ slotIdx'[e] = NoSlot
    BY <1>2, <1>4, Zenon
  <2>2. UNCHANGED <<operationId, warmShadow, shadowSlot, nextOp, demotions, frozen, stream>>
    BY ONLY <1>4, Zenon DEF modeVars
  <2>3. \A s \in VSlot : s # pendingSlot[g] => vramSlots'[s] = vramSlots[s]
    BY Zenon
  <2> QED BY ONLY <1>1, <1>6, <1>7, <2>1, <2>2, <2>3, Zenon DEF RetiresOperation
<1>9. EntryOK(g)'
  BY <1>3, <1>4, <1>6, Zenon DEF EntryOK, IsIncoming, Stays
<1>10. EntryInv' /\ CountInv' /\ ClaimInv' /\ VictimInv'
  BY <1>1, <1>8, <1>9, RetireStep, Zenon
<1>11. FreeInv'
  BY <1>1, <1>7, ReturnSlot, Zenon
<1>12. /\ WarmLruInv' /\ warmLru' \in Seq(Expert) /\ hostRes' \in [HSlot -> Nat]
  <2>1. \A e \in Expert : e \in Range(warmLru) => e \notin V /\ e # g
    BY ONLY <1>2, <1>3, IInv, Zenon DEF IInv, LruInv, WarmLruInv
  <2>2. CASE owner[g] = "WARM"
    <3>1. ListOver(warmLru', Expert) /\ Range(warmLru') = Range(warmLru) \cup {g}
      <4>1. warmLru' = PushFront(warmLru, g)
        BY ONLY <2>2, FailIncoming(g), Zenon DEF FailIncoming
      <4>2. ListOver(warmLru, Expert)
        BY ONLY IInv DEF IInv, LruInv, WarmLruInv
      <4> QED BY ONLY <4>1, <4>2, g \in Expert, PushFrontList
    <3>2. hostRes' \in [HSlot -> Nat]
      <4>1. hostRes' = [hostRes EXCEPT ![slotIdx[g]] = 0]
        BY <2>2, Zenon DEF FailIncoming
      <4> QED BY <1>1, <4>1, Zenon DEF TypeOK
    <3>3. owner'[g] = "WARM" /\ operation'[g] = "NONE"
      BY <1>6, <2>2, Zenon DEF Stays
    <3>4. \A e \in Expert \ ({g} \cup V) : owner'[e] = owner[e] /\ operation'[e] = operation[e]
      BY <1>6, Zenon DEF SameOperation, Stays
    <3> QED BY <2>1, <3>1, <3>2, <3>3, <3>4, Zenon DEF IInv, LruInv, WarmLruInv, ListOver
  <2>3. CASE owner[g] # "WARM"
    <3>1. warmLru' = warmLru /\ hostRes' = hostRes
      BY <2>3, Zenon DEF FailIncoming
    <3>4. \A e \in Expert \ ({g} \cup V) : owner'[e] = owner[e] /\ operation'[e] = operation[e]
      BY <1>6, Zenon DEF SameOperation, Stays
    <3> QED BY <1>1, <2>1, <3>1, <3>4, Zenon DEF IInv, TypeOK, LruInv, WarmLruInv
  <2> QED BY <2>2, <2>3, Zenon
<1>13. TypeOK'
  <2>1. vramRes' \in [VSlot -> Nat]
    BY <1>1, <1>4, <1>5, Zenon DEF TypeOK
  <2>2. freeVram' \in Seq(VSlot)
    BY <1>11, Zenon DEF FreeInv, ListOver
  <2>3. /\ owner' \in [Expert -> Tier] /\ operation' \in [Expert -> Operation]
        /\ gpuTransfer' \in [Expert -> GpuTransfer] /\ pendingSlot' \in [Expert -> VSlot \cup {NoSlot}]
    BY <1>1, <1>4, Zenon DEF TypeOK, Tier, Operation, GpuTransfer
  <2>4. slotIdx' \in [Expert -> Nat \cup {NoSlot}]
    BY <1>1, Zenon DEF TypeOK
  <2> QED BY <1>1, <1>4, <1>12, <2>1, <2>2, <2>3, <2>4, Zenon DEF TypeOK, modeVars
<1>14. LruInv'
  <2>1. \A e \in Expert : e \in Range(hotLru) => e \notin V /\ e # g
    BY <1>2, <1>3, Zenon DEF IInv, LruInv
  <2>2. \A e \in Expert \ ({g} \cup V) : owner'[e] = owner[e] /\ operation'[e] = operation[e]
    BY <1>6, Zenon DEF SameOperation, Stays
  <2> QED BY <1>4, <1>12, <2>1, <2>2, Zenon DEF IInv, LruInv
<1>15. HolderInv'
  <2>1. \A e \in V : shadowSlot[e] = NoSlot
    BY <1>2, Zenon DEF IInv, EntryInv, EntryOK
  <2>2. \A s \in VSlot : vramSlots'[s] = IF vramSlots[s] \in V THEN NoExpert ELSE vramSlots[s]
    <3> SUFFICES ASSUME NEW s \in VSlot
                 PROVE  vramSlots'[s] = IF vramSlots[s] \in V THEN NoExpert ELSE vramSlots[s]
      BY Zenon
    <3>1. CASE s = pendingSlot[g]
      BY <1>1, <3>1, DestinationOf, Zenon
    <3>2. CASE s # pendingSlot[g]
      <4>1. ASSUME vramSlots[s] \in V PROVE FALSE
        <5>1. PICK v \in V : v = vramSlots[s]
          BY <4>1, Zenon
        <5>2. Holds(v, s)
          BY <1>2, <5>1, Zenon DEF IInv, VramInv, HolderInv
        <5>3. slotIdx[v] = pendingSlot[g] /\ shadowSlot[v] = NoSlot /\ s # NoSlot
          BY ONLY <1>2, <1>5, <2>1, s \in VSlot, v \in V, Zenon
        <5> QED BY ONLY <3>2, <5>2, <5>3, Zenon DEF Holds
      <4> QED BY <3>2, <4>1, Zenon
    <3> QED BY <3>1, <3>2, Zenon
  <2>3. /\ \A e \in V : owner'[e] # "HOT" /\ shadowSlot'[e] = NoSlot
        /\ \A e \in Expert \ V : Stays(e)
    BY <1>2, <1>4, <1>6, <2>1, Zenon
  <2> QED BY <1>2, <2>2, <2>3, ReleaseHolders, Zenon
<1> QED BY <1>10, <1>11, <1>13, <1>14, <1>15, Zenon DEF IInv, VramInv

(* fail_request of an operation without a victim. *)
LEMMA FailRequestStep ==
  ASSUME IInv, NEW g \in Expert, FailRequest(g)
  PROVE  IInv'
<1>1. FailIncoming(g) /\ IsIncoming(g) /\ Victims(operationId[g]) = {} /\ TypeOK
  BY Zenon DEF FailRequest, FailIncoming, IInv
<1>2. /\ pendingSlot[g] \in VSlot \cup {NoSlot} /\ \A s \in VSlot : s # NoSlot
      /\ pendingSlot[g] # NoSlot => vramSlots[pendingSlot[g]] = NoExpert
  <2>1. pendingSlot[g] \in VSlot \cup {NoSlot} /\ \A s \in VSlot : s # NoSlot
    BY <1>1 DEF TypeOK, VSlot, NoSlot
  <2> QED BY <1>1, <2>1, DestinationOf, Zenon
<1>3. /\ owner' = owner /\ slotIdx' = slotIdx /\ vramSlots' = vramSlots
      /\ freeVram' = (IF pendingSlot[g] # NoSlot THEN Append(freeVram, pendingSlot[g]) ELSE freeVram)
  BY <1>2, Zenon DEF FailRequest
<1>4. /\ vramSlots' \in [VSlot -> Expert \cup {NoExpert}]
      /\ \A s \in VSlot : vramSlots'[s] = IF s = pendingSlot[g] THEN NoExpert ELSE vramSlots[s]
  BY <1>1, <1>2, <1>3, Zenon DEF TypeOK
<1>5. /\ owner' = [e \in Expert |-> IF e \in {} THEN "COLD" ELSE owner[e]]
      /\ slotIdx' = [e \in Expert |-> IF e \in {} THEN NoSlot ELSE slotIdx[e]]
  BY <1>1, <1>3, Zenon DEF TypeOK
<1> QED BY <1>1, <1>3, <1>4, <1>5, FailIncomingStep, Zenon

(* fail_request of an operation whose victim's demotion was dropped: the slot
   goes back to the free list once, although two branches may return it. *)
LEMMA FailRequestWithVictimStep ==
  ASSUME IInv, NEW g \in Expert, FailRequestWithVictim(g)
  PROVE  IInv'
<1>1. PICK v \in Victims(operationId[g]) :
        /\ FailIncoming(g)
        /\ IF vramSlots[slotIdx[v]] = v
           THEN /\ vramSlots' = [vramSlots EXCEPT ![slotIdx[v]] = NoExpert]
                /\ freeVram' = Append(IF pendingSlot[g] # NoSlot /\ vramSlots[pendingSlot[g]] = NoExpert
                                      THEN Append(freeVram, pendingSlot[g]) ELSE freeVram, slotIdx[v])
           ELSE TRUE
        /\ owner' = [owner EXCEPT ![v] = "COLD"]
        /\ slotIdx' = [slotIdx EXCEPT ![v] = NoSlot]
  BY Zenon DEF FailRequestWithVictim
<1>2. IsIncoming(g) /\ TypeOK
  BY <1>1, Zenon DEF FailIncoming, IInv
<1>3. /\ v \in Expert /\ v # g /\ slotIdx[v] \in VSlot /\ pendingSlot[g] = slotIdx[v]
      /\ vramSlots[slotIdx[v]] = v /\ v # NoExpert /\ slotIdx[v] # NoSlot
  BY <1>2, VictimOf, ExpertAssumption DEF NoExpert, VSlot, NoSlot
<1>4. Victims(operationId[g]) = {v}
  <2>1. \A w \in Victims(operationId[g]) : w = v
    BY <1>2, <1>3, VictimOf
  <2> QED BY <2>1
<1>5. /\ vramSlots' = [vramSlots EXCEPT ![pendingSlot[g]] = NoExpert]
      /\ freeVram' = (IF pendingSlot[g] # NoSlot THEN Append(freeVram, pendingSlot[g]) ELSE freeVram)
  BY <1>1, <1>3, Zenon
<1>6. /\ vramSlots' \in [VSlot -> Expert \cup {NoExpert}]
      /\ \A s \in VSlot : vramSlots'[s] = IF s = pendingSlot[g] THEN NoExpert ELSE vramSlots[s]
  BY <1>2, <1>3, <1>5, Zenon DEF TypeOK
<1>7. /\ owner' = [e \in Expert |-> IF e \in {v} THEN "COLD" ELSE owner[e]]
      /\ slotIdx' = [e \in Expert |-> IF e \in {v} THEN NoSlot ELSE slotIdx[e]]
  BY <1>1, <1>2, <1>3, Zenon DEF TypeOK
<1>8. FailIncoming(g)
  BY <1>1
<1>9. freeVram' = IF pendingSlot[g] # NoSlot THEN Append(freeVram, pendingSlot[g]) ELSE freeVram
  BY <1>5, Zenon
<1> QED BY ONLY IInv, <1>4, <1>6, <1>7, <1>8, <1>9, FailIncomingStep, Zenon
=============================================================================
