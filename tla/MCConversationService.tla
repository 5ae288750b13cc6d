----------------------- MODULE MCConversationService -----------------------
(* ConversationService with two or four clients. *)
EXTENDS ConversationService, TLC

CONSTANTS c1, c2, c3, c4

OneStreaming == {c1}
TwoClients == {c1, c2}
FourClients == {c1, c2, c3, c4}

(* Four clients that send a well-formed request and stay for the answer: a
   longer queue for fewer interleavings of the handlers. *)
PatientSpec == Init /\ [][Next /\ gone' = {} /\ \A c \in Client : answer'[c] # "bad"]_vars
NoStreaming == {}
ClientSymmetry == Permutations(Client)

(* Clients of which the streaming ones may leave or send a malformed request. *)
LeavingSpec ==
  /\ Init /\ Fairness
  /\ [][Next /\ gone' \subseteq Streaming /\ \A c \in Client \ Streaming : answer'[c] # "bad"]_vars
=============================================================================
