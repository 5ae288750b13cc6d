------------------------ MODULE RoutingProfileProofs ------------------------
(***************************************************************************)
(* The resumable routing profile, for any prompts, texts, configurations   *)
(* and number of processes: whatever dies between which two file           *)
(* operations, resuming counts every prompt once, forgets none, and never  *)
(* mixes two configurations.                                               *)
(***************************************************************************)
EXTENDS RoutingProfile, TLAPS

(* What a state must say for a run to be resumed from it. *)
Sound(s) ==
    /\ DOMAIN s.completed \subseteq Prompts
    /\ s.counts \in [Prompts -> Nat]
    /\ \A p \in Prompts : s.counts[p] = IF p \in DOMAIN s.completed THEN 1 ELSE 0
    /\ s.failed \cap DOMAIN s.completed = {}

(* t has every prompt that s completed, with the same text. *)
Continues(s, t) ==
    \A p \in DOMAIN s.completed : p \in DOMAIN t.completed /\ t.completed[p] = s.completed[p]

Names == {"state", "counts", "ranking", "summary", "progress", "metadata"}

(* The files a checkpoint at file f has already published. *)
Before(f) ==
    CASE f = "state" -> {}
      [] f = "counts" -> {"state"}
      [] f = "ranking" -> {"state", "counts"}
      [] f = "summary" -> {"state", "counts", "ranking"}
      [] f = "progress" -> {"state", "counts", "ranking", "summary"}
      [] f = "metadata" -> {"state", "counts", "ranking", "summary", "progress"}
      [] OTHER -> {}

(* The files in the directory: the state is complete, no report is ahead of it,
   metadata.json names everybody's configuration, and until it exists nothing
   has been profiled. *)
DiskInv ==
    /\ DOMAIN disk \subseteq Names
    /\ Here("state") => Sound(disk["state"])
    /\ \A f \in DOMAIN disk : Here("state") /\ Continues(disk[f], disk["state"])
    /\ Here("metadata") => \A f \in DOMAIN disk : disk[f].config = disk["metadata"].config
    /\ ~Here("metadata") => \A f \in DOMAIN disk : DOMAIN disk[f].completed = {}

(* The running process: it continues the published state under the directory's
   configuration, what its checkpoint has published is what it holds, and it
   profiles nothing before the first checkpoint is complete. *)
RunInv ==
    pc # "down" =>
        /\ Sound(Content)
        /\ Here("state") => Continues(disk["state"], Content)
        /\ Here("metadata") => disk["metadata"].config = config
        /\ ~Here("metadata") => DOMAIN completed = {} /\ pc # "ready"
        /\ \A f \in Before(pc) : Here(f) /\ disk[f] = Content

ProfileInv == pc \in {"down", "ready"} \union Names /\ DiskInv /\ RunInv

-----------------------------------------------------------------------------
(* The order of the files. *)
LEMMA FileOrder ==
  /\ Range(Files) = Names /\ Files[1] = "state"
  /\ NextFile("state") = "counts" /\ NextFile("counts") = "ranking"
  /\ NextFile("ranking") = "summary" /\ NextFile("summary") = "progress"
  /\ NextFile("progress") = "metadata" /\ NextFile("metadata") = "ready"
<1> DEFINE F == Files
<1>1. /\ DOMAIN F = 1 .. 6 /\ Len(F) = 6
      /\ F[1] = "state" /\ F[2] = "counts" /\ F[3] = "ranking" /\ F[4] = "summary"
      /\ F[5] = "progress" /\ F[6] = "metadata"
  BY DEF Files
<1> HIDE DEF F
<1>2. 1 .. 6 = {1, 2, 3, 4, 5, 6}
  OBVIOUS
<1>3. Range(F) = Names
  BY ONLY <1>1, <1>2 DEF Range, Names
<1>4. \A i, j \in 1 .. 6 : F[i] = F[j] => i = j
  BY ONLY <1>1, <1>2
<1>5. ASSUME NEW i \in 1 .. 6
      PROVE  NextFile(F[i]) = IF i = 6 THEN "ready" ELSE F[i + 1]
  <2> DEFINE k == CHOOSE j \in DOMAIN F : F[j] = F[i]
  <2>1. k \in DOMAIN F /\ F[k] = F[i]
    BY ONLY <1>1, i \in 1 .. 6
  <2>2. k = i
    BY ONLY <1>1, <1>4, <2>1, i \in 1 .. 6
  <2>3. NextFile(F[i]) = IF k = Len(F) THEN "ready" ELSE F[k + 1]
    BY DEF NextFile, F
  <2> QED BY ONLY <1>1, <2>2, <2>3
<1>6. /\ NextFile(F[1]) = F[2] /\ NextFile(F[2]) = F[3] /\ NextFile(F[3]) = F[4]
      /\ NextFile(F[4]) = F[5] /\ NextFile(F[5]) = F[6] /\ NextFile(F[6]) = "ready"
  BY ONLY <1>5
<1>7. Range(Files) = Names /\ Files[1] = "state"
  BY <1>1, <1>3 DEF F
<1> QED BY ONLY <1>1, <1>6, <1>7

(* A new process has published nothing. *)
LEMMA InitProfileInv == Init => ProfileInv
BY DEF Init, ProfileInv, DiskInv, RunInv, Nothing, Here, Names

(* What a step leaves alone. *)
LEMMA SameDisk ==
  ASSUME DiskInv, disk' = disk
  PROVE  DiskInv'
BY DEF DiskInv, Here

(* The constructor loads what the last complete checkpoint left. *)
LEMMA OpenStep ==
  ASSUME ProfileInv, NEW c \in Configs, Open(c)
  PROVE  ProfileInv'
<1>1. disk' = disk /\ config' = c /\ pc' = "state"
  BY FileOrder DEF Open
<1>2. DiskInv'
  BY <1>1, SameDisk DEF ProfileInv
<1>3. CASE Here("metadata")
  <2>1. /\ Here("state") /\ disk["metadata"].config = c
        /\ counts' = disk["state"].counts /\ completed' = disk["state"].completed
        /\ failed' = disk["state"].failed
    BY <1>3 DEF Open, LoadState
  <2>2. Sound(Content)'
    BY <2>1 DEF ProfileInv, DiskInv, Sound, Content
  <2>3. Continues(disk["state"], Content)'
    BY <1>1, <2>1 DEF Continues, Content
  <2>4. RunInv'
    BY <1>1, <1>3, <2>1, <2>2, <2>3 DEF RunInv, Here, Before
  <2> QED BY <1>1, <1>2, <2>4 DEF ProfileInv, Names
<1>4. CASE ~Here("metadata")
  <2>1. counts' = NoCounts /\ completed' = Nothing /\ failed' = {} /\ DOMAIN Nothing = {}
    BY <1>4 DEF Open, StartEmpty, Nothing
  <2>2. Sound(Content)'
    BY <2>1 DEF Sound, Content, NoCounts
  <2>3. Here("state") => Continues(disk["state"], Content)'
    BY <1>1, <1>4 DEF Continues, ProfileInv, DiskInv, Here
  <2>4. RunInv'
    BY <1>1, <1>4, <2>1, <2>2, <2>3 DEF RunInv, Here, Before
  <2> QED BY <1>1, <1>2, <2>4 DEF ProfileInv, Names
<1> QED BY <1>3, <1>4

(* A prompt that ran or failed is only remembered by the process. *)
LEMMA PromptStep ==
  ASSUME ProfileInv, NEW p \in Prompts, MarkFailed(p) \/ \E t \in Texts : AddPrompt(p, t)
  PROVE  ProfileInv'
<1>1. /\ pc = "ready" /\ ~IsCompleted(p) /\ pc' = "state" /\ config' = config /\ disk' = disk
  BY FileOrder DEF MarkFailed, AddPrompt
<1>2. DiskInv'
  BY <1>1, SameDisk DEF ProfileInv
<1>3. Sound(Content) /\ Here("metadata") /\ (Here("state") => Continues(disk["state"], Content))
      /\ disk["metadata"].config = config /\ p \notin DOMAIN completed
  BY <1>1 DEF ProfileInv, RunInv, IsCompleted
<1>4. ASSUME Sound(Content)', Continues(Content, [completed |-> completed'])
      PROVE  ProfileInv'
  <2>1. Here("state") => Continues(disk["state"], Content)'
    BY <1>1, <1>3, <1>4 DEF Continues, Content
  <2>2. RunInv'
    BY <1>1, <1>3, <1>4, <2>1 DEF RunInv, Here, Before
  <2> QED BY <1>1, <1>2, <2>2 DEF ProfileInv, Names
<1>5. CASE MarkFailed(p)
  <2>1. counts' = counts /\ completed' = completed /\ failed' = failed \union {p}
    BY <1>5 DEF MarkFailed
  <2>2. Sound(Content)'
    BY <1>3, <2>1 DEF Sound, Content
  <2>3. Continues(Content, [completed |-> completed'])
    BY <2>1 DEF Continues, Content
  <2> QED BY <1>4, <2>2, <2>3
<1>6. ASSUME NEW t \in Texts, AddPrompt(p, t) PROVE ProfileInv'
  <2>1. /\ counts' = [counts EXCEPT ![p] = @ + 1] /\ failed' = failed \ {p}
        /\ completed' = [q \in DOMAIN completed \union {p} |-> IF q = p THEN t ELSE completed[q]]
    BY <1>6 DEF AddPrompt
  <2>2. /\ DOMAIN completed \subseteq Prompts /\ counts \in [Prompts -> Nat]
        /\ \A q \in Prompts : counts[q] = IF q \in DOMAIN completed THEN 1 ELSE 0
        /\ failed \cap DOMAIN completed = {}
    BY <1>3 DEF Sound, Content
  <2>3. /\ DOMAIN completed' = DOMAIN completed \union {p} /\ counts' \in [Prompts -> Nat]
        /\ \A q \in Prompts : counts'[q] = IF q = p THEN counts[p] + 1 ELSE counts[q]
    BY <2>1, <2>2
  <2>4. \A q \in Prompts : counts'[q] = IF q \in DOMAIN completed' THEN 1 ELSE 0
    BY <1>3, <2>2, <2>3
  <2>5. failed' \cap DOMAIN completed' = {}
    BY <2>1, <2>2, <2>3
  <2>6. Sound(Content)'
    BY <2>2, <2>3, <2>4, <2>5 DEF Sound, Content
  <2>7. \A q \in DOMAIN completed : q \in DOMAIN completed' /\ completed'[q] = completed[q]
    BY <1>3, <2>1, <2>3
  <2>8. Continues(Content, [completed |-> completed'])
    BY <2>7 DEF Continues, Content
  <2> QED BY <1>4, <2>6, <2>8
<1> QED BY <1>5, <1>6

(* One rename: the file holds what the process holds. *)
LEMMA PublishStep ==
  ASSUME ProfileInv, Publish
  PROVE  ProfileInv' /\ (Here("state") => Continues(disk["state"], disk'["state"]))
<1>1. /\ pc \in Names /\ pc' = NextFile(pc)
      /\ disk' = [f \in DOMAIN disk \union {pc} |-> IF f = pc THEN Content ELSE disk[f]]
      /\ UNCHANGED <<config, counts, completed, failed>>
  BY FileOrder DEF Publish
<1>2. /\ pc # "down" /\ pc' \in {"ready"} \union Names /\ pc' # "down" /\ Content' = Content
  BY <1>1, FileOrder DEF Names, Content
<1>3. /\ Sound(Content) /\ (Here("state") => Continues(disk["state"], Content))
      /\ Here("metadata") => disk["metadata"].config = config
      /\ ~Here("metadata") => DOMAIN completed = {}
      /\ \A f \in Before(pc) : Here(f) /\ disk[f] = Content
  BY <1>2 DEF ProfileInv, RunInv
<1>4. /\ DOMAIN disk \subseteq Names /\ (Here("state") => Sound(disk["state"]))
      /\ \A f \in DOMAIN disk : Here("state") /\ Continues(disk[f], disk["state"])
      /\ Here("metadata") => \A f \in DOMAIN disk : disk[f].config = disk["metadata"].config
      /\ ~Here("metadata") => \A f \in DOMAIN disk : DOMAIN disk[f].completed = {}
  BY DEF ProfileInv, DiskInv
<1>5. /\ \A f : Here(f)' <=> Here(f) \/ f = pc
      /\ \A f \in DOMAIN disk' : disk'[f] = IF f = pc THEN Content ELSE disk[f]
      /\ DOMAIN disk' = DOMAIN disk \union {pc}
  BY <1>1 DEF Here
<1>6. pc = "state" \/ (pc # "state" /\ Here("state") /\ disk["state"] = Content)
  BY <1>1, <1>3 DEF Before, Names
<1>7. Here("state")' /\ disk'["state"] = Content
  BY <1>5, <1>6 DEF Here
<1>8. \A f \in DOMAIN disk' : Continues(disk'[f], Content)
  <2> SUFFICES ASSUME NEW f \in DOMAIN disk' PROVE Continues(disk'[f], Content)
    OBVIOUS
  <2>1. CASE f = pc
    BY <1>5, <2>1 DEF Continues
  <2>2. CASE f # pc
    <3>1. f \in DOMAIN disk /\ disk'[f] = disk[f]
      BY <1>5, <2>2
    <3>2. Continues(disk[f], disk["state"]) /\ Continues(disk["state"], Content)
      BY <1>3, <1>4, <3>1
    <3> QED BY <3>1, <3>2 DEF Continues
  <2> QED BY <2>1, <2>2
<1>9. \A f \in DOMAIN disk' : Here("metadata")' => disk'[f].config = config
  <2> SUFFICES ASSUME NEW f \in DOMAIN disk', Here("metadata")' PROVE disk'[f].config = config
    OBVIOUS
  <2>0. Content.config = config
    BY DEF Content
  <2>1. CASE f = pc
    BY <1>5, <2>0, <2>1
  <2>2. CASE f # pc /\ Here("metadata")
    BY <1>3, <1>4, <1>5, <2>2
  <2>3. CASE f # pc /\ ~Here("metadata")
    <3>1. pc = "metadata" /\ f \in Names \ {"metadata"}
      BY <1>4, <1>5, <2>3
    <3>2. f \in Before(pc)
      BY <3>1 DEF Before, Names
    <3> QED BY <1>3, <1>5, <2>0, <2>3, <3>2
  <2> QED BY <2>1, <2>2, <2>3
<1>10. ~Here("metadata")' => \A f \in DOMAIN disk' : DOMAIN disk'[f].completed = {}
  <2>1. Content.completed = completed
    BY DEF Content
  <2> QED BY <1>3, <1>4, <1>5, <2>1
<1>11. DiskInv'
  <2>1. Here("metadata")' => disk'["metadata"].config = config
    BY <1>9 DEF Here
  <2> QED BY <1>1, <1>3, <1>4, <1>5, <1>7, <1>8, <1>9, <1>10, <2>1 DEF DiskInv, Here
<1>12. RunInv'
  <2>1. \A f \in Before(pc') : f \in Before(pc) \/ f = pc
    BY <1>1, FileOrder DEF Before, Names
  <2>2. \A f \in Before(pc') : Here(f)' /\ disk'[f] = Content
    BY <1>3, <1>5, <2>1 DEF Here
  <2>3. pc' = "ready" => Here("metadata")'
    BY <1>1, <1>5, FileOrder DEF Names
  <2>4. Here("metadata")' => disk'["metadata"].config = config
    BY <1>9 DEF Here
  <2>5. ~Here("metadata")' => DOMAIN completed = {}
    BY <1>3, <1>5
  <2>6. Continues(Content, Content)
    BY DEF Continues
  <2>7. Before(pc)' = Before(pc')
    BY DEF Before
  <2> QED BY <1>1, <1>2, <1>3, <1>7, <2>2, <2>3, <2>4, <2>5, <2>6, <2>7 DEF RunInv
<1> QED BY <1>2, <1>3, <1>7, <1>11, <1>12 DEF ProfileInv

(* The offline tool renders the summary from the published state. *)
LEMMA RegenerateStep ==
  ASSUME ProfileInv, RegenerateSummary
  PROVE  ProfileInv' /\ disk'["state"] = disk["state"]
<1>1. /\ pc = "down" /\ pc' = pc /\ Here("state")
      /\ disk' = [f \in DOMAIN disk \union {"summary"} |->
                    IF f = "summary" THEN disk["state"] ELSE disk[f]]
  BY DEF RegenerateSummary
<1>2. /\ \A f : Here(f)' <=> Here(f) \/ f = "summary"
      /\ \A f \in DOMAIN disk' : disk'[f] = IF f = "summary" THEN disk["state"] ELSE disk[f]
      /\ DOMAIN disk' = DOMAIN disk \union {"summary"}
  BY <1>1 DEF Here
<1>3. disk'["state"] = disk["state"]
  BY <1>1, <1>2 DEF Here
<1>4. \A f \in DOMAIN disk' : \E g \in DOMAIN disk : disk'[f] = disk[g]
  BY <1>1, <1>2 DEF Here
<1>5. Here("metadata")' => Here("metadata") /\ disk'["metadata"] = disk["metadata"]
  BY <1>2 DEF Here
<1>6. DiskInv'
  BY <1>1, <1>2, <1>3, <1>4, <1>5 DEF ProfileInv, DiskInv, Here, Names
<1>7. RunInv'
  BY <1>1 DEF RunInv
<1> QED BY <1>1, <1>3, <1>6, <1>7 DEF ProfileInv

(* Every step keeps the invariant, and none forgets a completed prompt. *)
LEMMA ProfileStep ==
  ASSUME ProfileInv, [Next]_vars
  PROVE  ProfileInv' /\ (Here("state") => Continues(disk["state"], disk'["state"]))
<1>0. Continues(disk["state"], disk["state"])
  BY DEF Continues
<1>1. ASSUME disk' = disk, pc' = "down" \/ UNCHANGED <<pc, config, counts, completed, failed>>
      PROVE  ProfileInv'
  <2>1. DiskInv'
    BY <1>1, SameDisk DEF ProfileInv
  <2>2. RunInv'
    BY <1>1 DEF ProfileInv, RunInv, Here, Content, Before
  <2> QED BY <1>1, <2>1, <2>2 DEF ProfileInv
<1>2. ASSUME NEW c \in Configs, Open(c) PROVE ProfileInv' /\ disk' = disk
  BY <1>2, OpenStep DEF Open
<1>3. ASSUME NEW p \in Prompts, MarkFailed(p) \/ \E t \in Texts : AddPrompt(p, t)
      PROVE  ProfileInv' /\ disk' = disk
  BY <1>3, PromptStep DEF MarkFailed, AddPrompt
<1>4. CASE Publish
  BY <1>4, PublishStep
<1>5. CASE RegenerateSummary
  BY <1>0, <1>5, RegenerateStep
<1>6. ASSUME \/ Die \/ UNCHANGED vars \/ \E c \in Configs : Refuse(c)
             \/ \E p \in Prompts, t \in Texts : RefusePrompt(p, t)
      PROVE  ProfileInv' /\ disk' = disk
  BY <1>1, <1>6 DEF Die, vars, Refuse, RefusePrompt
<1> QED BY <1>0, <1>2, <1>3, <1>4, <1>5, <1>6 DEF Next

(* The invariant of the profile holds in every reachable state. *)
THEOREM ProfileInvariance == Spec => []ProfileInv
<1>1. ProfileInv /\ [Next]_vars => ProfileInv'
  BY ProfileStep
<1> QED BY <1>1, InitProfileInv, PTL DEF Spec

(* Whatever process died between which two renames of checkpoint(), for any
   prompts, configurations and number of restarts: the published state counts
   every completed prompt once, no report is ahead of the state it would be
   regenerated from, and once metadata.json exists every file was written under
   the configuration it names. *)
THEOREM CheckpointsSound ==
  Spec => [](CountedOnce /\ ReportsTrailState /\ OneConfiguration)
<1>1. ProfileInv => CountedOnce
  BY DEF ProfileInv, DiskInv, CountedOnce, Sound
<1>2. ProfileInv => ReportsTrailState
  BY DEF ProfileInv, DiskInv, ReportsTrailState, Continues
<1>3. ProfileInv => OneConfiguration
  BY DEF ProfileInv, DiskInv, OneConfiguration
<1> QED BY <1>1, <1>2, <1>3, ProfileInvariance, PTL

(* A prompt that was profiled stays in the published state with the text it was
   profiled with, through every crash, refused start and resumed run. *)
THEOREM ProfileKept == Spec => NothingForgotten
<1>1. ProfileInv /\ [Next]_vars =>
        [Here("state") =>
           \A p \in DOMAIN disk["state"].completed :
              /\ p \in DOMAIN disk'["state"].completed
              /\ disk'["state"].completed[p] = disk["state"].completed[p]]_vars
  BY ProfileStep DEF Continues
<1> QED BY <1>1, ProfileInvariance, PTL DEF Spec, NothingForgotten
=============================================================================
