--------------------------- MODULE RoutingProfile ---------------------------
(***************************************************************************)
(* RoutingProfileStore: a resumable profile in a directory.  A run merges  *)
(* each prompt's counts, remembers the prompt, and checkpoints six files,  *)
(* each published by renaming a temporary.  The process may die between    *)
(* any two file operations, a file operation may fail, and the next run    *)
(* may be started with another configuration or an edited prompt file.     *)
(*                                                                         *)
(* The aggregate's counts are abstracted to the number of times each       *)
(* prompt's counter was merged, and every file holds what it was rendered  *)
(* from.  The caller is the one the store's interface expects: a prompt    *)
(* already completed is skipped, any other is added or marked failed, and  *)
(* a checkpoint follows.                                                   *)
(***************************************************************************)
EXTENDS Integers, Sequences, FiniteSets, FiniteSetsExt, Functions

CONSTANTS
    Prompts,        \* prompt ids
    Texts,          \* prompt contents: what the signature hashes
    Configs,        \* compatibility fingerprints
    MaxStarts       \* bound: processes started

VARIABLES
    pc,             \* "down", "ready" or the file the checkpoint is at
    config,         \* the running process's fingerprint
    counts, completed, failed,   \* aggregate_, completed_, failed_
    disk,           \* published files: name to what it holds
    starts

vars == <<pc, config, counts, completed, failed, disk, starts>>

(* Mutant: the reports are published before the state they describe. *)
FilesMetadataFirst == <<"metadata", "state", "counts", "ranking", "summary", "progress">>

\* checkpoint() publishes in this order.
Files == <<"state", "counts", "ranking", "summary", "progress", "metadata">>

Nothing == [p \in {} |-> 0]
NoCounts == [p \in Prompts |-> 0]
Here(file) == file \in DOMAIN disk

\* What the files are written from.
Content == [config |-> config, counts |-> counts, completed |-> completed, failed |-> failed]

-----------------------------------------------------------------------------
Init ==
    /\ pc = "down" /\ config \in Configs
    /\ counts = NoCounts /\ completed = Nothing /\ failed = {}
    /\ disk = Nothing /\ starts = 0

StartEmpty == counts' = NoCounts /\ completed' = Nothing /\ failed' = {}

LoadState ==
    /\ counts' = disk["state"].counts
    /\ completed' = disk["state"].completed
    /\ failed' = disk["state"].failed

(* Mutant: a resumed run starts from nothing. *)
LoadsNothing(c) ==
    /\ pc = "down" /\ starts < MaxStarts
    /\ starts' = starts + 1 /\ config' = c
    /\ Here("metadata") => disk["metadata"].config = c
    /\ StartEmpty
    /\ pc' = Files[1]
    /\ UNCHANGED disk

\* The constructor: an existing profile is continued if its fingerprint is the
\* run's own, a directory without metadata is a new profile, and either way the
\* first checkpoint begins.
Open(c) ==
    /\ pc = "down" /\ starts < MaxStarts
    /\ starts' = starts + 1 /\ config' = c
    /\ \/ /\ Here("metadata") /\ disk["metadata"].config = c /\ Here("state")
          /\ LoadState
       \/ /\ ~Here("metadata")
          /\ StartEmpty
    /\ pc' = Files[1]
    /\ UNCHANGED disk

\* Another run's profile, or one without its state, is refused.
Refuse(c) ==
    /\ pc = "down" /\ starts < MaxStarts
    /\ Here("metadata") /\ (disk["metadata"].config # c \/ ~Here("state"))
    /\ starts' = starts + 1
    /\ UNCHANGED <<pc, config, counts, completed, failed, disk>>

\* is_completed: TRUE, FALSE, or a throw when the id was seen with other text.
IsCompleted(p) == p \in DOMAIN completed
Conflicts(p, t) == p \in DOMAIN completed /\ completed[p] # t

\* A prompt ran: add_prompt, then checkpoint.
AddPrompt(p, t) ==
    /\ pc = "ready"
    /\ ~IsCompleted(p)
    /\ counts' = [counts EXCEPT ![p] = @ + 1]
    /\ completed' = [q \in DOMAIN completed \union {p} |-> IF q = p THEN t ELSE completed[q]]
    /\ failed' = failed \ {p}
    /\ pc' = Files[1]
    /\ UNCHANGED <<config, disk, starts>>

\* A prompt failed: mark_failed, then checkpoint.
MarkFailed(p) ==
    /\ pc = "ready" /\ ~IsCompleted(p)
    /\ failed' = failed \union {p}
    /\ pc' = Files[1]
    /\ UNCHANGED <<config, counts, completed, disk, starts>>

\* A prompt already profiled with other text ends the run.
RefusePrompt(p, t) ==
    /\ pc = "ready" /\ Conflicts(p, t)
    /\ pc' = "down"
    /\ UNCHANGED <<config, counts, completed, failed, disk, starts>>

NextFile(f) ==
    LET i == CHOOSE i \in DOMAIN Files : Files[i] = f
    IN IF i = Len(Files) THEN "ready" ELSE Files[i + 1]

\* write_text_atomic / write_binary_atomic: a temporary, then one rename.
Publish ==
    /\ pc \in Range(Files)
    /\ disk' = [f \in DOMAIN disk \union {pc} |-> IF f = pc THEN Content ELSE disk[f]]
    /\ pc' = NextFile(pc)
    /\ UNCHANGED <<config, counts, completed, failed, starts>>

\* The temporary cannot be opened, written or renamed: checkpoint throws, the
\* file keeps its old content, and the run ends.  A crash does the same.
Die ==
    /\ pc # "down"
    /\ pc' = "down"
    /\ UNCHANGED <<config, counts, completed, failed, disk, starts>>

\* regenerate_summary, run offline: the summary is rendered from state.bin.
RegenerateSummary ==
    /\ pc = "down" /\ Here("state")
    /\ disk' = [f \in DOMAIN disk \union {"summary"} |->
                  IF f = "summary" THEN disk["state"] ELSE disk[f]]
    /\ UNCHANGED <<pc, config, counts, completed, failed, starts>>

Next ==
    \/ \E c \in Configs : Open(c) \/ Refuse(c)
    \/ \E p \in Prompts, t \in Texts : AddPrompt(p, t) \/ RefusePrompt(p, t)
    \/ \E p \in Prompts : MarkFailed(p)
    \/ Publish \/ Die \/ RegenerateSummary

Spec == Init /\ [][Next]_vars

-----------------------------------------------------------------------------
\* Types.
TypeOK ==
    /\ pc \in {"down", "ready"} \union Range(Files)
    /\ counts \in [Prompts -> 0..1]
    /\ DOMAIN completed \subseteq Prompts /\ failed \subseteq Prompts
    /\ DOMAIN disk \subseteq Range(Files)

\* Whatever died when, every published state counts each completed prompt once
\* and no other, and lists no prompt as both completed and failed: resuming
\* neither counts a prompt twice nor loses one it lists.
CountedOnce ==
    Here("state") =>
        LET s == disk["state"]
        IN /\ \A p \in Prompts : s.counts[p] = IF p \in DOMAIN s.completed THEN 1 ELSE 0
           /\ s.failed \cap DOMAIN s.completed = {}

\* The reports are never ahead of the state they would be regenerated from.
ReportsTrailState ==
    \A f \in DOMAIN disk :
        /\ Here("state")
        /\ DOMAIN disk[f].completed \subseteq DOMAIN disk["state"].completed

\* A directory holds the profile of one configuration: once metadata.json names
\* it, every file's counts were made under it.
OneConfiguration ==
    Here("metadata") => \A f \in DOMAIN disk : disk[f].config = disk["metadata"].config

\* A profile is never lost or rewritten: a completed prompt stays in the
\* published state with the text it was profiled with.
NothingForgotten ==
    [][Here("state") =>
         \A p \in DOMAIN disk["state"].completed :
            /\ p \in DOMAIN disk'["state"].completed
            /\ disk'["state"].completed[p] = disk["state"].completed[p]]_vars
=============================================================================
