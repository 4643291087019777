-------------------------------- MODULE Handoff --------------------------------
(***************************************************************************)
(* Takeover checkpoints (takeover-checkpoint.mjs): a host writes down      *)
(* where work on a repository stands, and whoever takes over, there or in  *)
(* a clone, has it compared with the repository as it is then.             *)
(*                                                                         *)
(* The repository and the host that takes snapshots of it are external:    *)
(* a history of commits, a branch name and a work tree.  The checkpoint's  *)
(* own file is not in the snapshots but for commits of it.  The texts of a *)
(* checkpoint, its evidence and its authority are left out: the validator  *)
(* checks that they are there and relates them to nothing.                 *)
(***************************************************************************)
EXTENDS Naturals, Sequences, SequencesExt

CONSTANTS Files,       \* the files of the repository, but for the checkpoint's own
          Card,        \* the path of the checkpoint
          Tracked,     \* the files that are in the first commit
          Versions,    \* what a file may hold, from 1
          Branches,    \* the names of branches
          Schemas,     \* the schema versions recorded: "current", "legacy" or "unknown"
          Projects,    \* the project ids, with NoProject where a checkpoint has none
          NoProject,
          MaxMoves     \* bound: changes of the repository

ASSUME TrackedAssumption == Tracked \subseteq Files /\ Card \notin Files
ASSUME MovesAssumption == Versions \subseteq Nat \ {0} /\ MaxMoves \in Nat
ASSUME NamesAssumption == Branches # {} /\ Versions # {}

VARIABLES branch,      \* the branch that is checked out
          history,     \* its commits: the paths each has changed, and the files it holds
          work,        \* the work tree: what each file holds, 0 when it is not there
          card,        \* the checkpoint, once it has been written
          kept,        \* the work tree when it was written
          verdict,     \* the last validation of the checkpoint against what there is now
          moves        \* bound

handoffVars == <<branch, history, work, card, kept, verdict, moves>>

NoCard    == [head |-> 0]
NoVerdict == [valid |-> FALSE, asked |-> FALSE]

HandoffInit ==
    /\ branch = CHOOSE b \in Branches : TRUE
    /\ work = [f \in Files |-> IF f \in Tracked THEN CHOOSE v \in Versions : TRUE ELSE 0]
    /\ history = <<[changed |-> Tracked, files |-> work]>>
    /\ card = NoCard /\ kept = work /\ verdict = NoVerdict /\ moves = 0

----------------------------------------------------------------------------
\* git status: the files that differ from the last commit, each with a code.
Committed == Last(history).files
Code(f)   == IF Committed[f] = 0 THEN "??" ELSE IF work[f] = 0 THEN "D" ELSE "M"
Status    == {[code |-> Code(f), path |-> f] : f \in {g \in Files : work[g] # Committed[g]}}

\* Where a condition holds, its finding is among those reported.
Report(condition, code) == IF condition THEN {code} ELSE {}

\* compareStatuses: an entry that is gone, unless it was this machine's only,
\* and an entry that was not recorded.
StatusFindings ==
    Report(\E e \in card.expected : e.entry \notin Status /\ e.availability # "LOCAL_ONLY", "GIT_STATUS_MISMATCH")
    \cup Report(Status \ {e.entry : e \in card.expected} # {}, "UNREGISTERED_GIT_CHANGE")

\* Mutant of CardCommitOnly: the follow-up commit may have changed more.
CardCommitOnly_AndMore(path) == path = Card /\ Len(history) = card.head + 1 /\ Card \in Last(history).changed

\* The last commit follows the one recorded and has changed the checkpoint only.
CardCommitOnly(path) == path = Card /\ Len(history) = card.head + 1 /\ Last(history).changed = {Card}

\* What is reported of the git snapshot, of the file snapshot, and of what the
\* checkpoint says of itself.
GitFindings(path) ==
    Report(card.branch # branch, "GIT_BRANCH_MISMATCH")
    \cup Report(card.head # Len(history) /\ ~CardCommitOnly(path), "GIT_HEAD_MISMATCH")
    \cup StatusFindings
    \cup Report(\E s \in Status : s.code = "??" /\ \A r \in card.register : r.path # s.path,
                "UNREGISTERED_UNTRACKED_PATH")
FileFindings ==
    Report(\E r \in card.register : work[r.path] = 0 /\ r.availability # "LOCAL_ONLY", "PRESERVED_ITEM_MISSING")
    \cup Report(\E r \in card.register : r.digest # 0 /\ work[r.path] \notin {0, r.digest}, "PRESERVED_HASH_MISMATCH")
IdentityFindings(project) ==
    Report(card.schema = "unknown", "SCHEMA_VERSION_MISMATCH")
    \cup Report(card.schema = "current" /\ card.project = NoProject, "STRING_REQUIRED")
    \cup Report(project # NoProject /\ card.project # project, "PROJECT_ID_MISMATCH")

\* What is missing here and is no finding.
Warnings ==
    {e.entry.path : e \in {x \in card.expected : x.entry \notin Status /\ x.availability = "LOCAL_ONLY"}}
    \cup {r.path : r \in {x \in card.register : work[x.path] = 0 /\ x.availability = "LOCAL_ONLY"}}

----------------------------------------------------------------------------
\* The host writes a checkpoint of what there is, with some files in its
\* register and some of them with a digest.
WriteCard(project, schema, local, registered, digests) ==
    LET availability(f) == IF f \in local THEN "LOCAL_ONLY" ELSE "REPOSITORY" IN
    /\ card = NoCard
    /\ \A f \in registered : work[f] # 0
    /\ card' = [project |-> project, schema |-> schema, branch |-> branch, head |-> Len(history),
                expected |-> {[entry |-> s, availability |-> availability(s.path)] : s \in Status},
                register |-> {[path |-> f, availability |-> availability(f),
                               digest |-> IF f \in digests THEN work[f] ELSE 0] : f \in registered}]
    /\ kept' = work
    /\ UNCHANGED <<branch, history, work, verdict, moves>>

\* validateTakeoverCheckpoint, with both snapshots.
Validate(project, path) ==
    /\ card # NoCard /\ verdict = NoVerdict
    /\ verdict' = [valid    |-> IdentityFindings(project) \cup GitFindings(path) \cup FileFindings = {},
                   asked    |-> TRUE, project |-> project, path |-> path, warnings |-> Warnings]
    /\ UNCHANGED <<branch, history, work, card, kept, moves>>

\* The repository changes.
Move == moves < MaxMoves /\ moves' = moves + 1 /\ verdict' = NoVerdict /\ UNCHANGED <<card, kept>>

Edit(f, v)    == Move /\ work[f] # v /\ work' = [work EXCEPT ![f] = v] /\ UNCHANGED <<branch, history>>
SwitchTo(b)   == Move /\ branch # b /\ branch' = b /\ UNCHANGED <<history, work>>
TakeToClone   == Move /\ work' = Committed /\ UNCHANGED <<branch, history>>
CommitOf(set) ==
    /\ Move
    /\ set # {} /\ \A f \in set \ {Card} : work[f] # Committed[f]
    /\ history' = Append(history, [changed |-> set,
                                   files   |-> [f \in Files |-> IF f \in set THEN work[f] ELSE Committed[f]]])
    /\ UNCHANGED <<branch, work>>

HandoffNext ==
    \/ \E p \in Projects \cup {NoProject}, s \in Schemas, l, r, d \in SUBSET Files : WriteCard(p, s, l, r, d)
    \/ \E p \in Projects \cup {NoProject}, path \in {Card, NoProject} : Validate(p, path)
    \/ \E f \in Files, v \in Versions \cup {0} : Edit(f, v)
    \/ \E b \in Branches : SwitchTo(b)
    \/ TakeToClone
    \/ \E set \in SUBSET (Files \cup {Card}) : CommitOf(set)

HandoffSpec == HandoffInit /\ [][HandoffNext]_handoffVars

----------------------------------------------------------------------------
Trees == [Files -> Versions \cup {0}]
HandoffTypeOK ==
    /\ branch \in Branches
    /\ history \in Seq([changed : SUBSET (Files \cup {Card}), files : Trees])
    /\ work \in Trees /\ kept \in Trees
    /\ card.head \in 0..Len(history)
    /\ verdict.valid \in BOOLEAN /\ moves \in 0..MaxMoves

\* README.md:273-275: unregistered changes, branch or commit drift, missing
\* repository items and preserved-file hash drift fail closed.  A checkpoint
\* that is found valid is of this project and branch; whatever was done since,
\* the source that is committed is what it was, no file differs from it that
\* did not before, what is registered with a digest is as it was, and what is
\* gone was local and is warned of.  Conversely, where nothing has been done but to
\* commit the checkpoint, one that has registered every untracked file is valid.
HandoffSound ==
    verdict.asked =>
        /\ verdict.valid =>
              /\ verdict.project \in {NoProject, card.project} /\ branch = card.branch
              /\ Committed = history[card.head].files
              /\ \A f \in Files : work[f] # Committed[f] => kept[f] # Committed[f]
              /\ \A f \in Files : Committed[f] = 0 /\ work[f] # 0 => \E r \in card.register : r.path = f
              /\ \A r \in card.register : r.digest # 0 => work[r.path] \in {0, kept[r.path]}
              /\ \A f \in {r.path : r \in card.register} \cup {e.entry.path : e \in card.expected} :
                    work[f] = 0 /\ kept[f] # 0 => f \in verdict.warnings
        /\ /\ IdentityFindings(verdict.project) = {}
           /\ work = kept /\ branch = card.branch
           /\ \/ Len(history) = card.head
              \/ verdict.path = Card /\ Len(history) = card.head + 1 /\ Last(history).changed = {Card}
           /\ \A f \in Files : Committed[f] = 0 /\ work[f] # 0 => \E r \in card.register : r.path = f
           => verdict.valid
================================================================================
