------------------------------- MODULE TempFile -------------------------------
(***************************************************************************)
(* Files that are replaced by writing a temporary file beside them and     *)
(* renaming it (atomicJson in file-wake-store.mjs).  The temporary file    *)
(* has one name for all writers, so that a writer may hold open a file     *)
(* which another has renamed meanwhile, and go on writing in the target.   *)
(***************************************************************************)
CONSTANTS Files,    \* the files written this way
          Writers,  \* the processes that write them
          Records,  \* what the program writes
          Absent,   \* no file of that name
          Empty,    \* a file that has been opened and not written
          Torn      \* bytes JSON.parse rejects

ASSUME ContentsAssumption == Absent # Empty /\ Absent # Torn /\ Empty # Torn
                             /\ Records \cap {Absent, Empty, Torn} = {}

VARIABLES target,  \* what each file contains
          temp,    \* what its temporary file contains
          opened   \* the name under which each writer's open file can be found

fileVars == <<target, temp, opened>>

Contents == Records \cup {Absent, Empty, Torn}
Names    == {"closed", "temp", "target", "unlinked"}

FilesInit ==
    /\ target = [f \in Files |-> Absent]
    /\ temp = [f \in Files |-> Absent]
    /\ opened = [f \in Files |-> [h \in Writers |-> "closed"]]

FilesType ==
    /\ target \in [Files -> Contents]
    /\ temp \in [Files -> Contents]
    /\ opened \in [Files -> [Writers -> Names]]

\* writeFile opens the temporary file and truncates it.
Open(h, f) ==
    /\ temp' = [temp EXCEPT ![f] = Empty]
    /\ opened' = [opened EXCEPT ![f][h] = "temp"]
    /\ UNCHANGED target

\* What is in a file that contained c once v has been written from its start.
Overwritten(c, v) == IF c \in {Empty, v} THEN {v} ELSE {v, Torn}

\* What the file that writer h has open contains, where it still has a name.
Now(h, f) == IF opened[f][h] = "target" THEN target[f] ELSE temp[f]

\* Writer h leaves content c in the file that it has open, and closes it.
Put(h, f, c) ==
    /\ target' = IF opened[f][h] = "target" THEN [target EXCEPT ![f] = c] ELSE target
    /\ temp' = IF opened[f][h] = "temp" THEN [temp EXCEPT ![f] = c] ELSE temp
    /\ opened' = [opened EXCEPT ![f][h] = "closed"]

\* writeFile writes the record and closes the file.
Fill(h, f, v) == \E c \in Overwritten(Now(h, f), v) : Put(h, f, c)

\* writeFile rejects, or the process dies, before the record is written.
CutShort(h, f) == \E c \in {Now(h, f), Torn} : Put(h, f, c)

\* rename: the temporary file takes the target's place.
Rename(f) ==
    /\ temp[f] # Absent
    /\ target' = [target EXCEPT ![f] = temp[f]]
    /\ temp' = [temp EXCEPT ![f] = Absent]
    /\ opened' = [opened EXCEPT ![f] = [w \in Writers |->
                    CASE @[w] = "temp"   -> "target"
                      [] @[w] = "target" -> "unlinked"
                      [] OTHER           -> @[w]]]
==============================================================================
