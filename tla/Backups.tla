------------------------------ MODULE Backups ------------------------------
(***************************************************************************)
(* The backups/ folder of internal/obs/collection.go: a copy of the local  *)
(* collection before every reception that may overwrite it.  The name of a *)
(* backup is the second of the local clock, then the name of the file it   *)
(* copies; a clock may be set back, and every collection file shares the   *)
(* folder.  Nothing but the names says which backup is the newest.         *)
(***************************************************************************)
EXTENDS Naturals, Sequences, FiniteSets

CONSTANTS
  Keep,        \* BackupsKept
  Times,       \* the seconds of the local clock
  Files,       \* the files of the scenes folder, in the order of their names
  Torn,        \* what a failed write leaves in a backup
  MaxBackups   \* bound: backups ever written

ASSUME BackupsAssumption ==
  /\ Keep \in Nat \ {0}
  /\ Times \subseteq Nat /\ Files \subseteq Nat
  /\ MaxBackups \in Nat

VARIABLES
  backups,     \* the files of backups/
  log          \* history: every backup written, whole or not

backupVars == <<backups, log>>

\* Backup b sorts after backup c.
Later(b, c) == \/ b.at > c.at
               \/ b.at = c.at /\ b.file > c.file

\* Mistake: the names are sorted the other way round.
Earlier(b, c) == Later(c, b)

\* Backup: a file of the same second and of the same collection file is
\* overwritten.  The clock moves on between two backups, or is set back: the
\* end of daylight saving time, a wrong clock put right.
Write(f, content) ==
  /\ Len(log) < MaxBackups
  /\ \E now \in Times :
       LET b == [at |-> now, file |-> f, kept |-> content]
       IN /\ backups' = {c \in backups : c.at # now \/ c.file # f} \cup {b}
          /\ log' = Append(log, b)

\* Mistake: the oldest names are kept.
KeepsOldest(B) == {b \in B : Cardinality({c \in B : Earlier(c, b)}) < Keep}

\* pruneBackups keeps the last Keep names.
Pruned(B) == {b \in B : Cardinality({c \in B : Later(c, b)}) < Keep}

Prune == backups' = Pruned(backups) /\ log' = log

\* The names of the backups are in the order in which they were written.
InOrder == \A i, j \in DOMAIN log : i < j => Later(log[j], log[i])

\* As long as that is so, the last Keep backups are in the folder with what
\* they copied, whatever became of the receptions they were made for: scenes
\* that a reception overwrote can be found again until Keep more backups.
NewestAreKept ==
  InOrder => \A i \in DOMAIN log : i > Len(log) - Keep => log[i] \in backups

=============================================================================
