------------------------- MODULE ResumableDownload --------------------------
(***************************************************************************)
(* internal/download/resumable.go as installer.fetch uses it: an artifact  *)
(* is downloaded to a partial file, which a later attempt continues, and   *)
(* renamed to its release once its checksum is right.                      *)
(*                                                                         *)
(* A file is the sequence of its blocks, each as in the artifact or not,   *)
(* together with what of it is on disk.  The Agent may die at any step,    *)
(* which leaves the files as they are; a power loss leaves what was synced *)
(* and, of the rest, anything between nothing and all of it, in part as    *)
(* garbage.  The server may be unavailable, ignore the range, cut a body   *)
(* short, send too much or the wrong content.                              *)
(***************************************************************************)
EXTENDS Naturals, Sequences

CONSTANTS
  Size,        \* blocks of the artifact
  None,
  MaxFaults    \* bound of the model

Blocks == {"good", "bad"}
Artifact == [i \in 1 .. Size |-> "good"]
Files == [data : Seq(Blocks), synced : Seq(Blocks)]

ASSUME DownloadAssumption ==
  /\ Size \in Nat \ {0}
  /\ MaxFaults \in Nat
  /\ None \notin Files
  /\ None \notin {"release", "error"}

VARIABLES
  partial,   \* the partial file: its data and what of it is synced, or None
  release,   \* the release file, likewise
  linked,    \* whether the last rename or removal in the directory is synced
  pc,        \* where fetch is
  offset,    \* where the response starts in the file
  result,    \* what the last fetch of this process returned
  unsynced,  \* history: whether the last fetch took a complete file, or a release,
             \* that it found not synced
  faults     \* faults so far

vars == <<partial, release, linked, pc, offset, result, unsynced, faults>>

File(data) == [data |-> data, synced |-> data]
Written(file, data) == [file EXCEPT !.data = data]
Synced(file) == File(file.data)
IsSynced(file) == file.synced = file.data

TypeOK ==
  /\ partial \in Files \cup {None}
  /\ release \in Files \cup {None}
  /\ linked \in BOOLEAN
  /\ pc \in {"idle", "open", "request", "copy", "verify", "rename", "link"}
  /\ offset \in Nat
  /\ result \in {"release", "error", None}
  /\ unsynced \in BOOLEAN
  /\ faults \in 0 .. MaxFaults

Init ==
  /\ partial = None
  /\ release = None
  /\ linked = TRUE
  /\ pc = "idle"
  /\ offset = 0
  /\ result = None
  /\ unsynced = FALSE
  /\ faults = 0

Fault == faults < MaxFaults /\ faults' = faults + 1

Return(value) == pc' = "idle" /\ offset' = 0 /\ result' = value

-----------------------------------------------------------------------------
(* installer.fetch and download.Fetch.                                     *)

\* Mutant of Valid: the size is enough.
ValidSize(file) == Len(file.data) = Size

\* verify, and verifyArtifact.
Valid(file) == file.data = Artifact

\* fetch: a valid release is returned as it is, an invalid one removed and the
\* directory synced.
Begin ==
  /\ pc = "idle"
  /\ IF release # None /\ Valid(release)
     THEN /\ unsynced' = ~(IsSynced(release) /\ linked)
          /\ Return("release")
          /\ UNCHANGED <<release, linked>>
     ELSE /\ release' = None
          /\ linked' = TRUE
          /\ unsynced' = FALSE
          /\ pc' = "open"
          /\ result' = None
          /\ UNCHANGED offset
  /\ UNCHANGED <<partial, faults>>

\* Mutant of Opened: a file that is too long is continued.
OpenedLonger ==
  IF partial = None \/ (Len(partial.data) = Size /\ ~Valid(partial)) THEN File(<<>>) ELSE partial

\* openPartial: a file that is too long, or complete and invalid, starts again.
Opened ==
  IF \/ partial = None
     \/ Len(partial.data) > Size
     \/ Len(partial.data) = Size /\ ~Valid(partial)
  THEN File(<<>>)
  ELSE partial

\* A complete file, which openPartial has found to be valid, is taken without a
\* download, the others are continued.
OpenPartial ==
  /\ pc = "open"
  /\ partial' = Opened
  /\ IF Len(Opened.data) = Size /\ Valid(Opened)
     THEN pc' = "rename" /\ unsynced' = ~IsSynced(Opened) /\ UNCHANGED offset
     ELSE pc' = "request" /\ offset' = Len(Opened.data) /\ UNCHANGED unsynced
  /\ UNCHANGED <<release, linked, result, faults>>

\* The server sends the rest, or, although a range was asked for, everything.
Response ==
  /\ pc = "request"
  /\ \/ UNCHANGED <<partial, offset>>
     \/ /\ offset > 0
        /\ partial' = File(<<>>)      \* resetPartial
        /\ offset' = 0
  /\ pc' = "copy"
  /\ UNCHANGED <<release, linked, result, unsynced, faults>>

\* A file operation fails, before or after the partial file was opened or reset,
\* or between the truncation and its sync; there is no answer, or its status,
\* range or length does not fit.
RequestFails ==
  /\ pc \in {"open", "request", "rename"}
  /\ Fault
  /\ partial' \in {partial, Opened}
                    \cup (IF pc = "request" \/ partial \notin {None, Opened}
                          THEN {Written(partial, <<>>), File(<<>>)}
                          ELSE {})
  /\ Return("error")
  /\ UNCHANGED <<release, linked, unsynced>>

\* A block of the body, perhaps a wrong one or one too many.
Copy ==
  /\ pc = "copy"
  /\ Len(partial.data) <= Size
  /\ \E block \in Blocks :
       /\ partial' = Written(partial, Append(partial.data, block))
       /\ IF block = "good" /\ Len(partial.data) < Size THEN UNCHANGED faults ELSE Fault
  /\ UNCHANGED <<release, linked, pc, offset, result, unsynced>>

\* The body ends with the file complete.
CopyComplete(file) ==
  /\ Len(partial.data) = Size
  /\ partial' = file
  /\ pc' = "verify"
  /\ UNCHANGED <<offset, result, faults>>

\* The body is too short, which is kept for the next attempt, or too long, which
\* is cut off again.
CopyMismatch ==
  /\ \/ /\ Len(partial.data) < Size
        /\ Fault
        /\ partial' = Synced(partial)
     \/ /\ Len(partial.data) > Size
        /\ partial' = File(SubSeq(partial.data, 1, offset))
        /\ UNCHANGED faults
  /\ Return("error")

\* Mutant of CopyEnds: the file is not synced.
CopyEndsUnsynced ==
  /\ pc = "copy"
  /\ CopyComplete(partial) \/ CopyMismatch
  /\ UNCHANGED <<release, linked, unsynced>>

CopyEnds ==
  /\ pc = "copy"
  /\ CopyComplete(Synced(partial)) \/ CopyMismatch
  /\ UNCHANGED <<release, linked, unsynced>>

\* The connection breaks, after which the file is synced, or the sync fails; so
\* may the truncation of a body that is too long, or the sync after that.
CopyFails ==
  /\ pc = "copy"
  /\ Fault
  /\ \/ partial' \in {partial, Synced(partial)}
     \/ /\ Len(partial.data) > Size
        /\ partial' = Written(Synced(partial), SubSeq(partial.data, 1, offset))
  /\ Return("error")
  /\ UNCHANGED <<release, linked, unsynced>>

\* What is not the artifact is removed, unless that fails.
Verify ==
  /\ pc = "verify"
  /\ IF Valid(partial)
     THEN pc' = "rename" /\ UNCHANGED <<partial, offset, result, faults>>
     ELSE /\ \/ partial' = None /\ UNCHANGED faults
             \/ Fault /\ UNCHANGED partial
          /\ Return("error")
  /\ UNCHANGED <<release, linked, unsynced>>

Rename ==
  /\ pc = "rename"
  /\ release' = partial
  /\ partial' = None
  /\ linked' = FALSE
  /\ pc' = "link"
  /\ UNCHANGED <<offset, result, unsynced, faults>>

SyncDirectory ==
  /\ pc = "link"
  /\ linked' = TRUE
  /\ Return("release")
  /\ UNCHANGED <<partial, release, unsynced, faults>>

SyncDirectoryFails ==
  /\ pc = "link"
  /\ Fault
  /\ Return("error")
  /\ UNCHANGED <<partial, release, linked, unsynced>>

-----------------------------------------------------------------------------
(* Faults.                                                                 *)

\* The Agent dies and starts again.
Crash ==
  /\ Fault
  /\ pc' = "idle"
  /\ offset' = 0
  /\ result' = None
  /\ unsynced' = FALSE
  /\ UNCHANGED <<partial, release, linked>>

\* What a power loss may leave of a file: any length between the synced one and
\* the last; a block is what was synced or what was written, and may be garbage
\* where the two differ.
BlocksLeft(file, i) ==
  LET found == {s[i] : s \in {t \in {file.data, file.synced} : i \in DOMAIN t}}
      kept == i \in DOMAIN file.data \cap DOMAIN file.synced /\ file.data[i] = file.synced[i]
  IN  IF kept THEN found ELSE found \cup {"bad"}

Remains(file) ==
  IF file = None THEN {None}
  ELSE LET lengths == (Len(file.synced) .. Len(file.data)) \cup (Len(file.data) .. Len(file.synced))
       IN  {File(data) : data \in {blocks \in UNION {[1 .. n -> Blocks] : n \in lengths} :
                                     \A i \in DOMAIN blocks : blocks[i] \in BlocksLeft(file, i)}}

\* A rename that was not synced may be undone.
PowerLoss ==
  /\ Fault
  /\ \/ /\ partial' \in Remains(partial)
        /\ release' \in Remains(release)
     \/ /\ ~linked
        /\ partial = None
        /\ partial' \in Remains(release)
        /\ release' = None
  /\ linked' = TRUE
  /\ pc' = "idle"
  /\ offset' = 0
  /\ result' = None
  /\ unsynced' = FALSE

-----------------------------------------------------------------------------
Fetch == \/ Begin \/ OpenPartial \/ Response \/ Copy \/ CopyEnds \/ Verify
         \/ Rename \/ SyncDirectory

Next == Fetch \/ RequestFails \/ CopyFails \/ SyncDirectoryFails \/ Crash \/ PowerLoss

Spec == Init /\ [][Next]_vars

\* An attempt goes on until it ends.  One that failed is made again by the next
\* command of the center, to which the failure is reported as retryable
\* (supervisor.go:225); a recovery verifies the release and downloads nothing.
FairSpec == Spec /\ WF_vars(Fetch)

-----------------------------------------------------------------------------
(* Properties.                                                             *)

\* What fetch returns is the artifact, and stays it until a power loss: content
\* that was cut, garbled, continued or found on disk never passes for it.
ReturnedIsArtifact == result = "release" => release # None /\ release.data = Artifact

\* The package's "durable, verified artifact downloads": what fetch returns
\* survives a power loss, its name in the directory included, whatever the
\* attempts before it left behind unsynced, and if it has continued that.  Left
\* out is what it takes without a download although it is not synced: openPartial
\* takes a complete partial file, and fetch a release, as it is.
ReturnedIsDurable ==
  result = "release" /\ ~unsynced => release = File(Artifact) /\ linked

\* In the end there is a valid release: no partial file, whatever its content,
\* and no damaged release is in the way of the attempts that follow.
Completes == <>[](release # None /\ release.data = Artifact)
=============================================================================
