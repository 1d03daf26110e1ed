---------------------- MODULE ResumableDownloadProofs -----------------------
(***************************************************************************)
(* What fetch returns is the artifact, and durable, for artifacts of every *)
(* size and any number of faults.                                          *)
(***************************************************************************)
EXTENDS ResumableDownload, TLAPS

\* Where the attempt is, it has the file that it works on: a partial file while
\* one is written or checked, one that was found valid before it is renamed, and
\* a valid release afterwards.
AttemptInv ==
  /\ pc \in {"request", "copy", "verify", "rename"} => partial # None
  /\ pc \in {"request", "copy"} => offset <= Len(partial.data)
  /\ pc = "rename" => partial.data = Artifact
  /\ pc = "link" => release # None /\ release.data = Artifact
  /\ pc # "idle" => result = None

\* What is synced on the way to a release that was downloaded or found synced:
\* the partial file from its check on, which the release is after the rename, and
\* the directory at the end.  Nothing is said of what failed attempts left, which
\* is not used before it is synced.
SyncInv ==
  /\ pc = "verify" => IsSynced(partial)
  /\ ~unsynced =>
       /\ pc = "rename" => IsSynced(partial)
       /\ pc = "link" \/ result = "release" => IsSynced(release)
       /\ result = "release" => linked

IInv == TypeOK /\ AttemptInv /\ ReturnedIsArtifact /\ SyncInv

USE DownloadAssumption

\* A file that is written and one that is synced are files.
LEMMA FileType ==
  ASSUME NEW d \in Seq(Blocks)
  PROVE  File(d) \in Files /\ File(d) # None /\ File(d).data = d /\ File(d).synced = d
  BY DEF File, Files

LEMMA EmptyFile == File(<<>>) \in Files /\ File(<<>>) # None /\ Len(File(<<>>).data) = 0
  <1>1. <<>> \in Seq(Blocks) /\ Len(<<>>) = 0
    OBVIOUS
  <1> QED
    BY <1>1, FileType

LEMMA FileFields ==
  ASSUME NEW f \in Files
  PROVE  /\ f # None
         /\ f.data \in Seq(Blocks) /\ Len(f.data) \in Nat
         /\ f.synced \in Seq(Blocks) /\ Len(f.synced) \in Nat
  BY DEF Files

\* What openPartial makes of the partial file, whatever it finds: a synced file
\* stays one.
LEMMA OpenedType ==
  ASSUME partial \in Files \cup {None}
  PROVE  /\ Opened \in Files /\ Opened # None
         /\ Opened = partial \/ Opened = File(<<>>)
  BY EmptyFile, FileFields DEF Opened

\* A power loss leaves a file or nothing.
LEMMA RemainsType ==
  ASSUME NEW f \in Files \cup {None}, NEW g \in Remains(f)
  PROVE  g \in Files \cup {None}
  <1>1. ASSUME f # None
        PROVE  g \in Files
    <2>1. Len(f.synced) \in Nat /\ Len(f.data) \in Nat
      BY <1>1, FileFields
    <2>2. PICK n \in (Len(f.synced) .. Len(f.data)) \cup (Len(f.data) .. Len(f.synced)) :
            \E d \in [1 .. n -> Blocks] : g = File(d)
      BY <1>1 DEF Remains
    <2>3. PICK d \in [1 .. n -> Blocks] : g = File(d)
      BY <2>2
    <2>4. n \in Nat
      BY <2>1
    <2>5. d \in Seq(Blocks)
      BY <2>4
    <2> QED
      BY <2>3, <2>5, FileType
  <1> QED
    BY <1>1 DEF Remains

-----------------------------------------------------------------------------
(* Steps.                                                                  *)

LEMMA InitIInv ==
  ASSUME Init
  PROVE  IInv
  <1>0. linked \in BOOLEAN /\ unsynced \in BOOLEAN
    BY DEF Init
  <1>1. TypeOK
    BY <1>0 DEF Init, TypeOK
  <1>2. AttemptInv /\ ReturnedIsArtifact
    BY DEF Init, AttemptInv, ReturnedIsArtifact
  <1>3. SyncInv
    BY DEF Init, SyncInv
  <1> QED
    BY <1>1, <1>2, <1>3 DEF IInv

LEMMA FaultType ==
  ASSUME faults \in 0 .. MaxFaults, Fault
  PROVE  faults' \in 0 .. MaxFaults
  BY DEF Fault

LEMMA BeginStep ==
  ASSUME IInv, Begin
  PROVE  IInv'
  <1> USE DEF Begin, Return, Valid
  <1>0. linked' \in BOOLEAN /\ unsynced' \in BOOLEAN
    BY DEF IInv, TypeOK
  <1>1. TypeOK'
    BY <1>0 DEF IInv, TypeOK
  <1>2. AttemptInv' /\ ReturnedIsArtifact'
    BY DEF IInv, TypeOK, AttemptInv, ReturnedIsArtifact
  <1>3. SyncInv'
    BY DEF IInv, SyncInv
  <1> QED
    BY <1>1, <1>2, <1>3 DEF IInv

LEMMA OpenPartialStep ==
  ASSUME IInv, OpenPartial
  PROVE  IInv'
  <1>1. Opened \in Files /\ Opened # None /\ Len(Opened.data) \in Nat
    BY OpenedType, FileFields DEF IInv, TypeOK
  <1>2. unsynced' \in BOOLEAN
    BY DEF IInv, TypeOK, OpenPartial
  <1>3. TypeOK'
    BY <1>1, <1>2 DEF IInv, TypeOK, OpenPartial
  <1>4. AttemptInv' /\ ReturnedIsArtifact'
    BY <1>1 DEF IInv, TypeOK, AttemptInv, ReturnedIsArtifact, OpenPartial, Valid
  <1>5. SyncInv'
    BY DEF IInv, AttemptInv, SyncInv, OpenPartial
  <1> QED
    BY <1>3, <1>4, <1>5 DEF IInv

LEMMA ResponseStep ==
  ASSUME IInv, Response
  PROVE  IInv'
  <1>1. File(<<>>) \in Files /\ File(<<>>) # None /\ Len(File(<<>>).data) = 0
    BY EmptyFile
  <1> QED
    <2>1. TypeOK'
      BY <1>1 DEF IInv, TypeOK, Response
    <2>2. AttemptInv'
      BY <1>1, FileFields DEF IInv, TypeOK, AttemptInv, Response
    <2>3. ReturnedIsArtifact' /\ SyncInv'
      BY <1>1 DEF IInv, AttemptInv, ReturnedIsArtifact, SyncInv, Response
    <2> QED
      BY <2>1, <2>2, <2>3 DEF IInv

LEMMA RequestFailsStep ==
  ASSUME IInv, RequestFails
  PROVE  IInv'
  <1>1. partial # None => Written(partial, <<>>) \in Files
    <2>1. <<>> \in Seq(Blocks)
      OBVIOUS
    <2> QED
      BY <2>1 DEF IInv, TypeOK, Written, Files
  <1>2. pc = "request" => partial # None
    BY DEF IInv, AttemptInv
  <1>3. partial' \in Files \cup {None}
    BY <1>1, <1>2, OpenedType, EmptyFile DEF IInv, TypeOK, RequestFails
  <1>4. TypeOK'
    BY <1>3, FaultType DEF IInv, TypeOK, RequestFails, Return
  <1>5. AttemptInv' /\ ReturnedIsArtifact'
    BY DEF AttemptInv, ReturnedIsArtifact, RequestFails, Return
  <1>6. SyncInv'
    BY DEF SyncInv, RequestFails, Return
  <1> QED
    BY <1>4, <1>5, <1>6 DEF IInv

LEMMA CopyStep ==
  ASSUME IInv, Copy
  PROVE  IInv'
  <1>1. partial \in Files
    BY DEF IInv, TypeOK, AttemptInv, Copy
  <1>2. PICK block \in Blocks : partial' = Written(partial, Append(partial.data, block))
    BY DEF Copy
  <1>3. /\ Append(partial.data, block) \in Seq(Blocks)
        /\ Len(Append(partial.data, block)) = Len(partial.data) + 1
    BY <1>1, FileFields
  <1>4. partial' \in Files /\ partial'.data = Append(partial.data, block)
    BY <1>1, <1>2, <1>3 DEF Written, Files
  <1>5. faults' \in 0 .. MaxFaults
    BY FaultType DEF Copy, IInv, TypeOK
  <1> QED
    BY <1>1, <1>3, <1>4, <1>5, FileFields
    DEF IInv, TypeOK, AttemptInv, ReturnedIsArtifact, SyncInv, Copy

LEMMA CopyEndsStep ==
  ASSUME IInv, CopyEnds
  PROVE  IInv'
  <1>1. partial \in Files /\ offset <= Len(partial.data) /\ offset \in Nat
    BY DEF IInv, TypeOK, AttemptInv, CopyEnds
  <1>2. Synced(partial) \in Files /\ IsSynced(Synced(partial))
    BY <1>1, FileFields, FileType DEF Synced, IsSynced
  <1>3. SubSeq(partial.data, 1, offset) \in Seq(Blocks)
    BY <1>1, FileFields
  <1>4. /\ File(SubSeq(partial.data, 1, offset)) \in Files
        /\ IsSynced(File(SubSeq(partial.data, 1, offset)))
    BY <1>3, FileType DEF IsSynced
  <1>5. partial' \in Files /\ IsSynced(partial')
    BY <1>2, <1>4 DEF CopyEnds, CopyComplete, CopyMismatch
  <1>6. faults' \in 0 .. MaxFaults
    BY FaultType DEF CopyEnds, CopyComplete, CopyMismatch, IInv, TypeOK
  <1>7. TypeOK'
    BY <1>5, <1>6 DEF IInv, TypeOK, CopyEnds, CopyComplete, CopyMismatch, Return
  <1>8. AttemptInv' /\ ReturnedIsArtifact'
    BY <1>5, FileFields
    DEF IInv, AttemptInv, ReturnedIsArtifact, CopyEnds, CopyComplete, CopyMismatch, Return
  <1>9. SyncInv'
    BY <1>5 DEF IInv, AttemptInv, SyncInv, IsSynced, CopyEnds, CopyComplete, CopyMismatch, Return
  <1> QED
    BY <1>7, <1>8, <1>9 DEF IInv

LEMMA CopyFailsStep ==
  ASSUME IInv, CopyFails
  PROVE  IInv'
  <1>1. partial \in Files /\ offset <= Len(partial.data) /\ offset \in Nat
    BY DEF IInv, TypeOK, AttemptInv, CopyFails
  <1>2. Synced(partial) \in Files
    BY <1>1, FileFields, FileType DEF Synced
  <1>3. SubSeq(partial.data, 1, offset) \in Seq(Blocks)
    BY <1>1, FileFields
  <1>4. Written(Synced(partial), SubSeq(partial.data, 1, offset)) \in Files
    BY <1>2, <1>3 DEF Written, Files
  <1>5. TypeOK'
    BY <1>1, <1>2, <1>4, FaultType DEF IInv, TypeOK, CopyFails, Return
  <1>6. AttemptInv' /\ ReturnedIsArtifact'
    BY DEF AttemptInv, ReturnedIsArtifact, CopyFails, Return
  <1>7. SyncInv'
    BY DEF SyncInv, CopyFails, Return
  <1> QED
    BY <1>5, <1>6, <1>7 DEF IInv

LEMMA VerifyStep ==
  ASSUME IInv, Verify
  PROVE  IInv'
  <1>1. TypeOK'
    BY FaultType DEF IInv, TypeOK, Verify, Return
  <1>2. AttemptInv' /\ ReturnedIsArtifact'
    BY DEF IInv, AttemptInv, ReturnedIsArtifact, Verify, Valid, Return
  <1>3. SyncInv'
    BY DEF IInv, AttemptInv, SyncInv, Verify, Return
  <1> QED
    BY <1>1, <1>2, <1>3 DEF IInv

LEMMA RenameStep ==
  ASSUME IInv, Rename
  PROVE  IInv'
  BY DEF IInv, TypeOK, AttemptInv, ReturnedIsArtifact, SyncInv, Rename

LEMMA SyncDirectoryStep ==
  ASSUME IInv, SyncDirectory \/ SyncDirectoryFails
  PROVE  IInv'
  <1> USE DEF SyncDirectory, SyncDirectoryFails, Return
  <1>0. linked' \in BOOLEAN /\ unsynced' \in BOOLEAN
    BY DEF IInv, TypeOK
  <1>1. TypeOK'
    BY <1>0, FaultType DEF IInv, TypeOK
  <1>2. AttemptInv' /\ ReturnedIsArtifact'
    BY DEF IInv, AttemptInv, ReturnedIsArtifact
  <1>3. SyncInv'
    BY DEF IInv, SyncInv
  <1> QED
    BY <1>1, <1>2, <1>3 DEF IInv

LEMMA CrashStep ==
  ASSUME IInv, Crash
  PROVE  IInv'
  BY FaultType DEF IInv, TypeOK, AttemptInv, ReturnedIsArtifact, SyncInv, Crash

LEMMA PowerLossStep ==
  ASSUME IInv, PowerLoss
  PROVE  IInv'
  <1>1. partial' \in Files \cup {None} /\ release' \in Files \cup {None}
    BY RemainsType DEF IInv, TypeOK, PowerLoss
  <1> QED
    BY <1>1, FaultType DEF IInv, TypeOK, AttemptInv, ReturnedIsArtifact, SyncInv, PowerLoss

LEMMA NextIInv ==
  ASSUME IInv, [Next]_vars
  PROVE  IInv'
  <1>1. CASE Fetch
    BY <1>1, BeginStep, OpenPartialStep, ResponseStep, CopyStep, CopyEndsStep, VerifyStep,
       RenameStep, SyncDirectoryStep DEF Fetch
  <1>2. CASE UNCHANGED vars
    BY <1>2 DEF vars, IInv, TypeOK, AttemptInv, ReturnedIsArtifact, SyncInv
  <1> QED
    BY <1>1, <1>2, RequestFailsStep, CopyFailsStep, SyncDirectoryStep, CrashStep, PowerLossStep
    DEF Next

\* The invariant holds throughout.
THEOREM Invariance == Spec => []IInv
  <1>1. Init => IInv
    BY InitIInv
  <1>2. IInv /\ [Next]_vars => IInv'
    BY NextIInv
  <1> QED
    BY <1>1, <1>2, PTL DEF Spec

\* download.Fetch and installer.fetch: the variables stay within their types.
THEOREM TypeCorrect == Spec => []TypeOK
  <1>1. IInv => TypeOK
    BY DEF IInv
  <1> QED
    BY <1>1, Invariance, PTL

\* installer.fetch returns nothing but the artifact, however bodies are cut or
\* garbled, partial files continued and files damaged by a loss of power.
THEOREM FetchReturnsArtifact == Spec => []ReturnedIsArtifact
  <1>1. IInv => ReturnedIsArtifact
    BY DEF IInv
  <1> QED
    BY <1>1, Invariance, PTL

\* The release that installer.fetch returns is on disk, with its name, whatever
\* attempts before it left behind, unless it was taken without a download although
\* it was not synced.
THEOREM FetchReturnsDurable == Spec => []ReturnedIsDurable
  <1>1. IInv => ReturnedIsDurable
    <2>1. ASSUME IInv, result = "release", ~unsynced
          PROVE  release = File(Artifact) /\ linked
      <3>1. release \in Files /\ release.data = Artifact /\ release.synced = Artifact /\ linked
        BY <2>1 DEF IInv, TypeOK, ReturnedIsArtifact, SyncInv, IsSynced
      <3>2. \A f \in Files : f = [data |-> f.data, synced |-> f.synced]
        BY DEF Files
      <3> QED
        BY <3>1, <3>2 DEF File
    <2> QED
      BY <2>1 DEF ReturnedIsDurable
  <1> QED
    BY <1>1, Invariance, PTL
=============================================================================
