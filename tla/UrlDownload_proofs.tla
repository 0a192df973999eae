------------------------- MODULE UrlDownload_proofs -------------------------
(* For any objects, sources and bounds: what the record and the sentinel   *)
(* of a URL download say of the file is true.                              *)
EXTENDS UrlDownload, TLAPS

(* The file and its .part are files, of an object the upstream has.        *)
FilesOK ==
    /\ upstream \in Objects /\ source \in Sources
    /\ part \in Files /\ dest \in Files \cup {None}

(* The record is gone while the bytes it described are being replaced.     *)
Unvouched ==
    pc \in {"clearBytes", "head", "attempt", "again", "rename", "verify", "record"}
        => record = None \/ stuck

(* Past the download there is a file, and past its check it fits.          *)
Checked ==
    /\ pc \in {"verify", "record", "publish"} => dest # None
    /\ pc = "record" => Fits

(* A forced pass that goes on has dealt with the sentinel.                 *)
Withdrawn == pc \in {"clearRecord", "clearBytes"} => ~sentinel \/ orphaned

(* The record of a pinned source holds the pinned digest.                  *)
PinRecorded ==
    record # None /\ Declares[record.source] # None
        => record.sha = Whole(Declares[record.source])

RecordInv == FilesOK /\ Unvouched /\ Checked /\ RecordIsTrue

-----------------------------------------------------------------------------

(* An object is a file, and so is every part of one on top of a file.      *)
LEMMA WholeIsFile == ASSUME NEW o \in Objects PROVE Whole(o) \in Files /\ Whole(o) # None
<1>1. Size[o] \in Lengths /\ Whole(o) \in [1..Size[o] -> Objects \cup {Bad}]
  BY ObjectsAssumption DEF ObjectsAssumption, Lengths, Whole
<1>2. Whole(o) \in Files
  BY <1>1 DEF Files
<1> QED
  BY <1>2, NoFileAssumption DEF NoFileAssumption

(* Files are the sequences of blocks that are not too long. *)
LEMMA FileIsSeq ==
  ASSUME NEW f
  PROVE  f \in Files <=> f \in Seq(Objects \cup {Bad}) /\ Len(f) \in Lengths
<1>1. ASSUME f \in Files PROVE f \in Seq(Objects \cup {Bad}) /\ Len(f) \in Lengths
  <2>1. PICK n \in Lengths : f \in [1..n -> Objects \cup {Bad}]
    BY <1>1 DEF Files
  <2>2. n \in Nat
    BY <2>1, ObjectsAssumption DEF ObjectsAssumption, Lengths
  <2> QED
    BY <2>1, <2>2
<1>2. ASSUME f \in Seq(Objects \cup {Bad}), Len(f) \in Lengths PROVE f \in Files
  <2>1. f \in [1..Len(f) -> Objects \cup {Bad}]
    BY <1>2
  <2> QED
    BY <1>2, <2>1 DEF Files
<1> QED
  BY <1>1, <1>2

(* attempt appends no more than the upstream's object has left. *)
LEMMA ExtendedIsFile ==
  ASSUME NEW f \in Files, NEW n \in Nat, upstream \in Objects,
         Len(f) + n <= Size[upstream]
  PROVE  Extended(f, n) \in Files
<1>1. f \in Seq(Objects \cup {Bad}) /\ Len(f) \in Nat
  BY FileIsSeq, ObjectsAssumption DEF ObjectsAssumption, Lengths
<1>2. Size[upstream] \in 1..Longest /\ Longest \in Nat
  BY ObjectsAssumption DEF ObjectsAssumption
<1>3. /\ Whole(upstream) \in Seq(Objects \cup {Bad})
      /\ Len(Whole(upstream)) = Size[upstream]
  BY <1>2 DEF Whole
<1> DEFINE more == SubSeq(Whole(upstream), Len(f) + 1, Len(f) + n)
<1>4. more \in Seq(Objects \cup {Bad}) /\ Len(more) = n
  BY <1>1, <1>2, <1>3
<1>5. f \o more \in Seq(Objects \cup {Bad}) /\ Len(f \o more) = Len(f) + n
  BY <1>1, <1>4
<1>6. Len(f \o more) \in Lengths
  BY <1>1, <1>2, <1>5 DEF Lengths
<1> QED
  BY <1>5, <1>6, FileIsSeq DEF Extended

-----------------------------------------------------------------------------

(* The steps of a pass that leave the file, the .part, the record and the  *)
(* histories alone, and where they lead.                                   *)
Quiet ==
    /\ UNCHANGED <<upstream, source, file, record, sentinel, history>>
    /\ \/ pc' \in {"idle", "clearSentinel", "reuse"}
       \/ pc = "reuse" /\ SameSource /\ Intact /\ pc' = "publish" /\ level' = level
       \/ pc = "reuse" /\ pc' = "unrecord"
       \/ pc = "head" /\ pc' \in {"attempt", "verify"}
             /\ (pc' = "verify" => dest # None)
       \/ pc = "attempt" /\ pc' = "rename"
       \/ pc = "again" /\ pc' = "attempt"
       \/ pc = "verify" /\ Fits /\ pc' = "record"

(* Those that only make something of the .part. *)
Transfer ==
    /\ pc = "attempt" /\ pc' \in {"rename", "again", "idle"}
    /\ UNCHANGED <<upstream, source, dest, record, sentinel, history>>

LEMMA StepKinds ==
  ASSUME Next
  PROVE  \/ Quiet \/ Transfer
         \/ ClearSentinel \/ ClearRecord \/ ClearBytes \/ ClearPart
         \/ Unrecord \/ Rename \/ Mismatch \/ WriteRecord \/ Publish
         \/ Restart \/ UpstreamChanges \/ Damage
<1> USE DEF Goto, Leave, world, pass
<1>1. CASE BeginDue
  BY <1>1 DEF BeginDue, Begin, Quiet
<1>2. ASSUME NEW l, NEW force, BeginRequested(l, force) PROVE Quiet
  BY <1>2 DEF BeginRequested, Begin, Quiet
<1>3. CASE Reuse
  BY <1>3 DEF Reuse, Quiet
<1>4. CASE Reject
  BY <1>4 DEF Reject, Quiet
<1>5. CASE HeadAnswers
  BY <1>5 DEF HeadAnswers, Quiet
<1>6. CASE HeadFails
  BY <1>6 DEF HeadFails, Quiet
<1>7. CASE Complete
  BY <1>7 DEF Complete, Quiet
<1>8. CASE Again \/ GiveUp
  BY <1>8 DEF Again, GiveUp, Quiet
<1>9. CASE VerifyDeclared
  BY <1>9 DEF VerifyDeclared, Quiet
<1>10. CASE PublishFails
  BY <1>10 DEF PublishFails, Quiet
<1>11. ASSUME NEW kept, Stream(kept) PROVE Transfer
  BY <1>11 DEF Stream, Incomplete, Transfer
<1>12. ASSUME NEW kept, NEW n, StreamBreaks(kept, n) PROVE Transfer
  BY <1>12 DEF StreamBreaks, Incomplete, Transfer
<1>13. CASE Unsatisfiable
  BY <1>13 DEF Unsatisfiable, Incomplete, Transfer
<1>14. CASE Refused
  BY <1>14 DEF Refused, Incomplete, Transfer
<1> QED
  BY <1>1, <1>2, <1>3, <1>4, <1>5, <1>6, <1>7, <1>8, <1>9, <1>10, <1>11, <1>12,
     <1>13, <1>14 DEF Next, Pass, Download

(* Whatever attempt makes of the .part is a file. *)
LEMMA PartIsFile ==
  ASSUME FilesOK, Next PROVE part' \in Files
<1> USE DEF FilesOK
<1>1. <<>> \in Files
  <2>1. <<>> \in Seq(Objects \cup {Bad}) /\ Len(<<>>) = 0
    OBVIOUS
  <2>2. Len(<<>>) \in Lengths
    BY <2>1, ObjectsAssumption DEF ObjectsAssumption, Lengths
  <2> QED
    BY <2>1, <2>2, FileIsSeq
<1>2. Existing \in Files /\ \A kept \in Kept : kept \in Files
  BY <1>1 DEF Existing, Kept
<1>3. Size[upstream] \in Nat /\ Size[upstream] >= 1 /\ \A n \in Lengths : n \in Nat
  BY ObjectsAssumption DEF ObjectsAssumption, Lengths
<1>4. \A kept \in Kept : Len(kept) \in Nat /\ Len(kept) < Size[upstream]
  <2>1. Len(Existing) \in Nat
    BY <1>2, <1>3, FileIsSeq
  <2> QED
    BY <1>3, <2>1 DEF Kept
<1>5. ASSUME NEW kept \in Kept, Stream(kept) PROVE part' \in Files
  <2>1. part' = Extended(kept, Size[upstream] - Len(kept))
    BY <1>5 DEF Stream
  <2>2. /\ Size[upstream] - Len(kept) \in Nat
        /\ Len(kept) + (Size[upstream] - Len(kept)) <= Size[upstream]
    BY <1>3, <1>4
  <2>3. kept \in Files
    BY <1>2
  <2> HIDE DEF FilesOK
  <2>4. upstream \in Objects
    BY DEF FilesOK
  <2> QED
    BY <2>1, <2>2, <2>3, <2>4, ExtendedIsFile
<1>6. ASSUME NEW kept \in Kept, NEW n \in Lengths, StreamBreaks(kept, n)
      PROVE  part' \in Files
  <2>1. part' = Extended(kept, n) /\ n < Size[upstream] - Len(kept)
    BY <1>6 DEF StreamBreaks
  <2>2. n \in Nat /\ Len(kept) + n <= Size[upstream]
    BY <1>3, <1>4, <2>1
  <2> QED
    BY <1>2, <2>1, <2>2, ExtendedIsFile
<1>7. CASE Refused \/ Unsatisfiable
  BY <1>1, <1>2, <1>7 DEF Refused, Unsatisfiable
<1>8. CASE ClearPart \/ Rename
  BY <1>1, <1>8 DEF ClearPart, Rename
<1>9. CASE BeginDue \/ \E l \in Levels, force \in BOOLEAN : BeginRequested(l, force)
  BY <1>9 DEF BeginDue, BeginRequested, Begin, file
<1>10. CASE \/ ClearSentinel \/ ClearRecord \/ ClearBytes \/ Reuse \/ Reject
            \/ Unrecord
  BY <1>10 DEF ClearSentinel, ClearRecord, ClearBytes, Reuse, Reject, Unrecord, file
<1>11. CASE HeadAnswers \/ HeadFails \/ Complete \/ Again \/ GiveUp
  BY <1>11 DEF HeadAnswers, HeadFails, Complete, Again, GiveUp, file
<1>12. CASE \/ VerifyDeclared \/ Mismatch \/ WriteRecord \/ Publish \/ PublishFails
            \/ Restart \/ UpstreamChanges \/ Damage
  BY <1>12 DEF VerifyDeclared, Mismatch, WriteRecord, Publish, PublishFails,
       Restart, UpstreamChanges, Damage, file
<1> QED
  BY <1>5, <1>6, <1>7, <1>8, <1>9, <1>10, <1>11, <1>12 DEF Next, Pass, Download

-----------------------------------------------------------------------------

(* The file is a file after every step: rename and damage make one of one. *)
LEMMA FileStaysFile ==
  ASSUME FilesOK, Next PROVE FilesOK'
<1>1. part' \in Files
  BY PartIsFile
<1>2. source' \in Sources /\ upstream' \in Objects /\ dest' \in Files \cup {None}
  <2> USE DEF FilesOK, world, file
  <2>1. CASE Quiet
    BY <2>1 DEF Quiet
  <2>2. CASE Transfer
    BY <2>2 DEF Transfer
  <2>3. CASE ClearSentinel \/ ClearRecord \/ ClearBytes \/ ClearPart \/ Unrecord
    BY <2>3 DEF ClearSentinel, ClearRecord, ClearBytes, ClearPart, Unrecord
  <2>4. CASE Rename \/ Mismatch \/ WriteRecord \/ Publish
    BY <2>4 DEF Rename, Mismatch, WriteRecord, Publish
  <2>5. CASE Restart \/ UpstreamChanges
    BY <2>5 DEF Restart, UpstreamChanges
  <2>6. CASE Damage
    <3>1. /\ dest \in Files /\ dest # <<>>
          /\ dest' \in {None, SubSeq(dest, 1, Len(dest) - 1), [dest EXCEPT ![1] = Bad]}
          /\ UNCHANGED <<upstream, source>>
      BY <2>6 DEF Damage
    <3>2. PICK n \in Nat : n = Len(dest) /\ n >= 1 /\ n <= Longest
      BY <3>1, FileIsSeq, ObjectsAssumption DEF ObjectsAssumption, Lengths
    <3>3. dest \in Seq(Objects \cup {Bad})
      BY <3>1, FileIsSeq
    <3>4. SubSeq(dest, 1, n - 1) \in Files
      <4>1. /\ SubSeq(dest, 1, n - 1) \in Seq(Objects \cup {Bad})
            /\ Len(SubSeq(dest, 1, n - 1)) = n - 1
        BY <3>2, <3>3
      <4>2. n - 1 \in Lengths
        BY <3>2, ObjectsAssumption DEF ObjectsAssumption, Lengths
      <4> QED
        BY <4>1, <4>2, FileIsSeq
    <3>5. [dest EXCEPT ![1] = Bad] \in Files
      <4>1. dest \in [1..n -> Objects \cup {Bad}]
        BY <3>2, <3>3
      <4>2. [dest EXCEPT ![1] = Bad] \in [1..n -> Objects \cup {Bad}]
        BY <4>1
      <4>3. n \in Lengths
        BY <3>2, ObjectsAssumption DEF ObjectsAssumption, Lengths
      <4> QED
        BY <4>2, <4>3 DEF Files
    <3> QED
      BY <3>1, <3>2, <3>4, <3>5
  <2> QED
    BY <2>1, <2>2, <2>3, <2>4, <2>5, <2>6, StepKinds
<1> QED
  BY <1>1, <1>2 DEF FilesOK

(* removeURLSidecar comes before every step that replaces bytes. *)
LEMMA UnvouchedStep ==
  ASSUME Unvouched, Next PROVE Unvouched'
<1> USE DEF Unvouched, Goto, Leave, world, file, history
<1>1. CASE Quiet
  BY <1>1 DEF Quiet
<1>2. CASE Transfer
  BY <1>2 DEF Transfer
<1>3. CASE ClearSentinel \/ ClearBytes \/ ClearPart
  BY <1>3 DEF ClearSentinel, ClearBytes, ClearPart
<1>4. CASE ClearRecord \/ Unrecord
  BY <1>4 DEF ClearRecord, Unrecord, RemoveRecord
<1>5. CASE Rename \/ Mismatch \/ WriteRecord \/ Publish
  BY <1>5 DEF Rename, Mismatch, WriteRecord, Publish
<1>6. CASE Restart \/ UpstreamChanges \/ Damage
  BY <1>6 DEF Restart, UpstreamChanges, Damage
<1> QED
  BY <1>1, <1>2, <1>3, <1>4, <1>5, <1>6, StepKinds

(* Nothing touches the file between the download and the sentinel. *)
LEMMA CheckedStep ==
  ASSUME FilesOK, Checked, Next PROVE Checked'
<1> USE DEF Checked, Fits, Goto, Leave, world, file, history
<1>1. CASE Quiet
  BY <1>1 DEF Quiet, Intact
<1>2. CASE Transfer
  BY <1>2 DEF Transfer
<1>3. CASE ClearSentinel \/ ClearRecord \/ ClearBytes \/ ClearPart \/ Unrecord
  BY <1>3 DEF ClearSentinel, ClearRecord, ClearBytes, ClearPart, Unrecord
<1>4. CASE Rename
  BY <1>4, NoFileAssumption DEF Rename, FilesOK, NoFileAssumption
<1>5. CASE Mismatch \/ WriteRecord \/ Publish
  BY <1>5 DEF Mismatch, WriteRecord, Publish
<1>6. CASE Restart \/ UpstreamChanges \/ Damage
  BY <1>6 DEF Restart, UpstreamChanges, Damage
<1> QED
  BY <1>1, <1>2, <1>3, <1>4, <1>5, <1>6, StepKinds

(* A new record says what the file is: the declared digest is that of the  *)
(* bytes that were checked against it.                                     *)
LEMMA NewRecordIsTrue ==
  ASSUME FilesOK, Checked, pc = "record"
  PROVE  /\ dest # None /\ Len(dest) = NewRecord.size
         /\ NewRecord.sha # None => dest = NewRecord.sha
<1>1. dest # None /\ Fits
  BY DEF Checked
<1>2. NewRecord.size = Len(dest)
  BY DEF NewRecord
<1>3. NewRecord.sha \in {dest, None}
  BY <1>1 DEF NewRecord, Fits
<1> QED
  BY <1>1, <1>2, <1>3

LEMMA RecordIsTrueStep ==
  ASSUME RecordInv, Next PROVE RecordIsTrue'
<1> USE DEF RecordInv, RecordIsTrue, world, file, history
<1>1. CASE Quiet
  BY <1>1 DEF Quiet
<1>2. CASE Transfer
  BY <1>2 DEF Transfer
<1>3. CASE ClearSentinel \/ ClearPart
  BY <1>3 DEF ClearSentinel, ClearPart
<1>4. CASE ClearRecord \/ Unrecord
  BY <1>4 DEF ClearRecord, Unrecord, RemoveRecord
<1>5. CASE ClearBytes \/ Rename \/ Mismatch
  BY <1>5 DEF ClearBytes, Rename, Mismatch, Unvouched
<1>6. CASE WriteRecord
  <2>1. pc = "record" /\ dest' = dest
    BY <1>6 DEF WriteRecord
  <2>2. CASE record' = NewRecord
    BY <2>1, <2>2, NewRecordIsTrue
  <2>3. CASE UNCHANGED <<record, tampered, stuck>>
    BY <2>1, <2>3
  <2> QED
    BY <1>6, <2>2, <2>3 DEF WriteRecord
<1>7. CASE Publish \/ Restart \/ UpstreamChanges \/ Damage
  BY <1>7 DEF Publish, Restart, UpstreamChanges, Damage
<1> QED
  BY <1>1, <1>2, <1>3, <1>4, <1>5, <1>6, <1>7, StepKinds

(* clearSentinelForForce comes before the removals. *)
LEMMA WithdrawnStep ==
  ASSUME Withdrawn, Next PROVE Withdrawn'
<1> USE DEF Withdrawn, Goto, Leave, world, file, history
<1>1. CASE Quiet
  BY <1>1 DEF Quiet
<1>2. CASE Transfer
  BY <1>2 DEF Transfer
<1>3. CASE ClearSentinel \/ ClearRecord \/ ClearBytes \/ ClearPart \/ Unrecord
  BY <1>3 DEF ClearSentinel, ClearRecord, ClearBytes, ClearPart, Unrecord
<1>4. CASE Rename \/ Mismatch \/ WriteRecord \/ Publish
  BY <1>4 DEF Rename, Mismatch, WriteRecord, Publish
<1>5. CASE Restart \/ UpstreamChanges \/ Damage
  BY <1>5 DEF Restart, UpstreamChanges, Damage
<1> QED
  BY <1>1, <1>2, <1>3, <1>4, <1>5, StepKinds

(* The sentinel goes before the file does and comes after it. *)
LEMMA SentinelStep ==
  ASSUME FilesOK, Checked, Withdrawn, SentinelNamesFile, Next
  PROVE  SentinelNamesFile'
<1> USE DEF SentinelNamesFile, world, file, history
<1>1. CASE Quiet
  BY <1>1 DEF Quiet
<1>2. CASE Transfer
  BY <1>2 DEF Transfer
<1>3. CASE ClearSentinel \/ ClearRecord \/ ClearPart \/ Unrecord
  BY <1>3 DEF ClearSentinel, ClearRecord, ClearPart, Unrecord
<1>4. CASE ClearBytes
  BY <1>4 DEF ClearBytes, Withdrawn
<1>5. CASE Rename
  BY <1>5, NoFileAssumption DEF Rename, FilesOK, NoFileAssumption
<1>6. CASE Mismatch \/ WriteRecord \/ Publish
  BY <1>6 DEF Mismatch, WriteRecord, Publish, Checked
<1>7. CASE Restart \/ UpstreamChanges \/ Damage
  BY <1>7 DEF Restart, UpstreamChanges, Damage
<1> QED
  BY <1>1, <1>2, <1>3, <1>4, <1>5, <1>6, <1>7, StepKinds

(* A record of a pinned source is written with the pin. *)
LEMMA PinRecordedStep ==
  ASSUME PinRecorded, Next PROVE PinRecorded'
<1> USE DEF PinRecorded, world, file, history
<1>1. CASE Quiet
  BY <1>1 DEF Quiet
<1>2. CASE Transfer
  BY <1>2 DEF Transfer
<1>3. CASE ClearSentinel \/ ClearBytes \/ ClearPart
  BY <1>3 DEF ClearSentinel, ClearBytes, ClearPart
<1>4. CASE ClearRecord \/ Unrecord
  BY <1>4 DEF ClearRecord, Unrecord, RemoveRecord
<1>5. CASE WriteRecord
  BY <1>5 DEF WriteRecord, NewRecord
<1>6. CASE Rename \/ Mismatch \/ Publish
  BY <1>6 DEF Rename, Mismatch, Publish
<1>7. CASE Restart \/ UpstreamChanges \/ Damage
  BY <1>7 DEF Restart, UpstreamChanges, Damage
<1> QED
  BY <1>1, <1>2, <1>3, <1>4, <1>5, <1>6, <1>7, StepKinds

(* A file that is taken as it is, is the one the source declares: its      *)
(* record holds the declared digest, and is true, or was just checked.     *)
LEMMA ReusedIsDeclared ==
  ASSUME FilesOK, RecordIsTrue, PinRecorded, SameSource, Intact,
         Declares[source] # None, ~stuck, ~tampered \/ HashesLocally(level)
  PROVE  dest = Whole(Declares[source])
<1>1. record # None /\ record.source = source
  BY DEF SameSource
<1>2. record.sha = Whole(Declares[source])
  BY <1>1 DEF PinRecorded
<1>3. Declares[source] \in Objects
  BY ObjectsAssumption DEF ObjectsAssumption, FilesOK
<1>4. record.sha # None
  BY <1>2, <1>3, WholeIsFile
<1>5. dest = record.sha
  BY <1>1, <1>4 DEF RecordIsTrue, Intact
<1> QED
  BY <1>2, <1>5

LEMMA DeclaredStep ==
  ASSUME RecordInv, PinRecorded, DeclaredBytesOnly, Next
  PROVE  DeclaredBytesOnly'
<1> USE DEF DeclaredBytesOnly, Goto, Leave, world, file, history, HashesLocally
<1>1. CASE Quiet
  <2>1. CASE pc' = "publish"
    <3>1. /\ SameSource /\ Intact
          /\ UNCHANGED <<source, dest, tampered, stuck, level>>
      BY <1>1, <2>1 DEF Quiet
    <3> QED
      BY <3>1, ReusedIsDeclared DEF RecordInv
  <2> QED
    BY <2>1
<1>2. CASE Transfer
  BY <1>2 DEF Transfer
<1>3. CASE ClearSentinel \/ ClearRecord \/ ClearBytes \/ ClearPart \/ Unrecord
  BY <1>3 DEF ClearSentinel, ClearRecord, ClearBytes, ClearPart, Unrecord
<1>4. CASE WriteRecord
  BY <1>4 DEF WriteRecord, RecordInv, Checked, Fits
<1>5. CASE Rename \/ Mismatch \/ Publish
  BY <1>5 DEF Rename, Mismatch, Publish
<1>6. CASE Restart \/ Damage
  BY <1>6 DEF Restart, Damage
<1>7. CASE UpstreamChanges
  BY <1>7 DEF UpstreamChanges, pass
<1> QED
  BY <1>1, <1>2, <1>3, <1>4, <1>5, <1>6, <1>7, StepKinds

-----------------------------------------------------------------------------

UrlInv ==
    RecordInv /\ Withdrawn /\ PinRecorded /\ SentinelNamesFile /\ DeclaredBytesOnly

(* Before the first pass there is no file, no record and no sentinel. *)
LEMMA InitUrlInv == Init => UrlInv
<1> SUFFICES ASSUME Init PROVE UrlInv
  OBVIOUS
<1> USE DEF Init
<1>1. FilesOK
  <2>1. <<>> \in Seq(Objects \cup {Bad}) /\ Len(<<>>) = 0
    OBVIOUS
  <2>2. Len(<<>>) \in Lengths
    BY <2>1, ObjectsAssumption DEF ObjectsAssumption, Lengths
  <2>3. <<>> \in Files
    BY <2>1, <2>2, FileIsSeq
  <2> QED
    BY <2>3 DEF FilesOK
<1>2. RecordInv
  BY <1>1 DEF RecordInv, Unvouched, Checked, RecordIsTrue
<1>3. Withdrawn /\ PinRecorded /\ SentinelNamesFile /\ DeclaredBytesOnly
  BY DEF Withdrawn, PinRecorded, SentinelNamesFile, DeclaredBytesOnly
<1> QED
  BY <1>2, <1>3 DEF UrlInv

(* The parts hold each other up over every step of a pass and between two. *)
LEMMA StepUrlInv == UrlInv /\ [Next]_vars => UrlInv'
<1> SUFFICES ASSUME UrlInv, [Next]_vars PROVE UrlInv'
  OBVIOUS
<1>1. CASE Next
  <2>1. /\ FilesOK /\ Unvouched /\ Checked /\ RecordInv
        /\ Withdrawn /\ PinRecorded /\ SentinelNamesFile /\ DeclaredBytesOnly
    BY DEF UrlInv, RecordInv
  <2>2. FilesOK' /\ Unvouched' /\ Checked' /\ RecordIsTrue'
    BY <1>1, <2>1, FileStaysFile, UnvouchedStep, CheckedStep, RecordIsTrueStep
  <2>3. Withdrawn' /\ PinRecorded' /\ SentinelNamesFile' /\ DeclaredBytesOnly'
    BY <1>1, <2>1, WithdrawnStep, PinRecordedStep, SentinelStep, DeclaredStep
  <2> QED
    BY <2>2, <2>3 DEF UrlInv, RecordInv
<1>2. CASE UNCHANGED vars
  <2> USE <1>2 DEF vars, world, file, pass, history
  <2>1. FilesOK' /\ Unvouched' /\ Checked'
    BY DEF UrlInv, RecordInv, FilesOK, Unvouched, Checked, Fits
  <2>2. RecordIsTrue'
    BY DEF UrlInv, RecordInv, RecordIsTrue
  <2>3. Withdrawn' /\ PinRecorded' /\ SentinelNamesFile'
    BY DEF UrlInv, Withdrawn, PinRecorded, SentinelNamesFile
  <2>4. DeclaredBytesOnly'
    BY DEF UrlInv, DeclaredBytesOnly, HashesLocally
  <2> QED
    BY <2>1, <2>2, <2>3, <2>4 DEF UrlInv, RecordInv
<1> QED
  BY <1>1, <1>2

(* Every pass, crash and change of the upstream keeps the invariant. *)
LEMMA UrlInvHolds == Spec => []UrlInv
BY InitUrlInv, StepUrlInv, PTL DEF Spec

(* downloadAndRecordURL and removeURLSidecar: a record that is there is    *)
(* true of the file, wherever the process died.                            *)
THEOREM RecordTrue == Spec => []RecordIsTrue
<1>1. UrlInv => RecordIsTrue
  BY DEF UrlInv, RecordInv
<1> QED
  BY <1>1, UrlInvHolds, PTL

(* clearSentinelForForce: the sentinel names a file that is there.         *)
THEOREM SentinelTrue == Spec => []SentinelNamesFile
<1>1. UrlInv => SentinelNamesFile
  BY DEF UrlInv
<1> QED
  BY <1>1, UrlInvHolds, PTL

(* checkDeclaredDigest and localIntact: a pinned source is announced with  *)
(* the pinned bytes only.                                                  *)
THEOREM PinnedBytes == Spec => []DeclaredBytesOnly
<1>1. UrlInv => DeclaredBytesOnly
  BY DEF UrlInv
<1> QED
  BY <1>1, UrlInvHolds, PTL

=============================================================================
