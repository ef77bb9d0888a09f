------------------------- MODULE QemuImageCacheProofs --------------------------
(***************************************************************************)
(* Proofs about the image cache: any number of controllers that ingest a   *)
(* qcow2 image, plain or compressed, at once, dying anywhere, only ever    *)
(* use a whole one; and when none dies or fails nothing is left of the     *)
(* staging files, however the image is packed.                             *)
(***************************************************************************)
EXTENDS QemuImageCache, TLAPS

\* A play that found the image, or is past publishing it, can count on its being
\* there.
Published ==
  \A c \in Controllers :
    (hit[c] \/ pc[c] \in {"clean_download", "clean_payload", "inspect", "use"})
    => base # "absent"

\* Only unzip writes a payload in place, and only it and qemu-img convert the base.
WrittenWhole ==
  /\ \A c \in Controllers : pc[c] = "extract" => kind.form = "zip"
  /\ \A c \in Controllers : pc[c] = "convert" => kind.raw
  /\ payload = "partial" => kind.form = "zip"
  /\ base = "partial" => kind.raw \/ kind.form = "zip"

IInv == TypeOK /\ Published /\ WrittenWhole

LEMMA InitIInv == Init => IInv
<1>. SUFFICES ASSUME Init PROVE IInv  OBVIOUS
<1>1. TypeOK
  <2>1. faults \in 0..MaxFaults  BY CacheAssumption DEF Init
  <2>2. /\ kind \in Kinds /\ base \in {"absent", "partial", "valid"}
        /\ pc \in [Controllers -> PCs] /\ hit \in [Controllers -> BOOLEAN]
    BY DEF Init, PCs
  <2>3. /\ download \in BOOLEAN /\ payload \in {"absent", "partial", "whole"}
        /\ cut \in BOOLEAN
    BY Zenon DEF Init
  <2>4. writes \in [Controllers -> {"nothing", "payload", "base", "lost", "torn"}]
    BY DEF Init
  <2>. QED  BY <2>1, <2>2, <2>3, <2>4 DEF TypeOK
<1>2. Published /\ WrittenWhole  BY DEF Init, Published, WrittenWhole
<1>. QED  BY <1>1, <1>2 DEF IInv

\* No step takes the image away, and each step that moves a play past publishing
\* it sees or makes it.
LEMMA NextIInv == IInv /\ [Next]_vars => IInv'
<1>. SUFFICES ASSUME IInv, [Next]_vars PROVE IInv'  OBVIOUS
<1>. USE CacheAssumption DEF IInv, TypeOK, Published, WrittenWhole, Goto, staging
<1>1. CASE UNCHANGED vars  BY <1>1 DEF vars
<1>2. ASSUME NEW c \in Controllers, Play(c) PROVE IInv'
  <2>. USE DEF Step, Task, CacheHit, PCs, BlockPCs
  <2>1. CASE Begin(c)  BY <2>1 DEF Begin
  <2>2. CASE Snapshot(c)  BY <2>2 DEF Snapshot, Found
  <2>3. CASE SkipBlock(c)  BY <2>3 DEF SkipBlock
  <2>4. CASE Download(c)  BY <2>4 DEF Download
  <2>5. CASE Unpack(c)  BY <2>5 DEF Unpack
  <2>6. CASE Extract(c)  BY <2>6 DEF Extract, Unlink
  <2>7. CASE Extracted(c)  BY <2>7 DEF Extracted
  <2>8. CASE Probe(c)  BY <2>8 DEF Probe
  <2>9. CASE Creates(c)  BY <2>9 DEF Creates
  <2>10. CASE Rename(c)  BY <2>10 DEF Rename, Unlink, Source
  <2>11. CASE Convert(c)  BY <2>11 DEF Convert, Converts
  <2>12. CASE Converted(c)  BY <2>12 DEF Converted
  <2>13. CASE CleanDownload(c)  BY <2>13 DEF CleanDownload
  <2>14. CASE CleanPayload(c)  BY <2>14 DEF CleanPayload, Unlink
  <2>15. CASE Inspect(c)  BY <2>15 DEF Inspect
  <2>16. CASE Use(c)  BY <2>16 DEF Use
  <2>17. CASE Fails(c)  BY <2>17 DEF Fails
  <2>. QED  BY <1>2, <2>1, <2>2, <2>3, <2>4, <2>5, <2>6, <2>7, <2>8, <2>9, <2>10,
               <2>11, <2>12, <2>13, <2>14, <2>15, <2>16, <2>17 DEF Play
<1>3. ASSUME NEW c \in Controllers, DownloadFails(c) PROVE IInv'
  BY <1>3 DEF DownloadFails, Task, Step, Fault, PCs
<1>4. ASSUME NEW c \in Controllers, Crash(c) PROVE IInv'
  BY <1>4 DEF Crash, Fault, PCs
<1>. QED  BY <1>1, <1>2, <1>3, <1>4 DEF Next

\* A play that goes on to its overlays finds a whole image, when upstream serves a
\* qcow2 that is plain or compressed.
THEOREM Qcow2IsWhole == Spec => []UsedQcow2Whole
<1>1. IInv => UsedQcow2Whole
  BY DEF IInv, TypeOK, Published, UsedQcow2Whole, UsedImageWhole, WrittenWhole
<1>. QED  BY <1>1, InitIInv, NextIInv, PTL DEF Spec

-------------------------------------------------------------------------------
(* Staging files.                                                          *)

\* The tasks that come after a staging file is there and before it is cleaned up.
BeforeCleanDownload == {"unpack", "extract", "probe", "creates", "publish", "convert",
                        "clean_download"}
BeforeCleanPayload == {"extract", "probe", "creates", "publish", "convert",
                       "clean_download", "clean_payload"}

\* Every staging file has a play in the block that has yet to clean it up.
Attended ==
  ~cut =>
    /\ download => \E c \in Controllers : ~hit[c] /\ pc[c] \in BeforeCleanDownload
    /\ payload # "absent" => \E c \in Controllers : ~hit[c] /\ pc[c] \in BeforeCleanPayload

LEMMA InitAttended == Init => Attended
BY DEF Init, Attended

\* The play that attends to a file goes on attending to it until it has removed it:
\* what it removes is there for good, since the image is.
LEMMA NextAttended == ASSUME IInv, Attended, [Next]_vars PROVE Attended'
<1>. USE DEF Attended, BeforeCleanDownload, BeforeCleanPayload, Goto, staging
<1>1. CASE UNCHANGED vars  BY <1>1 DEF vars
<1>2. TypeOK /\ Published  BY DEF IInv
<1>3. ASSUME NEW c \in Controllers, Play(c) PROVE Attended'
  <2>. USE <1>2 DEF TypeOK, Step, Task, CacheHit
  <2>1. CASE Begin(c)  BY <2>1 DEF Begin
  <2>2. CASE Snapshot(c)  BY <2>2 DEF Snapshot
  <2>3. CASE SkipBlock(c)  BY <2>3 DEF SkipBlock
  <2>4. CASE Download(c)  BY <2>4 DEF Download
  <2>5. CASE Unpack(c)  BY <2>5 DEF Unpack
  <2>6. CASE Extract(c)  BY <2>6 DEF Extract, Unlink
  <2>7. CASE Extracted(c)  BY <2>7 DEF Extracted
  <2>8. CASE Probe(c)  BY <2>8 DEF Probe
  <2>9. CASE Creates(c)  BY <2>9 DEF Creates
  <2>10. CASE Rename(c)  BY <2>10 DEF Rename, Unlink, Source
  <2>11. CASE Convert(c)  BY <2>11 DEF Convert
  <2>12. CASE Converted(c)  BY <2>12 DEF Converted
  <2>13. CASE CleanDownload(c)  BY <2>13 DEF CleanDownload, Published
  <2>14. CASE CleanPayload(c)  BY <2>14 DEF CleanPayload, Published
  <2>15. CASE Inspect(c)  BY <2>15 DEF Inspect
  <2>16. CASE Use(c)  BY <2>16 DEF Use
  <2>17. CASE Fails(c)  BY <2>17 DEF Fails
  <2>. QED  BY <1>3, <2>1, <2>2, <2>3, <2>4, <2>5, <2>6, <2>7, <2>8, <2>9, <2>10,
               <2>11, <2>12, <2>13, <2>14, <2>15, <2>16, <2>17 DEF Play
<1>4. ASSUME NEW c \in Controllers, DownloadFails(c) \/ Crash(c) PROVE Attended'
  BY <1>4 DEF DownloadFails, Crash, Fault
<1>. QED  BY <1>1, <1>3, <1>4 DEF Next

\* When no play dies or fails, no staging file outlives the plays that made the image,
\* however many of them ingest it at once.
THEOREM NothingStaged == Spec => []StagingRemoved
<1>1. Attended => StagingRemoved
  BY DEF Attended, StagingRemoved, BeforeCleanDownload, BeforeCleanPayload
<1>2. Init => IInv /\ Attended  BY InitIInv, InitAttended
<1>3. IInv /\ Attended /\ [Next]_vars => (IInv /\ Attended)'
  BY NextIInv, NextAttended
<1>. QED  BY <1>1, <1>2, <1>3, PTL DEF Spec
===============================================================================
