---------------------------- MODULE QemuImageCache -----------------------------
(***************************************************************************)
(* The cache of base images (roles/qemu/tasks/_image_cache.yml and         *)
(* _cache_image.yml): controllers that share the cache directory ingest    *)
(* the same upstream image, each task of a play a step of its own, with no *)
(* lock between them.                                                      *)
(*                                                                         *)
(* One image stands for all: images have directories of their own.  A file *)
(* is "partial" when what qemu-img info reads, its header, is there and    *)
(* its data is not: it looks like an image.                                *)
(***************************************************************************)
EXTENDS Integers

CONSTANTS
  Controllers,
  Kinds,      \* artifacts upstream may serve: how they are packed, is it a raw disk?
  MaxFaults   \* bound: deaths of controllers, failed downloads

ASSUME CacheAssumption ==
  /\ Kinds \subseteq [form : {"plain", "compressed", "zip"}, raw : BOOLEAN]
  /\ MaxFaults \in Nat

BlockPCs == {"download", "unpack", "extract", "probe", "creates", "publish", "convert",
             "clean_download", "clean_payload"}
PCs == {"idle", "snapshot", "inspect", "use"} \cup BlockPCs

VARIABLES
  kind,     \* what upstream serves
  download, \* is disk.download there?
  payload,  \* disk.payload, or the disk in the extracted archive: absent, partial, whole
  base,     \* disk.qcow2: absent, partial, valid
  writes,   \* the file a play's unzip writes: by now the payload, the base or an
            \* unlinked one; "torn": its qemu-img convert reads a partial file
  pc, hit,  \* each play's next task and its _mp_qemu_cache_hit
  faults,
  cut       \* has a play died or failed? (history, for StagingRemoved)

staging == <<download, payload>>
vars == <<kind, staging, base, writes, pc, hit, faults, cut>>

Init ==
  /\ kind \in Kinds
  /\ download = FALSE /\ payload = "absent"
  /\ base = "absent"
  /\ writes = [c \in Controllers |-> "nothing"]
  /\ pc = [c \in Controllers |-> "idle"]
  /\ hit = [c \in Controllers |-> FALSE]
  /\ faults = 0 /\ cut = FALSE

Goto(c, x) == pc' = [pc EXCEPT ![c] = x]
Step(c, from, to) == pc[c] = from /\ Goto(c, to) /\ UNCHANGED <<kind, hit>>
Fault == faults < MaxFaults /\ faults' = faults + 1 /\ cut' = TRUE

\* Mutant: the guard of the block is evaluated for each of its tasks.
CacheHitNow(c) == base # "absent"

\* The snapshot, not the file, guards every task of the block.
CacheHit(c) == hit[c]

Task(c, from, to) == Step(c, from, to) /\ ~CacheHit(c)

\* The file the uncompressed disk is read from is there.
Source == IF kind.form = "plain" THEN download ELSE payload # "absent"

\* What is written under a name that is removed goes to a file nobody will see.
Unlink(name) == [d \in Controllers |-> IF writes[d] = name THEN "lost" ELSE writes[d]]

-------------------------------------------------------------------------------
Begin(c) == Step(c, "idle", "snapshot") /\ UNCHANGED <<staging, base, writes, faults, cut>>

\* Mutant: the cache is taken for filled as soon as something was downloaded.
FoundDownload == download

Found == base # "absent"

\* "Decide cache hit ONCE, before the block."
Snapshot(c) ==
  /\ pc[c] = "snapshot" /\ Goto(c, "download")
  /\ hit' = [hit EXCEPT ![c] = Found]
  /\ UNCHANGED <<kind, staging, base, writes, faults, cut>>

SkipBlock(c) ==
  /\ pc[c] \in BlockPCs \ {"convert"} /\ CacheHit(c)
  /\ Goto(c, "inspect")
  /\ UNCHANGED <<kind, staging, base, writes, hit, faults, cut>>

\* get_url leaves a file that is already there alone.
Download(c) ==
  /\ Task(c, "download", "unpack")
  /\ download' = TRUE
  /\ UNCHANGED <<payload, base, writes, faults, cut>>

\* A plain image is the download; decompress writes a temporary file and renames it;
\* what unarchive finds extracted it does not extract again.
Unpack(c) ==
  /\ Task(c, "unpack", "probe")
  /\ download
  /\ kind.form = "zip" => payload = "whole"
  /\ payload' = IF kind.form = "compressed" THEN "whole" ELSE payload
  /\ UNCHANGED <<download, base, writes, faults, cut>>

\* unzip -o, in the directory all plays extract into: it removes the disk another play
\* is extracting and writes its own.
Extract(c) ==
  /\ Task(c, "unpack", "extract")
  /\ download /\ kind.form = "zip" /\ payload # "whole"
  /\ payload' = "partial"
  /\ writes' = [Unlink("payload") EXCEPT ![c] = "payload"]
  /\ UNCHANGED <<download, base, faults, cut>>

\* The disk is written to its end, whatever its name is by now.
Extracted(c) ==
  /\ Task(c, "extract", "probe")
  /\ writes' = [writes EXCEPT ![c] = "nothing"]
  /\ payload' = IF writes[c] = "payload" THEN "whole" ELSE payload
  /\ base' = IF writes[c] = "base" THEN "valid" ELSE base
  /\ UNCHANGED <<download, faults, cut>>

\* qemu-img info
Probe(c) ==
  /\ Task(c, "probe", "creates")
  /\ Source
  /\ UNCHANGED <<staging, base, writes, faults, cut>>

\* `creates`: the command is not run when its result is there.
Creates(c) ==
  /\ Task(c, "creates", IF base = "absent" THEN "publish" ELSE "clean_download")
  /\ UNCHANGED <<staging, base, writes, faults, cut>>

\* Mutant: qcow2 images are converted as well.
ConvertsAll == TRUE

\* An image that is not qcow2 is converted.
Converts == kind.raw

\* mv -- payload disk.qcow2: what a play still writes to the payload it writes to the
\* base from now on.
Rename(c) ==
  /\ Task(c, "publish", "clean_download")
  /\ ~Converts /\ Source
  /\ IF kind.form = "plain"
     THEN download' = FALSE /\ base' = "valid" /\ UNCHANGED payload
     ELSE /\ payload' = "absent"
          /\ base' = IF payload = "whole" THEN "valid" ELSE "partial"
          /\ UNCHANGED download
  /\ writes' = [d \in Controllers |->
                  IF writes[d] = "payload" THEN "base" ELSE Unlink("base")[d]]
  /\ UNCHANGED <<faults, cut>>

\* qemu-img locks the image it writes.
Locked == \E d \in Controllers : pc[d] = "convert"

\* qemu-img convert: the target is truncated, then written.
Convert(c) ==
  /\ Task(c, "publish", "convert")
  /\ Converts /\ Source /\ ~Locked
  /\ base' = "partial"
  /\ writes' = [writes EXCEPT
                  ![c] = IF kind.form # "plain" /\ payload = "partial" THEN "torn" ELSE @]
  /\ UNCHANGED <<staging, faults, cut>>

Converted(c) ==
  /\ Step(c, "convert", "clean_download")
  /\ base' = IF writes[c] = "torn" THEN "partial" ELSE "valid"
  /\ writes' = [writes EXCEPT ![c] = "nothing"]
  /\ UNCHANGED <<staging, faults, cut>>

CleanDownload(c) ==
  /\ Task(c, "clean_download", "clean_payload")
  /\ download' = IF base = "absent" THEN download ELSE FALSE
  /\ UNCHANGED <<payload, base, writes, faults, cut>>

CleanPayload(c) ==
  /\ Task(c, "clean_payload", "inspect")
  /\ payload' = IF base = "absent" THEN payload ELSE "absent"
  /\ writes' = IF base = "absent" THEN writes ELSE Unlink("payload")
  /\ UNCHANGED <<download, base, faults, cut>>

\* qemu-img info, which sees the header only and waits for no lock.
Inspect(c) ==
  /\ Step(c, "inspect", "use")
  /\ base # "absent" /\ ~Locked
  /\ UNCHANGED <<staging, base, writes, faults, cut>>

\* The play makes its overlays on the image and launches its guests.
Use(c) == Step(c, "use", "idle") /\ UNCHANGED <<staging, base, writes, faults, cut>>

\* A task fails: what it needs has been cleaned up or moved by another play, or
\* the image is being written.
Fails(c) ==
  /\ \/ Task(c, "unpack", "idle") /\ ~download
     \/ Task(c, "probe", "idle") /\ ~Source
     \/ Task(c, "publish", "idle") /\ (~Source \/ (Converts /\ Locked))
     \/ Step(c, "inspect", "idle") /\ (base = "absent" \/ Locked)
  /\ cut' = TRUE
  /\ UNCHANGED <<staging, base, writes, faults>>

\* The mirror does not deliver, for all the retries.
DownloadFails(c) ==
  /\ Task(c, "download", "idle") /\ ~download
  /\ Fault
  /\ UNCHANGED <<staging, base, writes>>

\* The controller dies, its qemu-img or unzip with it.
Crash(c) ==
  /\ pc[c] # "idle" /\ Goto(c, "idle")
  /\ Fault
  /\ writes' = [writes EXCEPT ![c] = "nothing"]
  /\ UNCHANGED <<kind, hit, staging, base>>

Play(c) ==
  \/ Begin(c) \/ Snapshot(c) \/ SkipBlock(c) \/ Download(c)
  \/ Unpack(c) \/ Extract(c) \/ Extracted(c) \/ Probe(c)
  \/ Creates(c) \/ Rename(c) \/ Convert(c) \/ Converted(c)
  \/ CleanDownload(c) \/ CleanPayload(c) \/ Inspect(c) \/ Use(c) \/ Fails(c)

Next == \E c \in Controllers : Play(c) \/ DownloadFails(c) \/ Crash(c)

Spec == Init /\ [][Next]_vars

\* Plays go on, and users run them again.
FairSpec == Spec /\ \A c \in Controllers : WF_vars(Play(c))

-------------------------------------------------------------------------------
\* Every variable stays in its range (_cache_image.yml:13-163).
TypeOK ==
  /\ kind \in Kinds
  /\ download \in BOOLEAN /\ payload \in {"absent", "partial", "whole"}
  /\ base \in {"absent", "partial", "valid"}
  /\ writes \in [Controllers -> {"nothing", "payload", "base", "lost", "torn"}]
  /\ pc \in [Controllers -> PCs]
  /\ hit \in [Controllers -> BOOLEAN]
  /\ faults \in 0..MaxFaults /\ cut \in BOOLEAN

\* "Ingest one upstream image artifact into the cache as a valid qcow2": a play
\* that goes on to its overlays finds a whole image (_cache_image.yml:3, 23, 133-153).
UsedImageWhole == \A c \in Controllers : pc[c] = "use" => base = "valid"

\* The same where upstream serves a qcow2, plain or compressed, whoever dies and
\* however many plays ingest it at once (_cache_image.yml:71-77, 133-141).  Not so for
\* one in a zip: it is extracted in place, where a play that shares the directory
\* takes another's unfinished file for the image (_cache_image.yml:88-92, 123-141).
UsedQcow2Whole == (~kind.raw /\ kind.form # "zip") => UsedImageWhole

\* "Snapshotting into a fact keeps the guard stable": when no play dies or fails, no
\* staging file outlives the plays that made the image (_cache_image.yml:17-23, 155-163).
StagingRemoved ==
  (~cut /\ base # "absent" /\ \A c \in Controllers : pc[c] = "idle")
  => ~download /\ payload = "absent"

\* Whoever dies or takes another's staging files away, plays that are run again get
\* their image (_cache_image.yml:21-47, 133-163).
ImageAvailable == \A c \in Controllers : []<>(pc[c] = "use" /\ base # "absent")
===============================================================================
