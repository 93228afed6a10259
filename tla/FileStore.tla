------------------------------ MODULE FileStore ------------------------------
(***************************************************************************)
(* How one data file gets onto the disk (download_one and update_one of    *)
(* ip2region.rs and security.rs): a response is written to a temporary     *)
(* file of its own, validated there, and then either copied into a new     *)
(* destination file (download) or renamed over the old one (update).       *)
(* Every file operation may fail, and the program may be stopped between   *)
(* any two of them; meanwhile the operator may move a file of his own into *)
(* place, or delete the one that is there.                                 *)
(*                                                                         *)
(* A file's content is a release of the upstream server or one of the      *)
(* model values below.                                                     *)
(***************************************************************************)
EXTENDS Naturals

CONSTANTS
    Releases,    \* what the upstream server may send
    Invalid,     \* releases that validate_downloaded_xdb / validate_list_file reject
    Absent,      \* no file of that name
    Partial,     \* a file not completely written
    Own,         \* a file of the operator
    MaxFaults,   \* bound: file operations and responses that fail
    MaxAborts,   \* bound: stops of the program during a download
    MaxUser,     \* bound: what the operator does
    MaxLeftovers \* bound: temporary files left behind before the last operation

ASSUME FileStoreAssumption ==
    /\ Invalid \subseteq Releases
    /\ {Absent, Partial, Own} \cap Releases = {}
    /\ Absent # Partial /\ Absent # Own /\ Partial # Own
    /\ MaxFaults \in Nat /\ MaxAborts \in Nat /\ MaxUser \in Nat
    /\ MaxLeftovers \in Nat

VARIABLES
    kind,       \* "ip2region" | "security": whose code is running
    remote,     \* what the server would send now
    dest,       \* the content of the destination file
    creator,    \* "worker" | "other": did this download create the destination?
    temp,       \* the content of the temporary file
    pc,         \* the next file operation
    op,         \* "download" | "update"
    leftovers,  \* temporary files that nobody will remove
    faults, aborts, user

vars == <<kind, remote, dest, creator, temp, pc, op, leftovers, faults, aborts, user>>
counters == <<faults, aborts, user>>

Steps == {"idle", "request", "receive", "check", "create", "copy", "undo",
          "compare", "replace", "discard"}
Content == Releases \cup {Absent, Partial, Own}

TypeOK ==
    /\ kind \in {"ip2region", "security"}
    /\ remote \in Releases
    /\ dest \in Content
    /\ creator \in {"worker", "other"}
    /\ temp \in Releases \cup {Absent, Partial}
    /\ pc \in Steps
    /\ op \in {"download", "update"}
    /\ leftovers \in Nat
    /\ faults \in Nat
    /\ aborts \in Nat
    /\ user \in Nat

Init ==
    /\ kind \in {"ip2region", "security"}
    /\ remote \in Releases
    /\ dest \in {Absent, Own}
    /\ creator = "other"
    /\ temp = Absent
    /\ pc = "idle"
    /\ op = "download"
    /\ leftovers = 0
    /\ faults = 0 /\ aborts = 0 /\ user = 0

-----------------------------------------------------------------------------
(* The world around the worker.                                            *)

Upstream(r) ==
    /\ remote' = r
    /\ UNCHANGED <<kind, dest, creator, temp, pc, op, leftovers, counters>>

\* The operator moves a file into place, or deletes the one that is there.
UserPuts(content) ==
    /\ user < MaxUser
    /\ user' = user + 1
    /\ dest' = content
    /\ creator' = "other"
    /\ UNCHANGED <<kind, remote, temp, pc, op, leftovers, faults, aborts>>

\* The worker is at its next operation, and keeps the temporary file or not.
At(step) == pc = step /\ UNCHANGED <<kind, remote, aborts, user>>
Fails == faults < MaxFaults /\ faults' = faults + 1
Works == UNCHANGED faults
KeepDest == UNCHANGED <<dest, creator>>
KeepTemp == UNCHANGED <<temp, leftovers>>
LeaveTemp ==
    /\ temp' = Absent
    /\ leftovers' = IF temp = Absent THEN leftovers ELSE leftovers + 1
Step(next) == pc' = next /\ UNCHANGED op

\* The program is killed, or ctrl-c drops the future that was awaited.
Abort ==
    /\ pc # "idle"
    /\ aborts < MaxAborts
    /\ aborts' = aborts + 1
    /\ LeaveTemp
    /\ creator' = "other"
    /\ Step("idle")
    /\ UNCHANGED <<kind, remote, dest, faults, user>>

-----------------------------------------------------------------------------
(* download_to_temp and the validation, for both operations.               *)

\* download_one returns at once when the file exists; update_one does not ask.
Start(o) ==
    /\ At("idle") /\ Works /\ KeepDest /\ KeepTemp
    /\ leftovers <= MaxLeftovers
    /\ o = "download" => dest = Absent
    /\ op' = o
    /\ pc' = "request"

\* The response is good, and the temporary file is created.
Respond ==
    /\ At("request") /\ Works /\ KeepDest
    /\ temp' = Partial
    /\ UNCHANGED leftovers
    /\ Step("receive")

Receive ==
    /\ At("receive") /\ Works /\ KeepDest
    /\ temp' = remote
    /\ UNCHANGED leftovers
    /\ Step("check")

\* No response, an error status, too many bytes, an I/O error.
DownloadFails ==
    /\ \/ At("request") /\ Step("idle")
       \/ At("receive") /\ Step("discard")
    /\ Fails /\ KeepDest /\ KeepTemp

AfterCheck == IF op = "download" THEN "create" ELSE "compare"

\* Mutant: what is downloaded for an update is not validated.
ValidateDownloads ==
    /\ At("check") /\ KeepDest /\ KeepTemp
    /\ \/ Works /\ Step(IF temp \in Invalid /\ op = "download" THEN "discard" ELSE AfterCheck)
       \/ Fails /\ Step("discard")

\* A temporary file that cannot be read counts as one that is not valid.
Validate ==
    /\ At("check") /\ KeepDest /\ KeepTemp
    /\ \/ Works /\ Step(IF temp \in Invalid THEN "discard" ELSE AfterCheck)
       \/ Fails /\ Step("discard")

\* The temporary file is removed; whether that worked is not looked at, or
\* only reported.
Discard ==
    /\ At("discard") /\ KeepDest
    /\ \/ Works /\ temp' = Absent /\ UNCHANGED leftovers
       \/ Fails /\ LeaveTemp
    /\ Step("idle")

-----------------------------------------------------------------------------
(* publish_download: the end of download_one.                              *)

\* Mutant: the destination is opened with create(true), whatever is there.
CreateAnyway ==
    /\ At("create") /\ Works /\ KeepTemp
    /\ dest' = Partial /\ creator' = "worker"
    /\ Step("copy")

\* create_new: the file that download_one did not find is created empty.
Create ==
    /\ At("create") /\ Works /\ KeepTemp
    /\ dest = Absent
    /\ dest' = Partial /\ creator' = "worker"
    /\ Step("copy")

\* Mutant: neither variant removes the file it does not need.
AlreadyExistsLeaving ==
    /\ At("create") /\ Works /\ KeepDest
    /\ dest # Absent
    /\ LeaveTemp /\ Step("idle")

\* Meanwhile there is a file, which is left alone.  ip2region.rs then removes
\* its temporary file, security.rs does not.
AlreadyExists ==
    /\ At("create") /\ Works /\ KeepDest
    /\ dest # Absent
    /\ \/ kind = "ip2region" /\ KeepTemp /\ Step("discard")
       \/ kind = "security" /\ LeaveTemp /\ Step("idle")

CreateFails ==
    /\ At("create") /\ Fails /\ KeepDest /\ KeepTemp
    /\ Step("discard")

\* The copy is complete and synced; the bytes went into the created file, which
\* the name may no longer refer to.
Copy ==
    /\ At("copy") /\ Works
    /\ dest' = IF creator = "worker" THEN temp ELSE dest
    /\ creator' = "other"
    /\ \/ kind = "ip2region" /\ KeepTemp /\ Step("discard")
       \/ kind = "security" /\ LeaveTemp /\ Step("idle")

\* Mutant: a failed copy is reported, and not undone.
CopyFailsLeaving ==
    /\ At("copy") /\ Fails /\ KeepDest /\ KeepTemp
    /\ Step("discard")

CopyFails ==
    /\ At("copy") /\ Fails /\ KeepDest /\ KeepTemp
    /\ Step("undo")

\* The destination is removed by its name.
Undo ==
    /\ At("undo") /\ KeepTemp
    /\ creator' = "other"
    /\ \/ Works /\ dest' = Absent
       \/ Fails /\ UNCHANGED dest
    /\ Step("discard")

-----------------------------------------------------------------------------
(* The end of update_one.                                                  *)

\* A file equal to the one in place is not needed.
Compare ==
    /\ At("compare") /\ Works /\ KeepDest /\ KeepTemp
    /\ Step(IF dest = temp THEN "discard" ELSE "replace")

\* Mutant: the old file is removed to make room for the new one.
ReplaceInTwo ==
    /\ At("replace") /\ Works
    /\ \/ dest # Absent /\ dest' = Absent /\ creator' = "other" /\ KeepTemp /\ Step("compare")
       \/ /\ dest = Absent
          /\ dest' = temp /\ creator' = "other"
          /\ temp' = Absent /\ UNCHANGED leftovers
          /\ Step("idle")

\* rename
Replace ==
    /\ At("replace") /\ Works
    /\ dest' = temp /\ creator' = "other"
    /\ temp' = Absent /\ UNCHANGED leftovers
    /\ Step("idle")

\* A failing comparison or rename returns without cleaning up.
UpdateFails ==
    /\ \/ At("compare") /\ dest # Absent
       \/ At("replace")
    /\ Fails /\ KeepDest /\ LeaveTemp
    /\ Step("idle")

-----------------------------------------------------------------------------
Next ==
    \/ \E r \in Releases : Upstream(r)
    \/ \E content \in {Absent, Own} : UserPuts(content)
    \/ Abort
    \/ \E o \in {"download", "update"} : Start(o)
    \/ Respond \/ Receive \/ DownloadFails \/ Validate \/ Discard
    \/ Create \/ AlreadyExists \/ CreateFails \/ Copy \/ CopyFails \/ Undo
    \/ Compare \/ Replace \/ UpdateFails

Spec == Init /\ [][Next]_vars

-----------------------------------------------------------------------------
(* Properties.                                                             *)

\* Whatever the program puts into the destination passed the validation, also
\* when the server sends something else at every request.
OnlyValidated == dest \in Releases => dest \notin Invalid

\* A reader finds a half-written file only while a download copies into it;
\* what outlives its download was left by a stop at that point, or by a failed
\* copy whose removal failed, too.  An update never leaves one, however it ends.
WholeOrAbsent ==
    [][dest' = Partial /\ pc' \notin {"copy", "undo"} =>
           \/ dest = Partial /\ pc \notin {"copy", "undo"}
           \/ pc \in {"copy", "undo"} /\ aborts' > aborts
           \/ pc = "undo" /\ faults' > faults]_vars

\* A download fills a missing file: one that the operator put there meanwhile
\* survives, except that a failed copy is undone by the name of the file.
FillsOnlyMissing ==
    [][pc' # pc /\ op = "download" /\ dest = Own => dest' = Own \/ pc = "undo"]_vars

\* There is a file at every moment of an update that began with one, unless the
\* operator removes it: the old content gives way to a whole new one.
ReplacesAtOnce ==
    [][pc' # pc /\ op = "update" /\ dest' # dest => dest' \in Releases]_vars

\* A temporary file is left behind by a stop, by a removal that fails, and by a
\* comparison or renaming that fails; no other failure leaves one.  security.rs
\* also leaves one after every download that got as far as publish_download.
CleansUp ==
    [][leftovers' > leftovers =>
           \/ aborts' > aborts
           \/ pc \in {"discard", "compare", "replace"} /\ faults' > faults
           \/ pc \in {"create", "copy"} /\ faults' = faults /\ kind = "security"]_vars

-----------------------------------------------------------------------------
(* The inductive invariant behind these properties.                        *)

\* The program point tells the operation and what the temporary file holds; a
\* file being written is not yet whole.
WorkerState ==
    /\ pc \in {"idle", "request"} => temp = Absent
    /\ pc \in {"create", "copy", "undo"} => op = "download"
    /\ pc \in {"compare", "replace"} => op = "update"
    /\ pc = "check" => temp \in Releases
    /\ pc \in {"create", "copy", "undo", "compare", "replace"} => temp \in Releases \ Invalid
    /\ creator = "worker" => dest = Partial
    /\ pc \in {"copy", "undo"} /\ dest = Partial => creator = "worker"

IInv == TypeOK /\ WorkerState /\ OnlyValidated
=============================================================================
