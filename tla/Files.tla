-------------------------------- MODULE Files --------------------------------
(***************************************************************************)
(* Uploaded files: file.service.ts keeps the content on disk, under a      *)
(* random name, and a row in the database.  An upload writes the file and  *)
(* then the row, a deletion removes the file and then the row, a download  *)
(* reads the row, looks for the file and opens it later.  Any of them may  *)
(* fail or be cut off between two steps.                                   *)
(***************************************************************************)
CONSTANTS Users,   \* users
          Home,    \* Home[u]: the tenant of user u (never changes)
          Files,   \* random names, in the directory of the uploader's tenant
          Slots,   \* requests in flight at a time
          None     \* no user, no file

ASSUME FilesAssumption ==
    /\ DOMAIN Home = Users
    /\ None \notin Users \cup Files

VARIABLES disk,      \* disk[f]: nothing, a part of it, or the whole file
          row,       \* row[f]: who uploaded f, None: there is no row
          req,       \* the requests
          named,     \* history: the names that have been drawn
          doomed,    \* history: files whose uploader has asked for deletion
          faulty     \* history: a step has failed or been cut off

vars == <<disk, row, req, named, doomed, faulty>>

-----------------------------------------------------------------------------
Contents == {"absent", "partial", "whole"}

Steps == {"idle", "write", "record", "unlink", "erase", "look", "open", "send"}

(* got: what the download found when it opened the file.                   *)
RequestRecords ==
    [pc : Steps, actor : Users \cup {None}, file : Files \cup {None}, got : Contents]

Idle == [pc |-> "idle", actor |-> None, file |-> None, got |-> "absent"]

Begin(s, step, u, f) ==
    /\ req[s].pc = "idle"
    /\ req' = [req EXCEPT ![s] = [Idle EXCEPT !.pc = step, !.actor = u, !.file = f]]

Goto(s, step) == req' = [req EXCEPT ![s].pc = step]

Finish(s) == req' = [req EXCEPT ![s] = Idle]

Init ==
    /\ disk = [f \in Files |-> "absent"]
    /\ row = [f \in Files |-> None]
    /\ req = [s \in Slots |-> Idle]
    /\ named = {} /\ doomed = {} /\ faulty = FALSE

-----------------------------------------------------------------------------
(* uploadFile draws a name and starts to write ...                         *)
UploadOpen(s) ==
    /\ \E u \in Users, f \in Files \ named :
           /\ Begin(s, "write", u, f)
           /\ named' = named \cup {f}
           /\ disk' = [disk EXCEPT ![f] = "partial"]
    /\ UNCHANGED <<row, doomed, faulty>>

(* Mutant of UploadWrite: the row is written while the file still is.      *)
UploadWriteWithRow(s) ==
    /\ req[s].pc = "write"
    /\ \/ disk' = [disk EXCEPT ![req[s].file] = "whole"] /\ Goto(s, "record") /\ UNCHANGED row
       \/ row' = [row EXCEPT ![req[s].file] = req[s].actor] /\ UNCHANGED <<disk, req>>
    /\ UNCHANGED <<named, doomed, faulty>>

UploadWrite(s) ==
    /\ req[s].pc = "write"
    /\ disk' = [disk EXCEPT ![req[s].file] = "whole"]
    /\ Goto(s, "record")
    /\ UNCHANGED <<row, named, doomed, faulty>>

(* ... and creates the row when all of the file is there.                  *)
UploadRecord(s) ==
    /\ req[s].pc = "record"
    /\ row' = [row EXCEPT ![req[s].file] = req[s].actor]
    /\ Finish(s)
    /\ UNCHANGED <<disk, named, doomed, faulty>>

(* deleteFile is for the uploader.                                         *)
DeleteRead(s) ==
    /\ \E u \in Users, f \in Files :
           /\ row[f] = u
           /\ Begin(s, "unlink", u, f)
           /\ doomed' = doomed \cup {f}
    /\ UNCHANGED <<disk, row, named, faulty>>

(* Mutant of DeleteUnlink: the wrong file of the tenant is removed.        *)
DeleteUnlinkOther(s) ==
    /\ req[s].pc = "unlink"
    /\ \E f \in Files :
           /\ row[f] # None /\ Home[row[f]] = Home[req[s].actor]
           /\ disk' = [disk EXCEPT ![f] = "absent"]
    /\ Goto(s, "erase")
    /\ UNCHANGED <<row, named, doomed, faulty>>

(* An error of unlink is taken to mean that the file is not there, and     *)
(* forgotten, whatever it was;                                             *)
DeleteUnlink(s) ==
    /\ req[s].pc = "unlink"
    /\ \/ disk' = [disk EXCEPT ![req[s].file] = "absent"] /\ UNCHANGED faulty
       \/ faulty' = TRUE /\ UNCHANGED disk
    /\ Goto(s, "erase")
    /\ UNCHANGED <<row, named, doomed>>

(* Mutant of DeleteErase: the row stays.                                   *)
DeleteForget(s) ==
    /\ req[s].pc = "erase"
    /\ Finish(s)
    /\ UNCHANGED <<disk, row, named, doomed, faulty>>

(* the row goes last (or has gone already, which is an error).             *)
DeleteErase(s) ==
    /\ req[s].pc = "erase"
    /\ row' = [row EXCEPT ![req[s].file] = None]
    /\ Finish(s)
    /\ UNCHANGED <<disk, named, doomed, faulty>>

(* downloadFile: the row, for any user of the tenant,                      *)
DownloadRead(s) ==
    /\ \E u \in Users, f \in Files :
           /\ row[f] # None /\ Home[row[f]] = Home[u]
           /\ Begin(s, "look", u, f)
    /\ UNCHANGED <<disk, row, named, doomed, faulty>>

(* then existsSync ("File not found on disk" ends the request),            *)
DownloadLook(s) ==
    /\ req[s].pc = "look"
    /\ IF disk[req[s].file] = "absent" THEN Finish(s) ELSE Goto(s, "open")
    /\ UNCHANGED <<disk, row, named, doomed, faulty>>

(* then, after the audit entry, res.download opens the file and sends it;  *)
(* a file that is unlinked while it is open is sent all the same.          *)
DownloadOpen(s) ==
    /\ req[s].pc = "open"
    /\ req' = [req EXCEPT ![s].pc = "send", ![s].got = disk[req[s].file]]
    /\ UNCHANGED <<disk, row, named, doomed, faulty>>

DownloadSend(s) ==
    /\ req[s].pc = "send"
    /\ Finish(s)
    /\ UNCHANGED <<disk, row, named, doomed, faulty>>

(* A step fails and ends its request ...                                   *)
Fail(s) ==
    /\ req[s].pc # "idle"
    /\ Finish(s)
    /\ faulty' = TRUE
    /\ UNCHANGED <<disk, row, named, doomed>>

(* ... or the process ends, and all requests.                              *)
Crash ==
    /\ \E s \in Slots : req[s].pc # "idle"
    /\ req' = [s \in Slots |-> Idle]
    /\ faulty' = TRUE
    /\ UNCHANGED <<disk, row, named, doomed>>

Step(s) ==
    \/ UploadOpen(s) \/ UploadWrite(s) \/ UploadRecord(s)
    \/ DeleteRead(s) \/ DeleteUnlink(s) \/ DeleteErase(s)
    \/ DownloadRead(s) \/ DownloadLook(s) \/ DownloadOpen(s) \/ DownloadSend(s)
    \/ Fail(s)

Next == Crash \/ \E s \in Slots : Step(s)

Spec == Init /\ [][Next]_vars

-----------------------------------------------------------------------------
(* Every variable has its type.                                            *)
TypeOK ==
    /\ disk \in [Files -> Contents]
    /\ row \in [Files -> Users \cup {None}]
    /\ req \in [Slots -> RequestRecords]
    /\ named \subseteq Files /\ doomed \subseteq Files
    /\ faulty \in BOOLEAN

(* Whatever fails or is cut off, a file that is listed and whose uploader  *)
(* has not asked for its deletion is on the disk, whole.                   *)
ListedIsThere ==
    \A f \in Files : (row[f] # None /\ f \notin doomed) => disk[f] = "whole"

(* A download sends the whole file or, if the uploader deletes it between  *)
(* the check and the opening, nothing; never a part of it.                 *)
DownloadsWhole ==
    \A s \in Slots : req[s].pc = "send" =>
        \/ req[s].got = "whole"
        \/ req[s].got = "absent" /\ req[s].file \in doomed

Busy(f) == \E s \in Slots : req[s].pc # "idle" /\ req[s].file = f

(* Disk and table drift apart only through failures: as long as no step    *)
(* has failed, every file no request is busy with is on both or on neither,*)
(* overlapping deletions included.                                         *)
AgreeUnlessFaulty ==
    ~ faulty => \A f \in Files : ~ Busy(f) =>
                    /\ disk[f] \in {"absent", "whole"}
                    /\ disk[f] = "whole" <=> row[f] # None
==============================================================================
