----------------------------- MODULE FilesProofs -----------------------------
(***************************************************************************)
(* Disk and table of the uploaded files, for any number of files, users,   *)
(* tenants and requests, whatever fails or is cut off; then the listings,  *)
(* of files and of everything else, for any number of rows and clients.    *)
(***************************************************************************)
EXTENDS Files, Listings, FiniteSetTheorems, SequenceTheorems, TLAPS

Uploading == {"write", "record"}

Deleting == {"unlink", "erase"}

Downloading == {"look", "open", "send"}

(* What request x may rely on, whatever the others do: an upload has its   *)
(* name to itself, a deletion was asked for and, unless something failed,  *)
(* has removed the file, and a download has seen a whole file, unless a    *)
(* deletion was asked for.                                                 *)
Sane(x) ==
    x.pc # "idle" =>
        /\ x.actor \in Users /\ x.file \in Files /\ x.file \in named
        /\ x.pc \in Uploading => row[x.file] = None /\ x.file \notin doomed
        /\ x.pc = "write" => disk[x.file] = "partial"
        /\ x.pc = "record" => disk[x.file] = "whole"
        /\ x.pc \in Deleting => x.file \in doomed
        /\ x.pc = "erase" => disk[x.file] = "absent" \/ faulty
        /\ x.pc \in Deleting \cup Downloading => disk[x.file] # "partial"
        /\ x.pc \in Downloading => disk[x.file] = "whole" \/ x.file \in doomed
        /\ x.pc = "send" => \/ x.got = "whole"
                            \/ x.got = "absent" /\ x.file \in doomed

AllSane == \A s \in Slots : Sane(req[s])

NamesOnce ==
    \A r, s \in Slots :
        (r # s /\ req[r].pc \in Uploading /\ req[s].pc \in Uploading) =>
            req[r].file # req[s].file

(* A name that was not drawn names nothing; a file that is listed is there *)
(* unless it is doomed, and never half written.                            *)
FilesKept ==
    /\ doomed \subseteq named
    /\ \A f \in Files :
           /\ f \notin named => row[f] = None /\ disk[f] = "absent"
           /\ row[f] # None => disk[f] # "partial"
           /\ row[f] # None => disk[f] = "whole" \/ f \in doomed

(* As long as nothing has failed, whatever is on the disk or in the table  *)
(* only is some request's to finish.                                       *)
Held(f, step) == \E s \in Slots : req[s].pc = step /\ req[s].file = f

InHand ==
    ~ faulty => \A f \in Files :
        /\ disk[f] = "partial" => Held(f, "write")
        /\ (disk[f] = "whole" /\ row[f] = None) => Held(f, "record")
        /\ (disk[f] = "absent" /\ row[f] # None) => Held(f, "erase")

FilesInv == TypeOK /\ AllSane /\ NamesOnce /\ FilesKept /\ InHand

-----------------------------------------------------------------------------
(* What Finish, Goto and Begin do: one request moves.                      *)
Others(s) == \A r \in Slots \ {s} : req'[r] = req[r]

LEMMA FinishEffect ==
    ASSUME TypeOK, NEW s \in Slots, Finish(s)
    PROVE  req' \in [Slots -> RequestRecords] /\ req'[s].pc = "idle" /\ Others(s)
BY DEF Finish, Idle, TypeOK, RequestRecords, Steps, Contents, Others

LEMMA GotoEffect ==
    ASSUME TypeOK, NEW s \in Slots, NEW step \in Steps, Goto(s, step)
    PROVE  /\ req' \in [Slots -> RequestRecords]
           /\ req'[s] = [req[s] EXCEPT !.pc = step]
           /\ Others(s)
BY DEF Goto, TypeOK, RequestRecords, Others

LEMMA BeginEffect ==
    ASSUME TypeOK, NEW s \in Slots, NEW step \in Steps, NEW u \in Users, NEW f \in Files,
           Begin(s, step, u, f)
    PROVE  /\ req' \in [Slots -> RequestRecords]
           /\ req'[s].pc = step /\ req'[s].actor = u /\ req'[s].file = f
           /\ req[s].pc = "idle"
           /\ Others(s)
<1>1. [Idle EXCEPT !.pc = step, !.actor = u, !.file = f] \in RequestRecords
    BY DEF Idle, RequestRecords, Steps, Contents
<1>2. req'[s] = [Idle EXCEPT !.pc = step, !.actor = u, !.file = f]
    BY DEF Begin, TypeOK
<1> QED
    BY <1>1, <1>2 DEF Begin, TypeOK, Idle, Others

(* It is enough to look at the request that moves and at what the others   *)
(* rely on.                                                                *)
LEMMA MoveOne ==
    ASSUME FilesInv, NEW s \in Slots, Others(s),
           \A x \in RequestRecords : x = req'[s] => Sane(x)',
           \A x \in RequestRecords :
               (Sane(x) /\ x.pc \in Uploading /\ req[s].pc \in Uploading =>
                    x.file # req[s].file) => (Sane(x) => Sane(x)'),
           req' \in [Slots -> RequestRecords]
    PROVE  AllSane'
<1> SUFFICES ASSUME NEW r \in Slots, NEW x \in RequestRecords, x = req'[r]
             PROVE  Sane(x)'
    BY DEF AllSane, Sane
<1>1. CASE r = s
    BY <1>1
<1>2. CASE r # s
    <2>1. x = req[r]
        BY <1>2 DEF Others
    <2> QED
        BY <1>2, <2>1 DEF FilesInv, AllSane, NamesOnce
<1> QED
    BY <1>1, <1>2
(* A file is held as before, but for what s held and holds now.            *)
LEMMA HeldStays ==
    ASSUME NEW s \in Slots, Others(s), NEW f, NEW step, Held(f, step),
           req[s].pc # step \/ req[s].file # f
    PROVE  Held(f, step)'
BY DEF Held, Others

LEMMA HeldBy ==
    ASSUME NEW s \in Slots, NEW f, NEW step, req'[s].pc = step, req'[s].file = f
    PROVE  Held(f, step)'
BY DEF Held

(* No new name is given out.                                               *)
LEMMA NamesStay ==
    ASSUME FilesInv, NEW s \in Slots, Others(s),
           req'[s].pc \in Uploading => req[s].pc \in Uploading /\ req'[s].file = req[s].file
    PROVE  NamesOnce'
BY DEF FilesInv, NamesOnce, Others

-----------------------------------------------------------------------------
(* A request that ends or goes on without touching anything disturbs       *)
(* nobody, provided it holds nothing or a failure is recorded.             *)
LEMMA QuietStep ==
    ASSUME FilesInv, NEW s \in Slots, Others(s), req' \in [Slots -> RequestRecords],
           UNCHANGED <<disk, row, named, doomed>>,
           req[s].pc \in Downloading \cup {"idle"} \/ faulty', faulty' \in BOOLEAN, faulty => faulty',
           req'[s].pc \notin Uploading,
           \A x \in RequestRecords : x = req'[s] => Sane(x)
    PROVE  FilesInv'
<1>0. TypeOK /\ FilesKept
    BY DEF FilesInv
<1>1. \A x \in RequestRecords : Sane(x) => Sane(x)'
    BY DEF Sane
<1>2. AllSane'
    BY <1>1, MoveOne
<1>3. NamesOnce'
    BY NamesStay
<1>4. TypeOK' /\ FilesKept'
    BY <1>0 DEF TypeOK, FilesKept
<1>5. InHand'
    <2> SUFFICES ASSUME ~ faulty', NEW f \in Files
                 PROVE  /\ disk[f] = "partial" => Held(f, "write")'
                        /\ (disk[f] = "whole" /\ row[f] = None) => Held(f, "record")'
                        /\ (disk[f] = "absent" /\ row[f] # None) => Held(f, "erase")'
        BY DEF InHand
    <2> QED
        BY HeldStays DEF FilesInv, InHand, Downloading
<1> QED
    BY <1>2, <1>3, <1>4, <1>5 DEF FilesInv

(* An upload draws a name nobody has, and holds it.                        *)
LEMMA UploadOpenStep ==
    ASSUME FilesInv, NEW s \in Slots, UploadOpen(s)
    PROVE  FilesInv'
<1>0. TypeOK /\ FilesKept
    BY DEF FilesInv
<1>1. PICK u \in Users, f \in Files \ named :
         /\ Begin(s, "write", u, f)
         /\ named' = named \cup {f}
         /\ disk' = [disk EXCEPT ![f] = "partial"]
    BY DEF UploadOpen
<1>2. UNCHANGED <<row, doomed, faulty>>
    BY DEF UploadOpen
<1>3. /\ req' \in [Slots -> RequestRecords]
      /\ req'[s].pc = "write" /\ req'[s].actor = u /\ req'[s].file = f
      /\ req[s].pc = "idle" /\ Others(s)
    BY <1>0, <1>1, BeginEffect DEF Steps
<1>4. row[f] = None /\ disk[f] = "absent" /\ f \notin doomed
    BY <1>0, <1>1 DEF FilesKept
<1>5. disk'[f] = "partial" /\ \A g \in Files \ {f} : disk'[g] = disk[g]
    BY <1>0, <1>1 DEF TypeOK
<1>6. \A x \in RequestRecords : Sane(x) => Sane(x)'
    BY <1>1, <1>2, <1>5 DEF Sane
<1>7. \A x \in RequestRecords : x = req'[s] => Sane(x)'
    BY <1>1, <1>2, <1>3, <1>4, <1>5 DEF Sane, Uploading, Deleting, Downloading
<1>8. AllSane'
    BY <1>3, <1>6, <1>7, MoveOne
<1>9. NamesOnce'
    <2>1. \A r \in Slots : req[r].pc \in Uploading => req[r].file \in named
        BY DEF FilesInv, AllSane, Sane, Uploading
    <2> QED
        BY <1>1, <1>3, <2>1 DEF FilesInv, NamesOnce, Others
<1>10. TypeOK' /\ FilesKept'
    BY <1>0, <1>1, <1>2, <1>3, <1>4, <1>5 DEF TypeOK, FilesKept, Contents
<1>11. InHand'
    <2> SUFFICES ASSUME ~ faulty', NEW g \in Files
                 PROVE  /\ disk'[g] = "partial" => Held(g, "write")'
                        /\ (disk'[g] = "whole" /\ row'[g] = None) => Held(g, "record")'
                        /\ (disk'[g] = "absent" /\ row'[g] # None) => Held(g, "erase")'
        BY DEF InHand
    <2>1. CASE g = f
        BY <1>3, <1>5, <2>1, HeldBy
    <2>2. CASE g # f
        BY <1>2, <1>3, <1>5, <2>2, HeldStays DEF FilesInv, InHand
    <2> QED
        BY <2>1, <2>2
<1> QED
    BY <1>8, <1>9, <1>10, <1>11 DEF FilesInv

(* The name of an upload is its own, so nobody else sees the file change.  *)
LEMMA UploadWriteStep ==
    ASSUME FilesInv, NEW s \in Slots, UploadWrite(s)
    PROVE  FilesInv'
<1>0. TypeOK /\ FilesKept /\ Sane(req[s]) /\ req[s].pc = "write"
    BY DEF FilesInv, AllSane, UploadWrite
<1>1. PICK f \in Files : f = req[s].file
    BY <1>0 DEF Sane
<1>2. disk' = [disk EXCEPT ![f] = "whole"] /\ UNCHANGED <<row, named, doomed, faulty>>
    BY <1>1 DEF UploadWrite
<1>3. /\ req' \in [Slots -> RequestRecords]
      /\ req'[s] = [req[s] EXCEPT !.pc = "record"]
      /\ Others(s)
    BY <1>0, GotoEffect DEF UploadWrite, Steps
<1>4. /\ req[s].actor \in Users /\ f \in named /\ row[f] = None /\ f \notin doomed
      /\ disk[f] = "partial"
    BY <1>0, <1>1 DEF Sane, Uploading
<1>5. disk'[f] = "whole" /\ \A g \in Files \ {f} : disk'[g] = disk[g]
    BY <1>0, <1>2 DEF TypeOK
<1>6. \A x \in RequestRecords :
         (Sane(x) /\ (x.pc \in Uploading => x.file # f)) => Sane(x)'
    BY <1>2, <1>4, <1>5 DEF Sane, Uploading, Deleting, Downloading
<1>7. req'[s].pc = "record" /\ req'[s].file = f /\ req'[s].actor = req[s].actor
    BY <1>0, <1>1, <1>3 DEF TypeOK, RequestRecords
<1>8. \A x \in RequestRecords : x = req'[s] => Sane(x)'
    BY <1>2, <1>4, <1>5, <1>7 DEF Sane, Uploading, Deleting, Downloading
<1>9. AllSane'
    BY <1>0, <1>1, <1>3, <1>6, <1>8, MoveOne DEF Uploading
<1>10. NamesOnce'
    BY <1>0, <1>1, <1>3, <1>7, NamesStay DEF Uploading
<1>11. TypeOK' /\ FilesKept'
    BY <1>0, <1>2, <1>3, <1>4, <1>5 DEF TypeOK, FilesKept, Contents
<1>12. InHand'
    <2> SUFFICES ASSUME ~ faulty', NEW g \in Files
                 PROVE  /\ disk'[g] = "partial" => Held(g, "write")'
                        /\ (disk'[g] = "whole" /\ row'[g] = None) => Held(g, "record")'
                        /\ (disk'[g] = "absent" /\ row'[g] # None) => Held(g, "erase")'
        BY DEF InHand
    <2>1. CASE g = f
        BY <1>5, <1>7, <2>1, HeldBy
    <2>2. CASE g # f
        BY <1>1, <1>2, <1>3, <1>5, <2>2, HeldStays DEF FilesInv, InHand
    <2> QED
        BY <2>1, <2>2
<1> QED
    BY <1>9, <1>10, <1>11, <1>12 DEF FilesInv
(* The row is created when the whole file is there.                        *)
LEMMA UploadRecordStep ==
    ASSUME FilesInv, NEW s \in Slots, UploadRecord(s)
    PROVE  FilesInv'
<1>0. TypeOK /\ FilesKept /\ Sane(req[s]) /\ req[s].pc = "record"
    BY DEF FilesInv, AllSane, UploadRecord
<1>1. PICK f \in Files : f = req[s].file
    BY <1>0 DEF Sane
<1>2. row' = [row EXCEPT ![f] = req[s].actor] /\ UNCHANGED <<disk, named, doomed, faulty>>
    BY <1>1 DEF UploadRecord
<1>3. req' \in [Slots -> RequestRecords] /\ req'[s].pc = "idle" /\ Others(s)
    BY <1>0, FinishEffect DEF UploadRecord
<1>4. /\ req[s].actor \in Users /\ f \in named /\ disk[f] = "whole"
    BY <1>0, <1>1 DEF Sane
<1>5. row'[f] = req[s].actor /\ \A g \in Files \ {f} : row'[g] = row[g]
    BY <1>0, <1>2 DEF TypeOK
<1>6. \A x \in RequestRecords :
         (Sane(x) /\ (x.pc \in Uploading => x.file # f)) => Sane(x)'
    BY <1>2, <1>5 DEF Sane
<1>7. AllSane'
    <2>1. \A x \in RequestRecords : x = req'[s] => Sane(x)'
        BY <1>3 DEF Sane
    <2> QED
        BY <1>0, <1>1, <1>3, <1>6, <2>1, MoveOne DEF Uploading
<1>8. NamesOnce'
    BY <1>3, NamesStay DEF Uploading
<1>9. TypeOK' /\ FilesKept'
    BY <1>0, <1>2, <1>3, <1>4, <1>5 DEF TypeOK, FilesKept
<1>10. InHand'
    <2> SUFFICES ASSUME ~ faulty', NEW g \in Files
                 PROVE  /\ disk'[g] = "partial" => Held(g, "write")'
                        /\ (disk'[g] = "whole" /\ row'[g] = None) => Held(g, "record")'
                        /\ (disk'[g] = "absent" /\ row'[g] # None) => Held(g, "erase")'
        BY DEF InHand
    <2>1. CASE g = f
        BY <1>2, <1>4, <1>5, <2>1, FilesAssumption
    <2>2. CASE g # f
        BY <1>1, <1>2, <1>3, <1>5, <2>2, HeldStays DEF FilesInv, InHand
    <2> QED
        BY <2>1, <2>2
<1> QED
    BY <1>7, <1>8, <1>9, <1>10 DEF FilesInv

(* What is listed is asked to go.                                          *)
LEMMA DeleteReadStep ==
    ASSUME FilesInv, NEW s \in Slots, DeleteRead(s)
    PROVE  FilesInv'
<1>0. TypeOK /\ FilesKept
    BY DEF FilesInv
<1>1. PICK u \in Users, f \in Files :
         row[f] = u /\ Begin(s, "unlink", u, f) /\ doomed' = doomed \cup {f}
    BY DEF DeleteRead
<1>2. UNCHANGED <<disk, row, named, faulty>>
    BY DEF DeleteRead
<1>3. /\ req' \in [Slots -> RequestRecords]
      /\ req'[s].pc = "unlink" /\ req'[s].actor = u /\ req'[s].file = f
      /\ req[s].pc = "idle" /\ Others(s)
    BY <1>0, <1>1, BeginEffect DEF Steps
<1>4. row[f] # None /\ f \in named /\ disk[f] # "partial"
    BY <1>0, <1>1, FilesAssumption DEF FilesKept
<1>5. \A x \in RequestRecords : Sane(x) => Sane(x)'
    BY <1>1, <1>2, <1>4 DEF Sane
<1>6. \A x \in RequestRecords : x = req'[s] => Sane(x)'
    BY <1>1, <1>2, <1>3, <1>4 DEF Sane, Uploading, Deleting, Downloading
<1>7. AllSane'
    BY <1>3, <1>5, <1>6, MoveOne
<1>8. NamesOnce'
    BY <1>3, NamesStay DEF Uploading
<1>9. TypeOK' /\ FilesKept'
    BY <1>0, <1>1, <1>2, <1>3, <1>4 DEF TypeOK, FilesKept
<1>10. InHand'
    BY <1>2, <1>3, HeldStays DEF FilesInv, InHand
<1> QED
    BY <1>7, <1>8, <1>9, <1>10 DEF FilesInv

(* Only what is doomed leaves the disk.                                    *)
LEMMA DeleteUnlinkStep ==
    ASSUME FilesInv, NEW s \in Slots, DeleteUnlink(s)
    PROVE  FilesInv'
<1>0. TypeOK /\ FilesKept /\ Sane(req[s]) /\ req[s].pc = "unlink"
    BY DEF FilesInv, AllSane, DeleteUnlink
<1>1. PICK f \in Files : f = req[s].file
    BY <1>0 DEF Sane
<1>2. /\ UNCHANGED <<row, named, doomed>>
      /\ \/ disk' = [disk EXCEPT ![f] = "absent"] /\ UNCHANGED faulty
         \/ faulty' = TRUE /\ UNCHANGED disk
    BY <1>1 DEF DeleteUnlink
<1>3. /\ req' \in [Slots -> RequestRecords]
      /\ req'[s] = [req[s] EXCEPT !.pc = "erase"]
      /\ Others(s)
    BY <1>0, GotoEffect DEF DeleteUnlink, Steps
<1>4. /\ req'[s].pc = "erase" /\ req'[s].file = f /\ req'[s].actor = req[s].actor
      /\ req[s].actor \in Users /\ f \in named /\ f \in doomed /\ disk[f] # "partial"
    BY <1>0, <1>1, <1>3 DEF TypeOK, RequestRecords, Sane, Deleting
<1>5. disk'[f] \in {disk[f], "absent"} /\ (disk'[f] = "absent" \/ faulty')
      /\ \A g \in Files \ {f} : disk'[g] = disk[g]
    BY <1>0, <1>2 DEF TypeOK
<1>6. \A x \in RequestRecords : Sane(x) => Sane(x)'
    BY <1>2, <1>4, <1>5 DEF Sane, Uploading, Deleting, Downloading
<1>7. \A x \in RequestRecords : x = req'[s] => Sane(x)'
    BY <1>2, <1>4, <1>5 DEF Sane, Uploading, Deleting, Downloading
<1>8. AllSane'
    BY <1>3, <1>6, <1>7, MoveOne
<1>9. NamesOnce'
    BY <1>3, <1>4, NamesStay DEF Uploading
<1>10. TypeOK' /\ FilesKept'
    BY <1>0, <1>2, <1>3, <1>4, <1>5 DEF TypeOK, FilesKept, Contents
<1>11. InHand'
    <2> SUFFICES ASSUME ~ faulty', NEW g \in Files
                 PROVE  /\ disk'[g] = "partial" => Held(g, "write")'
                        /\ (disk'[g] = "whole" /\ row'[g] = None) => Held(g, "record")'
                        /\ (disk'[g] = "absent" /\ row'[g] # None) => Held(g, "erase")'
        BY DEF InHand
    <2>0. disk' = [disk EXCEPT ![f] = "absent"] /\ UNCHANGED faulty
        BY <1>2
    <2>1. CASE g = f
        BY <1>0, <1>4, <2>0, <2>1, HeldBy DEF TypeOK
    <2>2. CASE g # f
        BY <1>1, <1>2, <1>3, <1>5, <2>0, <2>2, HeldStays DEF FilesInv, InHand
    <2> QED
        BY <2>1, <2>2
<1> QED
    BY <1>8, <1>9, <1>10, <1>11 DEF FilesInv

(* Erasing the row disturbs no upload: its name is its own.                *)
LEMMA DeleteEraseStep ==
    ASSUME FilesInv, NEW s \in Slots, DeleteErase(s)
    PROVE  FilesInv'
<1>0. TypeOK /\ FilesKept /\ Sane(req[s]) /\ req[s].pc = "erase"
    BY DEF FilesInv, AllSane, DeleteErase
<1>1. PICK f \in Files : f = req[s].file
    BY <1>0 DEF Sane
<1>2. row' = [row EXCEPT ![f] = None] /\ UNCHANGED <<disk, named, doomed, faulty>>
    BY <1>1 DEF DeleteErase
<1>3. req' \in [Slots -> RequestRecords] /\ req'[s].pc = "idle" /\ Others(s)
    BY <1>0, FinishEffect DEF DeleteErase
<1>4. row'[f] = None /\ \A g \in Files \ {f} : row'[g] = row[g]
    BY <1>0, <1>2 DEF TypeOK
<1>5. \A x \in RequestRecords : Sane(x) => Sane(x)'
    BY <1>2, <1>4 DEF Sane
<1>6. \A x \in RequestRecords : x = req'[s] => Sane(x)'
    BY <1>3 DEF Sane
<1>7. AllSane'
    BY <1>3, <1>5, <1>6, MoveOne
<1>8. NamesOnce'
    BY <1>3, NamesStay DEF Uploading
<1>9. TypeOK' /\ FilesKept'
    BY <1>0, <1>2, <1>3, <1>4 DEF TypeOK, FilesKept
<1>10. InHand'
    <2> SUFFICES ASSUME ~ faulty', NEW g \in Files
                 PROVE  /\ disk'[g] = "partial" => Held(g, "write")'
                        /\ (disk'[g] = "whole" /\ row'[g] = None) => Held(g, "record")'
                        /\ (disk'[g] = "absent" /\ row'[g] # None) => Held(g, "erase")'
        BY DEF InHand
    <2>1. CASE g = f
        <3>1. disk[f] = "absent"
            BY <1>0, <1>1, <1>2 DEF Sane
        <3> QED
            BY <1>2, <1>4, <2>1, <3>1
    <2>2. CASE g # f
        BY <1>1, <1>2, <1>3, <1>4, <2>2, HeldStays DEF FilesInv, InHand
    <2> QED
        BY <2>1, <2>2
<1> QED
    BY <1>7, <1>8, <1>9, <1>10 DEF FilesInv

(* A download sees whole files, but for those that are doomed.             *)
LEMMA DownloadStep ==
    ASSUME FilesInv, NEW s \in Slots,
           DownloadRead(s) \/ DownloadLook(s) \/ DownloadOpen(s) \/ DownloadSend(s)
    PROVE  FilesInv'
<1>0. TypeOK /\ FilesKept /\ Sane(req[s])
    BY DEF FilesInv, AllSane
<1>1. UNCHANGED <<disk, row, named, doomed, faulty>> /\ faulty \in BOOLEAN
    BY <1>0 DEF TypeOK, DownloadRead, DownloadLook, DownloadOpen, DownloadSend
<1>2. CASE DownloadRead(s)
    <2>1. PICK u \in Users, f \in Files : row[f] # None /\ Begin(s, "look", u, f)
        BY <1>2 DEF DownloadRead
    <2>2. /\ req' \in [Slots -> RequestRecords]
          /\ req'[s].pc = "look" /\ req'[s].actor = u /\ req'[s].file = f
          /\ req[s].pc = "idle" /\ Others(s)
        BY <1>0, <2>1, BeginEffect DEF Steps
    <2>3. \A x \in RequestRecords : x = req'[s] => Sane(x)
        BY <1>0, <2>1, <2>2 DEF FilesKept, Sane, Uploading, Deleting, Downloading
    <2> QED
        BY <1>1, <2>2, <2>3, QuietStep DEF Uploading
<1>3. CASE DownloadLook(s)
    <2>0. req[s].pc = "look"
        BY <1>3 DEF DownloadLook
    <2>1. CASE Finish(s)
        <3>1. \A x \in RequestRecords : x = req'[s] => Sane(x)
            BY <1>0, <2>1, FinishEffect DEF Sane
        <3> QED
            BY <1>0, <1>1, <2>0, <2>1, <3>1, FinishEffect, QuietStep
               DEF Uploading, Downloading
    <2>2. CASE Goto(s, "open")
        <3>1. /\ req' \in [Slots -> RequestRecords]
              /\ req'[s] = [req[s] EXCEPT !.pc = "open"]
              /\ Others(s)
            BY <1>0, <2>2, GotoEffect DEF Steps
        <3>2. req'[s].pc = "open" /\ \A x \in RequestRecords : x = req'[s] => Sane(x)
            BY <1>0, <2>0, <3>1
               DEF TypeOK, RequestRecords, Sane, Uploading, Deleting, Downloading
        <3> QED
            BY <1>1, <2>0, <3>1, <3>2, QuietStep DEF Uploading, Downloading
    <2> QED
        BY <1>3, <2>1, <2>2 DEF DownloadLook
<1>4. CASE DownloadOpen(s)
    <2>1. /\ req[s].pc = "open"
          /\ req' = [req EXCEPT ![s].pc = "send", ![s].got = disk[req[s].file]]
        BY <1>4 DEF DownloadOpen
    <2>2. PICK f \in Files : f = req[s].file
        BY <1>0, <2>1 DEF Sane
    <2>3. disk[f] \in Contents
        BY <1>0 DEF TypeOK
    <2>4. /\ req'[s] = [req[s] EXCEPT !.pc = "send", !.got = disk[f]]
          /\ req' \in [Slots -> RequestRecords] /\ Others(s)
        <3>1. req[s] \in RequestRecords /\ req \in [Slots -> RequestRecords]
            BY <1>0 DEF TypeOK
        <3>2. [req[s] EXCEPT !.pc = "send", !.got = disk[f]] \in RequestRecords
            BY <2>3, <3>1 DEF RequestRecords, Steps
        <3>3. req' = [req EXCEPT ![s] = [req[s] EXCEPT !.pc = "send", !.got = disk[f]]]
            BY <2>1, <2>2, <3>1 DEF RequestRecords
        <3> QED
            BY <3>1, <3>2, <3>3 DEF Others
    <2>5. req'[s].pc = "send" /\ \A x \in RequestRecords : x = req'[s] => Sane(x)
        <3>1. /\ req'[s].pc = "send" /\ req'[s].got = disk[f]
              /\ req'[s].actor = req[s].actor /\ req'[s].file = f
            BY <1>0, <2>2, <2>4 DEF TypeOK, RequestRecords
        <3>2. disk[f] = "whole" \/ (disk[f] = "absent" /\ f \in doomed)
            BY <1>0, <2>1, <2>2, <2>3 DEF Sane, Downloading, Contents
        <3> QED
            BY <1>0, <2>1, <2>2, <3>1, <3>2 DEF Sane, Uploading, Deleting, Downloading
    <2> QED
        BY <1>1, <2>1, <2>4, <2>5, QuietStep DEF Uploading, Downloading
<1>5. CASE DownloadSend(s)
    <2>1. req[s].pc = "send" /\ Finish(s)
        BY <1>5 DEF DownloadSend
    <2>2. \A x \in RequestRecords : x = req'[s] => Sane(x)
        BY <1>0, <2>1, FinishEffect DEF Sane
    <2> QED
        BY <1>0, <1>1, <2>1, <2>2, FinishEffect, QuietStep DEF Uploading, Downloading
<1> QED
    BY <1>2, <1>3, <1>4, <1>5

(* A failure ends one request, and the death of the process all of them.   *)
LEMMA FaultStep ==
    ASSUME FilesInv, Crash \/ \E s \in Slots : Fail(s)
    PROVE  FilesInv'
<1>0. TypeOK
    BY DEF FilesInv
<1>1. CASE Crash
    <2>1. req' = [s \in Slots |-> Idle] /\ faulty' = TRUE
          /\ UNCHANGED <<disk, row, named, doomed>>
        BY <1>1 DEF Crash
    <2>2. Idle \in RequestRecords /\ Idle.pc = "idle"
        BY DEF Idle, RequestRecords, Steps, Contents
    <2>3. TypeOK'
        BY <1>0, <2>1, <2>2 DEF TypeOK
    <2>4. AllSane' /\ NamesOnce' /\ InHand'
        BY <2>1, <2>2 DEF AllSane, Sane, NamesOnce, Uploading, InHand
    <2>5. FilesKept'
        BY <2>1 DEF FilesInv, FilesKept
    <2> QED
        BY <2>3, <2>4, <2>5 DEF FilesInv
<1>2. ASSUME NEW s \in Slots, Fail(s) PROVE FilesInv'
    <2>1. Finish(s) /\ faulty' = TRUE /\ UNCHANGED <<disk, row, named, doomed>>
        BY <1>2 DEF Fail
    <2>2. \A x \in RequestRecords : x = req'[s] => Sane(x)
        BY <1>0, <2>1, FinishEffect DEF Sane
    <2> QED
        BY <1>0, <2>1, <2>2, FinishEffect, QuietStep DEF Uploading
<1> QED
    BY <1>1, <1>2

-----------------------------------------------------------------------------
(* Initially there is nothing, and every step keeps the invariant.         *)
LEMMA FilesInvariant == Spec => []FilesInv
<1>1. Init => FilesInv
    <2> SUFFICES ASSUME Init PROVE FilesInv
        OBVIOUS
    <2>1. Idle \in RequestRecords /\ \A s \in Slots : req[s].pc = "idle"
        BY DEF Init, Idle, RequestRecords, Steps, Contents
    <2>2. TypeOK
        BY <2>1 DEF Init, TypeOK, Contents
    <2>3. AllSane
        BY <2>1 DEF AllSane, Sane, Uploading, Deleting, Downloading
    <2>4. NamesOnce
        BY <2>1 DEF NamesOnce, Uploading
    <2>5. FilesKept
        BY DEF Init, FilesKept
    <2>6. InHand
        BY DEF Init, InHand
    <2> QED
        BY <2>2, <2>3, <2>4, <2>5, <2>6 DEF FilesInv
<1>2. FilesInv /\ [Next]_vars => FilesInv'
    <2> SUFFICES ASSUME FilesInv, [Next]_vars PROVE FilesInv'
        OBVIOUS
    <2>1. CASE UNCHANGED vars
        BY <2>1 DEF vars, FilesInv, TypeOK, AllSane, Sane, NamesOnce, FilesKept, InHand, Held
    <2>2. CASE Crash
        BY <2>2, FaultStep
    <2>3. ASSUME NEW s \in Slots, Step(s) PROVE FilesInv'
        BY <2>3, UploadOpenStep, UploadWriteStep, UploadRecordStep, DeleteReadStep,
           DeleteUnlinkStep, DeleteEraseStep, DownloadStep, FaultStep DEF Step
    <2> QED
        BY <2>1, <2>2, <2>3 DEF Next
<1> QED
    BY <1>1, <1>2, PTL DEF Spec

(* The variables of Files keep their types.                                *)
THEOREM TypeCorrect == Spec => []TypeOK
<1>1. FilesInv => TypeOK
    BY DEF FilesInv
<1> QED
    BY <1>1, FilesInvariant, PTL

(* Whatever fails or is cut off, a file that is listed and not doomed is   *)
(* on the disk.                                                            *)
THEOREM ListedThere == Spec => []ListedIsThere
<1>1. FilesInv => ListedIsThere
    BY DEF FilesInv, FilesKept, ListedIsThere
<1> QED
    BY <1>1, FilesInvariant, PTL

(* No download sends a part of a file.                                     *)
THEOREM WholeDownloads == Spec => []DownloadsWhole
<1>1. FilesInv => DownloadsWhole
    BY DEF FilesInv, AllSane, Sane, DownloadsWhole
<1> QED
    BY <1>1, FilesInvariant, PTL

(* Without failures, disk and table agree on every file nobody works on.   *)
THEOREM NoDrift == Spec => []AgreeUnlessFaulty
<1>1. FilesInv => AgreeUnlessFaulty
    BY DEF FilesInv, InHand, FilesKept, Held, Busy, AgreeUnlessFaulty, TypeOK, Contents
<1> QED
    BY <1>1, FilesInvariant, PTL
-----------------------------------------------------------------------------
(* The listings.  Paging keeps its promise where the order of the rows is  *)
(* the same in every query: where rows are paged by a key, and where no    *)
(* two of them were created in the same millisecond.                       *)
Orderly == table \in ByKey \/ ~Ties

Descending(s) == \A m, n \in 1..Len(s) : m < n => Before(s[m], s[n])

ListingsTypeOK ==
    /\ table \in Tables
    /\ item \in [Ids -> [state : {"none", "stamped", "listed", "gone"}, at : Nat]]
    /\ now \in Nat
    /\ reader \in [Readers -> ReaderStates]

(* What is true of a client: it was shown rows that were listed; while it  *)
(* has a cursor, that is the last row it was shown; a negative limit shows *)
(* nothing; and if the order is the same in every query, it was shown the  *)
(* rows in that order and is still to come to every row it is owed.        *)
Paging(r) ==
    /\ \A n \in 1..Len(r.shown) : item[r.shown[n]].state # "none"
    /\ r.owed \subseteq Listed
    /\ r.pc # "idle" => r.limit \in Limits
    /\ r.pc = "stuck" => r.limit < 0 /\ r.shown = <<>>
    /\ r.pc = "reading" /\ r.limit < 0 => r.shown = <<>>
    /\ r.pc = "reading" /\ r.cursor = NoCursor => r.shown = <<>>
    /\ r.cursor # NoCursor => /\ r.pc = "reading" /\ r.shown # <<>>
                              /\ r.cursor = Last(r.shown)
                              /\ r.lost \/ r.cursor \in Listed
    /\ Orderly => Descending(r.shown)
    /\ Orderly /\ r.pc = "reading" =>
           \A i \in r.owed : \/ i \in ToSet(r.shown)
                             \/ r.cursor = NoCursor \/ Before(r.cursor, i)

ListingsInv == ListingsTypeOK /\ \A u \in Readers : Paging(reader[u])

-----------------------------------------------------------------------------
(* A sequence of SetToSeqs has every element of the set once.              *)
LEMMA EveryElementOnce ==
    ASSUME NEW S, IsFiniteSet(S), NEW s \in SetToSeqs(S)
    PROVE  /\ s \in Seq(S)
           /\ \A m, n \in 1..Len(s) : m # n => s[m] # s[n]
           /\ \A x \in S : \E n \in 1..Len(s) : s[n] = x
<1> DEFINE D == 1..Cardinality(S)
<1>1. Cardinality(S) \in Nat
    BY FS_CardinalityType
<1>2. s \in [D -> S] /\ \A i, j \in D : i # j => s[i] # s[j]
    BY DEF SetToSeqs
<1>3. s \in Seq(S) /\ Len(s) = Cardinality(S)
    BY <1>1, <1>2
<1>4. Cardinality(D) = Cardinality(S)
    BY <1>1, FS_Interval
<1>5. s \in Injection(D, S)
    BY <1>2 DEF Injection, IsInjective
<1>6. s \in Surjection(D, S)
    BY <1>4, <1>5, FS_Injection
<1>7. \A x \in S : \E n \in D : s[n] = x
    BY <1>6 DEF Surjection
<1> QED
    BY <1>2, <1>3, <1>7

(* A page of a limit above zero is the first rows, and says whether there  *)
(* are more; a page of a negative limit is empty and says that there are.  *)
LEMMA PageOfRows ==
    ASSUME NEW S, NEW s \in Seq(S), NEW limit \in Int \ {0}
    PROVE  LET entries == Take(s, limit + 1)
               more == HasMore(entries, limit)
               data == IF more THEN Slice(entries, limit) ELSE entries
               shown == IF limit < 0 THEN 0
                        ELSE IF Len(s) > limit THEN limit ELSE Len(s)
           IN  /\ more <=> limit < 0 \/ Len(s) > limit
               /\ data \in Seq(S) /\ Len(data) = shown
               /\ \A n \in 1..shown : data[n] = s[n]
<1> DEFINE entries == Take(s, limit + 1)
           more == HasMore(entries, limit)
           data == IF more THEN Slice(entries, limit) ELSE entries
           shown == IF limit < 0 THEN 0 ELSE IF Len(s) > limit THEN limit ELSE Len(s)
<1>1. Len(s) \in Nat /\ \A n \in 1..Len(s) : s[n] \in S
    OBVIOUS
<1>2. ASSUME limit > 0
      PROVE  /\ more <=> Len(s) > limit
             /\ data \in Seq(S) /\ Len(data) = shown
             /\ \A n \in 1..shown : data[n] = s[n]
    <2> DEFINE k == IF limit + 1 < Len(s) THEN limit + 1 ELSE Len(s)
    <2>1. k \in Nat /\ k <= Len(s)
        BY <1>1, <1>2
    <2>2. entries = SubSeq(s, 1, k)
        <3>1. limit + 1 >= 0
            BY <1>2
        <3> QED
            BY <3>1, Zenon DEF Take
    <2>3. entries \in Seq(S) /\ Len(entries) = k /\ \A n \in 1..k : entries[n] = s[n]
        <3> HIDE DEF k
        <3>1. \A n \in 1..k : s[n] \in S
            BY <1>1, <2>1
        <3>2. /\ SubSeq(s, 1, k) \in Seq(S)
              /\ Len(SubSeq(s, 1, k)) = IF 1 <= k THEN k - 1 + 1 ELSE 0
              /\ \A n \in 1..k - 1 + 1 : SubSeq(s, 1, k)[n] = s[1 + n - 1]
            BY <2>1, <3>1, SubSeqProperties
        <3> QED
            BY <2>1, <2>2, <3>2
    <2>4. more <=> k > limit
        BY <2>3 DEF HasMore
    <2> HIDE DEF entries
    <2>5. CASE more
        <3>1. Len(s) > limit /\ k = limit + 1
            BY <1>1, <1>2, <2>4, <2>5
        <3>2. Slice(entries, limit) = SubSeq(entries, 1, limit)
            BY <1>2, <2>3, <3>1 DEF Slice
        <3>3. \A n \in 1..limit : entries[n] \in S
            BY <1>1, <2>3, <3>1
        <3>4. /\ SubSeq(entries, 1, limit) \in Seq(S)
              /\ Len(SubSeq(entries, 1, limit)) = IF 1 <= limit THEN limit - 1 + 1 ELSE 0
              /\ \A n \in 1..limit - 1 + 1 : SubSeq(entries, 1, limit)[n] = entries[1 + n - 1]
            BY <3>3, SubSeqProperties
        <3>5. data = SubSeq(entries, 1, limit) /\ shown = limit
            BY <1>2, <2>5, <3>1, <3>2
        <3> HIDE DEF data, shown, k
        <3>6. data \in Seq(S) /\ Len(data) = shown
            BY <1>2, <3>4, <3>5
        <3>7. \A n \in 1..shown : data[n] = s[n]
            BY <1>2, <2>3, <3>1, <3>4, <3>5
        <3> QED
            BY <2>5, <3>1, <3>6, <3>7
    <2>6. CASE ~more
        <3>1. Len(s) <= limit /\ k = Len(s) /\ data = entries /\ shown = Len(s)
            BY <1>1, <1>2, <2>4, <2>6
        <3> QED
            BY <1>1, <2>3, <2>6, <3>1
    <2> QED
        BY <2>5, <2>6
<1>3. ASSUME limit < 0
      PROVE  more /\ data \in Seq(S) /\ Len(data) = 0 /\ shown = 0
    <2>1. /\ entries \in Seq(S)
          /\ Len(entries) <= 0 - (limit + 1)
        <3>1. CASE limit + 1 = 0
            <4>1. Take(s, limit + 1) = SubSeq(s, 1, 0)
                <5>1. limit + 1 >= 0
                    BY <3>1
                <5>2. (IF limit + 1 < Len(s) THEN limit + 1 ELSE Len(s)) = 0
                    BY <1>1, <3>1
                <5> QED
                    BY <5>1, <5>2, Zenon DEF Take
            <4>2. SubSeq(s, 1, 0) = <<>>
                BY SubSeqEmpty
            <4> QED
                BY <3>1, <4>1, <4>2, EmptySeq
        <3>2. CASE limit + 1 < 0
            <4> DEFINE k == IF Len(s) + (limit + 1) < 0 THEN 1 ELSE Len(s) + (limit + 1) + 1
            <4>1. k \in Nat \ {0} /\ Len(s) - k + 1 <= 0 - (limit + 1)
                <5>1. limit \in Int /\ Len(s) \in Nat
                    BY <1>1
                <5>2. CASE Len(s) + (limit + 1) < 0
                    BY <5>1, <5>2
                <5>3. CASE ~(Len(s) + (limit + 1) < 0)
                    BY <5>1, <5>3
                <5> QED
                    BY <5>2, <5>3
            <4>2. entries = SubSeq(s, k, Len(s))
                <5>1. ~(limit + 1 >= 0)
                    BY <3>2
                <5> QED
                    BY <5>1, Zenon DEF Take
            <4> HIDE DEF k
            <4>3. \A n \in k..Len(s) : s[n] \in S
                BY <1>1, <4>1
            <4>4. /\ SubSeq(s, k, Len(s)) \in Seq(S)
                  /\ Len(SubSeq(s, k, Len(s))) = IF k <= Len(s) THEN Len(s) - k + 1 ELSE 0
                BY <1>1, <4>1, <4>3, SubSeqProperties
            <4>5. Len(SubSeq(s, k, Len(s))) <= 0 - (limit + 1)
                BY <1>1, <3>2, <4>1, <4>4
            <4> QED
                BY <4>2, <4>4, <4>5, Zenon
        <3> QED
            BY <1>3, <3>1, <3>2
    <2>2. more
        BY <1>3, <2>1 DEF HasMore
    <2>3. Slice(entries, limit) = SubSeq(entries, 1, Len(entries) + limit)
        BY <1>3 DEF Slice
    <2> HIDE DEF entries
    <2>4. SubSeq(entries, 1, Len(entries) + limit) = <<>>
        BY <1>3, <2>1, SubSeqEmpty
    <2> QED
        BY <1>3, <2>2, <2>3, <2>4
<1> QED
    BY <1>2, <1>3

(* A query of the rows after cursor c answers with s: listed rows, and if  *)
(* the order is the same in every query, those after c, in that order, all *)
(* of them; but none if the row of the cursor is needed and has gone.      *)
Answers(c, s) ==
    /\ s \in Seq(Listed)
    /\ table \in ByKey \/ c \in Listed \cup {NoCursor} \/ s = <<>>
    /\ Orderly => Descending(s) /\ \A n \in 1..Len(s) : s[n] \in AfterKey(c)
    /\ Orderly /\ (table \in ByKey \/ c \in Listed \cup {NoCursor}) =>
           \A i \in AfterKey(c) : \E n \in 1..Len(s) : s[n] = i

LEMMA ListedFinite == IsFiniteSet(Listed) /\ \A c : IsFiniteSet(AfterKey(c))
<1>1. IsFiniteSet(Ids) /\ Listed \in SUBSET Ids /\ \A c : AfterKey(c) \in SUBSET Ids
    BY ListingsAssumption DEF Listed, AfterKey
<1> QED
    BY <1>1, FS_Subset

(* The query of queryAuditLogs and listProjects.                           *)
LEMMA KeyAnswers ==
    ASSUME table \in ByKey, NEW c, NEW s \in ByKeyOrders(AfterKey(c))
    PROVE  Answers(c, s)
<1>1. s \in SetToSeqs(AfterKey(c)) /\ Descending(s)
    BY DEF ByKeyOrders, Descending
<1>2. /\ s \in Seq(AfterKey(c))
      /\ \A i \in AfterKey(c) : \E n \in 1..Len(s) : s[n] = i
    BY <1>1, ListedFinite, EveryElementOnce
<1>3. \A n \in 1..Len(s) : s[n] \in AfterKey(c)
    BY <1>2
<1>4. AfterKey(c) \subseteq Listed
    BY DEF AfterKey
<1>5. s \in Seq(Listed)
    BY <1>2, <1>4, SeqMonotonic
<1> QED
    BY <1>1, <1>2, <1>3, <1>5 DEF Answers

(* Without ties the order of createdAt is the order of the key.            *)
LEMMA OneOrder ==
    ASSUME ListingsTypeOK, ~Ties, NEW s \in Orders(Listed)
    PROVE  Descending(s)
<1>1. /\ s \in Seq(Listed)
      /\ \A m, n \in 1..Len(s) : m # n => s[m] # s[n]
    BY ListedFinite, EveryElementOnce DEF Orders
<1>2. \A n \in 1..Len(s) : s[n] \in Ids /\ item[s[n]].state = "listed"
    BY <1>1 DEF Listed
<1>3. \A i, j \in Ids : item[i].state = "listed" /\ item[j].state = "listed" /\ i # j
                            => item[i].at # item[j].at
    BY DEF Ties
<1>4. ASSUME NEW m \in 1..Len(s), NEW n \in 1..Len(s), m < n
      PROVE  Before(s[m], s[n])
    <2>1. s[m] # s[n]
        BY <1>1, <1>4
    <2>2. item[s[m]].at # item[s[n]].at
        BY <1>2, <1>3, <2>1
    <2>3. item[s[m]].at >= item[s[n]].at
        BY <1>4 DEF Orders
    <2>4. item[s[m]].at \in Nat /\ item[s[n]].at \in Nat
        BY <1>2 DEF ListingsTypeOK
    <2> QED
        BY <2>2, <2>3, <2>4 DEF Before
<1> QED
    BY <1>4 DEF Descending

(* The query of listWorkspaces, listTasks and listFiles.                   *)
LEMMA RowAnswers ==
    ASSUME ListingsTypeOK, table \notin ByKey,
           NEW c \in Ids \cup {NoCursor}, NEW s \in Orders(Listed)
    PROVE  Answers(c, SkipTo(s, c))
<1> DEFINE places == {n \in 1..Len(s) : s[n] = c}
<1>1. /\ s \in Seq(Listed) /\ Len(s) \in Nat
      /\ \A i \in Listed : \E n \in 1..Len(s) : s[n] = i
    BY ListedFinite, EveryElementOnce DEF Orders
<1>2. \A n \in 1..Len(s) : s[n] \in Listed
    BY <1>1
<1>3. Orderly => Descending(s)
    BY OneOrder DEF Orderly
<1>4. CASE c = NoCursor
    <2>1. SkipTo(s, c) = s /\ AfterKey(c) = Listed
        BY <1>4 DEF SkipTo, AfterKey
    <2> QED
        BY <1>1, <1>2, <1>3, <1>4, <2>1 DEF Answers
<1>5. CASE c # NoCursor /\ places = {}
    <2>1. SkipTo(s, c) = <<>>
        BY <1>5 DEF SkipTo
    <2>2. c \notin Listed
        BY <1>1, <1>5
    <2>3. <<>> \in Seq(Listed) /\ Len(<<>>) = 0 /\ Descending(<<>>)
        BY EmptySeq DEF Descending
    <2> QED
        BY <1>5, <2>1, <2>2, <2>3 DEF Answers
<1>6. CASE c # NoCursor /\ places # {}
    <2> DEFINE p == CHOOSE n \in places : TRUE
               t == SubSeq(s, 1 + p, Len(s))
    <2>1. p \in 1..Len(s) /\ s[p] = c
        BY <1>6
    <2>2. SkipTo(s, c) = t
        BY <1>6 DEF SkipTo
    <2> HIDE DEF p
    <2>3. p \in Nat /\ 1 + p \in Int /\ p <= Len(s) /\ \A n \in 1 + p..Len(s) : s[n] \in Listed
        BY <1>1, <1>2, <2>1
    <2>4. /\ t \in Seq(Listed)
          /\ Len(t) = IF 1 + p <= Len(s) THEN Len(s) - (1 + p) + 1 ELSE 0
          /\ \A n \in 1..Len(s) - (1 + p) + 1 : t[n] = s[1 + p + n - 1]
        BY <1>1, <2>3, SubSeqProperties
    <2> HIDE DEF t
    <2>5. Len(t) = Len(s) - p /\ \A n \in 1..Len(t) : t[n] = s[p + n] /\ p + n \in 1..Len(s)
        BY <1>1, <2>1, <2>3, <2>4
    <2>6. ASSUME Orderly
          PROVE  /\ Descending(t)
                 /\ \A n \in 1..Len(t) : t[n] \in AfterKey(c)
                 /\ \A i \in AfterKey(c) : \E n \in 1..Len(t) : t[n] = i
        <3>1. Descending(s)
            BY <1>3, <2>6
        <3>2. Descending(t)
            <4>1. SUFFICES ASSUME NEW m \in 1..Len(t), NEW n \in 1..Len(t), m < n
                           PROVE  Before(t[m], t[n])
                BY DEF Descending
            <4>2. t[m] = s[p + m] /\ t[n] = s[p + n] /\ p + m \in 1..Len(s) /\ p + n \in 1..Len(s)
                BY <2>5
            <4>3. p + m < p + n
                BY <2>3, <4>1
            <4> QED
                BY <3>1, <4>2, <4>3 DEF Descending
        <3>3. ASSUME NEW n \in 1..Len(t)
              PROVE  t[n] \in AfterKey(c)
            <4>1. t[n] = s[p + n] /\ p + n \in 1..Len(s) /\ p < p + n
                BY <2>3, <2>5
            <4>2. Before(c, t[n])
                BY <2>1, <3>1, <4>1 DEF Descending
            <4> QED
                BY <1>2, <4>1, <4>2 DEF AfterKey
        <3>4. ASSUME NEW i \in AfterKey(c)
              PROVE  \E n \in 1..Len(t) : t[n] = i
            <4>1. i \in Listed /\ Before(c, i)
                BY <1>6 DEF AfterKey
            <4>2. PICK k \in 1..Len(s) : s[k] = i
                BY <1>1, <4>1
            <4>3. c \in Ids /\ i \in Ids /\ item[c].at \in Nat /\ item[i].at \in Nat /\ c \in Nat /\ i \in Nat
                BY <1>6, <4>1, ListingsAssumption DEF ListingsTypeOK, Listed
            <4>4. ~Before(i, c) /\ i # c
                BY <4>1, <4>3 DEF Before
            <4>5. k > p
                <5>1. ~(k < p)
                    BY <2>1, <3>1, <4>2, <4>4 DEF Descending
                <5>2. k # p
                    BY <2>1, <4>2, <4>4
                <5> QED
                    BY <2>3, <5>1, <5>2
            <4>6. k - p \in 1..Len(t) /\ p + (k - p) = k
                BY <1>1, <2>3, <2>5, <4>5
            <4>7. t[k - p] = s[k]
                BY <2>5, <4>6
            <4> QED
                BY <4>2, <4>6, <4>7
        <3> QED
            BY <3>2, <3>3, <3>4
    <2>7. c \in Listed
        BY <1>2, <2>1
    <2> QED
        BY <2>2, <2>4, <2>6, <2>7 DEF Answers
<1> QED
    BY <1>4, <1>5, <1>6

LEMMA BeforeTransitive ==
    ASSUME ListingsTypeOK, NEW i \in Ids, NEW j \in Ids, NEW k \in Ids,
           Before(i, j), Before(j, k)
    PROVE  Before(i, k)
<1>1. i \in Nat /\ j \in Nat /\ k \in Nat
    BY ListingsAssumption
<1>2. item[i].at \in Nat /\ item[j].at \in Nat /\ item[k].at \in Nat
    BY DEF ListingsTypeOK
<1> QED
    BY <1>1, <1>2 DEF Before

(* A page that comes after the last row shown keeps the order.             *)
LEMMA PageAfterPage ==
    ASSUME ListingsTypeOK, NEW a \in Seq(Ids), NEW b \in Seq(Ids),
           Descending(a), Descending(b),
           a = <<>> \/ \A n \in 1..Len(b) : Before(Last(a), b[n])
    PROVE  Descending(a \o b)
<1>1. SUFFICES ASSUME NEW m \in 1..Len(a \o b), NEW n \in 1..Len(a \o b), m < n
               PROVE  Before((a \o b)[m], (a \o b)[n])
    BY DEF Descending
<1>2. /\ Len(a) \in Nat /\ Len(b) \in Nat
      /\ Len(a \o b) = Len(a) + Len(b)
      /\ \A k \in 1..Len(a) + Len(b) :
             (a \o b)[k] = IF k <= Len(a) THEN a[k] ELSE b[k - Len(a)]
    BY ConcatProperties
<1>3. CASE n <= Len(a)
    <2>1. (a \o b)[m] = a[m] /\ (a \o b)[n] = a[n] /\ m \in 1..Len(a) /\ n \in 1..Len(a)
        BY <1>1, <1>2, <1>3
    <2> QED
        BY <1>1, <2>1 DEF Descending
<1>4. CASE m > Len(a)
    <2>1. /\ (a \o b)[m] = b[m - Len(a)] /\ (a \o b)[n] = b[n - Len(a)]
          /\ m - Len(a) \in 1..Len(b) /\ n - Len(a) \in 1..Len(b) /\ m - Len(a) < n - Len(a)
        BY <1>1, <1>2, <1>4
    <2> QED
        BY <2>1 DEF Descending
<1>5. CASE m <= Len(a) /\ n > Len(a)
    <2>1. /\ (a \o b)[m] = a[m] /\ (a \o b)[n] = b[n - Len(a)]
          /\ m \in 1..Len(a) /\ n - Len(a) \in 1..Len(b) /\ Len(a) \in 1..Len(a)
        BY <1>2, <1>5
    <2>2. Before(a[Len(a)], b[n - Len(a)])
        BY <2>1, EmptySeq DEF Last
    <2>3. m = Len(a) \/ Before(a[m], a[Len(a)])
        BY <1>2, <1>5, <2>1 DEF Descending
    <2>4. a[m] \in Ids /\ a[Len(a)] \in Ids /\ b[n - Len(a)] \in Ids
        BY <2>1
    <2> QED
        BY <2>1, <2>2, <2>3, <2>4, BeforeTransitive
<1> QED
    BY <1>2, <1>3, <1>4, <1>5

(* Of a client that is untouched, what is true remains true while the      *)
(* rows do.                                                                *)
LEMMA SameRows ==
    ASSUME UNCHANGED <<table, item>>, NEW u
    PROVE  Paging(reader[u])' <=> Paging(reader'[u])
<1>1. /\ Orderly' <=> Orderly
      /\ Listed' = Listed
    BY DEF Orderly, Ties, Listed
<1>2. \A s : Descending(s)' <=> Descending(s)
    BY DEF Descending, Before
<1>3. \A i, j : Before(i, j)' <=> Before(i, j)
    BY DEF Before
<1> QED
    BY <1>1, <1>2, <1>3 DEF Paging

(* What a fetch shows a client: the answer s of a query, up to the limit.  *)
Page(r, s, q) ==
    LET more == r.limit < 0 \/ Len(s) > r.limit
        count == IF r.limit < 0 THEN 0
                 ELSE IF Len(s) > r.limit THEN r.limit ELSE Len(s)
    IN  \E data \in Seq(Listed) :
            /\ Len(data) = count /\ \A n \in 1..count : data[n] = s[n]
            /\ q = [r EXCEPT !.shown = @ \o data,
                             !.cursor = IF more /\ data # <<>> THEN Last(data)
                                        ELSE NoCursor,
                             !.lost = FALSE,
                             !.pc = CASE ~more -> "end"
                                      [] more /\ data = <<>> -> "stuck"
                                      [] OTHER -> "reading"]

LEMMA FetchShows ==
    ASSUME ListingsTypeOK, NEW u \in Readers, Paging(reader[u]), Fetch(u)
    PROVE  /\ UNCHANGED <<table, item, now>>
           /\ reader[u].pc = "reading"
           /\ reader' = [reader EXCEPT ![u] = reader'[u]]
           /\ \E s : Answers(reader[u].cursor, s) /\ Page(reader[u], s, reader'[u])
<1> DEFINE r == reader[u]
<1>1. r \in ReaderStates /\ r.pc = "reading" /\ UNCHANGED <<table, item, now>>
    BY DEF Fetch, ListingsTypeOK
<1>2. r.limit \in Int \ {0} /\ r.cursor \in Ids \cup {NoCursor}
    BY <1>1, ListingsAssumption DEF Paging, ReaderStates
<1>3. PICK s : Answers(r.cursor, s) /\ Show(u, Take(s, r.limit + 1))
    <2>1. CASE queryAuditLogs(u) \/ listProjects(u)
        <3>1. table \in ByKey /\ ShowAfterKey(u)
            BY <2>1 DEF queryAuditLogs, listProjects, ByKey
        <3> QED
            BY <3>1, KeyAnswers DEF ShowAfterKey
    <2>2. CASE listWorkspaces(u) \/ listTasks(u) \/ listFiles(u)
        <3>1. table \notin ByKey
            BY <2>2 DEF listWorkspaces, listTasks, listFiles, ByKey
        <3>2. ShowAfterRow(u)
            BY <2>2 DEF listWorkspaces, listTasks, listFiles
        <3> QED
            BY <1>2, <3>1, <3>2, RowAnswers DEF ShowAfterRow
    <2> QED
        BY <2>1, <2>2 DEF Fetch
<1> DEFINE entries == Take(s, r.limit + 1)
           more == HasMore(entries, r.limit)
           data == IF more THEN Slice(entries, r.limit) ELSE entries
           count == IF r.limit < 0 THEN 0
                    ELSE IF Len(s) > r.limit THEN r.limit ELSE Len(s)
<1>4. s \in Seq(Listed)
    BY <1>3 DEF Answers
<1>5. /\ more <=> r.limit < 0 \/ Len(s) > r.limit
      /\ data \in Seq(Listed) /\ Len(data) = count
      /\ \A n \in 1..count : data[n] = s[n]
    BY <1>2, <1>4, PageOfRows
<1> DEFINE q == [r EXCEPT !.shown = @ \o data,
                          !.cursor = IF more /\ data # <<>> THEN Last(data)
                                     ELSE NoCursor,
                          !.lost = FALSE,
                          !.pc = CASE ~more -> "end"
                                   [] more /\ data = <<>> -> "stuck"
                                   [] OTHER -> "reading"]
<1>6. reader' = [reader EXCEPT ![u] = q]
    BY <1>3 DEF Show
<1>7. reader'[u] = q
    BY <1>6 DEF ListingsTypeOK
<1> HIDE DEF data, more, entries
<1>8. Page(r, s, q)
    BY <1>5, Zenon DEF Page
<1> HIDE DEF q
<1> QED
    BY <1>1, <1>3, <1>6, <1>7, <1>8

LEMMA PageKeeps ==
    ASSUME ListingsTypeOK, NEW r \in ReaderStates, Paging(r), r.pc = "reading",
           NEW s, Answers(r.cursor, s), NEW q, Page(r, s, q)
    PROVE  /\ q \in ReaderStates /\ Paging(q)
           /\ q.pc = "end" /\ (table \in ByKey \/ (~Ties /\ ~r.lost))
                  => r.owed \subseteq ToSet(q.shown)
<1> DEFINE more == r.limit < 0 \/ Len(s) > r.limit
           count == IF r.limit < 0 THEN 0
                    ELSE IF Len(s) > r.limit THEN r.limit ELSE Len(s)
<1>1. /\ r.limit \in Limits /\ r.limit \in Int \ {0} /\ r.shown \in Seq(Ids)
      /\ r.cursor \in Ids \cup {NoCursor} /\ r.owed \in SUBSET Ids
      /\ s \in Seq(Listed) /\ Len(s) \in Nat
    <2>1. r.limit \in Limits
        BY DEF Paging
    <2>2. r.shown \in Seq(Ids) /\ r.cursor \in Ids \cup {NoCursor} /\ r.owed \in SUBSET Ids
        BY DEF ReaderStates
    <2>3. s \in Seq(Listed)
        BY DEF Answers
    <2>4. r.limit \in Int \ {0}
        BY <2>1, ListingsAssumption
    <2>5. Len(s) \in Nat
        BY <2>3
    <2> QED
        BY <2>1, <2>2, <2>3, <2>4, <2>5
<1>2. PICK data \in Seq(Listed) :
          /\ Len(data) = count /\ \A n \in 1..count : data[n] = s[n]
          /\ q = [r EXCEPT !.shown = @ \o data,
                           !.cursor = IF more /\ data # <<>> THEN Last(data)
                                      ELSE NoCursor,
                           !.lost = FALSE,
                           !.pc = CASE ~more -> "end"
                                    [] more /\ data = <<>> -> "stuck"
                                    [] OTHER -> "reading"]
    BY Zenon DEF Page
<1>3. /\ q.shown = r.shown \o data /\ q.lost = FALSE
      /\ q.limit = r.limit /\ q.owed = r.owed
      /\ q.cursor = IF more /\ data # <<>> THEN Last(data) ELSE NoCursor
      /\ q.pc = IF ~more THEN "end" ELSE IF data = <<>> THEN "stuck" ELSE "reading"
      /\ DOMAIN q = DOMAIN r
    BY <1>2 DEF ReaderStates
<1>4. /\ count \in Nat /\ count <= Len(s)
      /\ data = <<>> <=> count = 0
      /\ \A n \in 1..count : data[n] = s[n] /\ data[n] \in Listed /\ data[n] \in Ids
      /\ data \in Seq(Ids)
    <2>1. count \in Nat /\ count <= Len(s)
        BY <1>1
    <2>2. data = <<>> <=> count = 0
        BY <1>2, EmptySeq
    <2>3. Listed \subseteq Ids
        BY DEF Listed
    <2>4. data \in Seq(Ids)
        BY <1>2, <2>3, SeqMonotonic
    <2>5. \A n \in 1..count : data[n] \in Listed
        BY <1>2
    <2> HIDE DEF count
    <2> QED
        BY <1>2, <2>1, <2>2, <2>3, <2>4, <2>5
<1>5. /\ r.shown \o data \in Seq(Ids)
      /\ Len(r.shown \o data) = Len(r.shown) + count
      /\ Len(r.shown) \in Nat
      /\ \A n \in 1..Len(r.shown) + count :
             (r.shown \o data)[n] = IF n <= Len(r.shown) THEN r.shown[n]
                                    ELSE data[n - Len(r.shown)]
    <2>1. Len(r.shown) \in Nat /\ r.shown \in Seq(Ids) /\ data \in Seq(Ids)
        BY <1>1, <1>4
    <2>2. Len(data) = count
        BY <1>2
    <2> HIDE DEF count
    <2> QED
        BY <2>1, <2>2, ConcatProperties
<1>6. Orderly => Descending(r.shown \o data)
    <2>1. SUFFICES ASSUME Orderly
                   PROVE  Descending(r.shown \o data)
        OBVIOUS
    <2>2. Descending(s) /\ \A n \in 1..Len(s) : s[n] \in AfterKey(r.cursor)
        BY <2>1 DEF Answers
    <2>3. Descending(data)
        <3>1. \A n \in 1..count : n \in 1..Len(s)
            BY <1>1, <1>4
        <3> HIDE DEF count
        <3> QED
            BY <1>2, <1>4, <2>2, <3>1 DEF Descending
    <2>4. r.shown = <<>> \/ \A n \in 1..Len(data) : Before(Last(r.shown), data[n])
        <3>1. CASE r.cursor = NoCursor
            BY <3>1 DEF Paging
        <3>2. CASE r.cursor # NoCursor
            <4>1. r.cursor = Last(r.shown)
                BY <3>2 DEF Paging
            <4>2. ASSUME NEW n \in 1..Len(data)
                  PROVE  Before(Last(r.shown), data[n])
                <5>1. n \in 1..count /\ n \in 1..Len(s)
                    BY <1>1, <1>2, <1>4
                <5>2. data[n] = s[n] /\ s[n] \in AfterKey(r.cursor)
                    BY <1>2, <2>2, <5>1
                <5> QED
                    BY <3>2, <4>1, <5>2 DEF AfterKey
            <4> QED
                BY <4>2
        <3> QED
            BY <3>1, <3>2
    <2>5. Descending(r.shown)
        BY <2>1 DEF Paging
    <2> QED
        BY <1>1, <1>4, <2>3, <2>4, <2>5, PageAfterPage
<1>7. \A n \in 1..Len(r.shown \o data) : item[(r.shown \o data)[n]].state # "none"
    <2>1. ASSUME NEW n \in 1..Len(r.shown) + count
          PROVE  item[(r.shown \o data)[n]].state # "none"
        <3>1. CASE n <= Len(r.shown)
            BY <1>5, <2>1, <3>1 DEF Paging
        <3>2. CASE n > Len(r.shown)
            <4>1. n - Len(r.shown) \in 1..count
                BY <1>4, <1>5, <2>1, <3>2
            <4>2. (r.shown \o data)[n] \in Listed
                BY <1>4, <1>5, <3>2, <4>1
            <4> QED
                BY <4>2 DEF Listed
        <3> QED
            BY <1>5, <3>1, <3>2
    <2> QED
        BY <1>5, <2>1
<1>8. \A n \in 1..count : data[n] \in ToSet(r.shown \o data)
    <2>1. ASSUME NEW n \in 1..count
          PROVE  data[n] \in ToSet(r.shown \o data)
        <3>1. /\ Len(r.shown) + n \in 1..Len(r.shown) + count
              /\ ~(Len(r.shown) + n <= Len(r.shown))
              /\ (Len(r.shown) + n) - Len(r.shown) = n
            BY <1>4, <1>5
        <3>2. (r.shown \o data)[Len(r.shown) + n] = data[n]
            BY <1>5, <3>1
        <3>3. DOMAIN (r.shown \o data) = 1..Len(r.shown) + count
            BY <1>5, LenProperties
        <3> QED
            BY <3>1, <3>2, <3>3 DEF ToSet
    <2> QED
        BY <2>1
<1>9. ToSet(r.shown) \subseteq ToSet(r.shown \o data)
    <2>1. ASSUME NEW n \in 1..Len(r.shown)
          PROVE  r.shown[n] \in ToSet(r.shown \o data)
        <3>1. n \in 1..Len(r.shown) + count /\ n <= Len(r.shown)
            BY <1>4, <1>5
        <3>2. (r.shown \o data)[n] = r.shown[n]
            BY <1>5, <3>1
        <3>3. DOMAIN (r.shown \o data) = 1..Len(r.shown) + count
            BY <1>5, LenProperties
        <3> QED
            BY <3>1, <3>2, <3>3 DEF ToSet
    <2>2. DOMAIN r.shown = 1..Len(r.shown)
        BY <1>1
    <2> QED
        BY <2>1, <2>2 DEF ToSet
(* A row it is owed is shown now or before, or comes after this page.      *)
<1>10. ASSUME Orderly, table \in ByKey \/ r.cursor \in Listed \cup {NoCursor}, NEW i \in r.owed
       PROVE  i \in ToSet(r.shown \o data) \/ (more /\ (count = 0 \/ Before(data[count], i)))
    <2>1. CASE i \in ToSet(r.shown)
        BY <1>9, <2>1
    <2>2. CASE r.cursor = NoCursor \/ Before(r.cursor, i)
        <3>1. i \in AfterKey(r.cursor)
            BY <1>10, <2>2 DEF Paging, AfterKey
        <3>2. PICK k \in 1..Len(s) : s[k] = i
            BY <1>10, <3>1 DEF Answers
        <3>3. CASE k <= count
            <4>1. k \in 1..count
                BY <1>4, <3>3
            <4> QED
                BY <1>4, <1>8, <3>2, <4>1
        <3>4. CASE k > count
            <4>1. more
                BY <1>1, <3>4
            <4>2. CASE count > 0
                <5>1. count \in 1..count /\ count \in 1..Len(s) /\ count < k
                    BY <1>1, <1>4, <3>4, <4>2
                <5>2. data[count] = s[count]
                    BY <1>4, <5>1
                <5>3. Before(s[count], s[k])
                    BY <1>10, <5>1 DEF Answers, Descending
                <5> QED
                    BY <3>2, <4>1, <5>2, <5>3
            <4> QED
                BY <1>4, <4>1, <4>2
        <3> QED
            BY <1>4, <3>3, <3>4
    <2> QED
        BY <1>10, <2>1, <2>2 DEF Paging
<1> HIDE DEF more, count
<1>11. more => (r.limit < 0 \/ (r.limit > 0 /\ count = r.limit))
    BY <1>1 DEF more, count
<1>12. r.limit < 0 => count = 0 /\ more /\ r.shown = <<>>
    BY DEF Paging, more, count
<1>13. count > 0 => /\ Last(data) = data[count] /\ Last(data) \in Listed
                    /\ Last(r.shown \o data) = Last(data)
                    /\ r.shown \o data # <<>>
    <2>1. SUFFICES ASSUME count > 0
                   PROVE  /\ Last(data) = data[count] /\ Last(data) \in Listed
                          /\ Last(r.shown \o data) = Last(data)
                          /\ r.shown \o data # <<>>
        OBVIOUS
    <2>2. count \in 1..count /\ Last(data) = data[count]
        BY <1>2, <1>4, <2>1 DEF Last, count
    <2>3. /\ Len(r.shown) + count \in 1..Len(r.shown) + count
          /\ ~(Len(r.shown) + count <= Len(r.shown))
          /\ (Len(r.shown) + count) - Len(r.shown) = count
        BY <1>4, <1>5, <2>1
    <2>4. (r.shown \o data)[Len(r.shown \o data)] = data[count]
        <3>1. Len(r.shown \o data) = Len(r.shown) + count
            BY <1>5
        <3>2. \A k \in 1..Len(r.shown) + count :
                  ~(k <= Len(r.shown)) => (r.shown \o data)[k] = data[k - Len(r.shown)]
            BY <1>5
        <3>3. (r.shown \o data)[Len(r.shown) + count]
                  = data[(Len(r.shown) + count) - Len(r.shown)]
            BY <2>3, <3>2, Zenon
        <3> QED
            BY <2>3, <3>1, <3>3, Zenon
    <2>5. Len(r.shown \o data) # 0
        BY <1>4, <1>5, <2>1
    <2> QED
        BY <1>4, <2>2, <2>4, <2>5, EmptySeq DEF Last
<1>14. q \in ReaderStates
    <2>1. q.cursor \in Ids \cup {NoCursor}
        <3>1. Listed \subseteq Ids
            BY DEF Listed
        <3> QED
            BY <1>3, <1>4, <1>13, <3>1
    <2>2. q.pc \in {"end", "stuck", "reading"}
        BY <1>3
    <2> DEFINE c == q.cursor
               p == q.pc
    <2>3. q = [r EXCEPT !.shown = r.shown \o data, !.cursor = c, !.lost = FALSE, !.pc = p]
        BY <1>2, <1>3
    <2> HIDE DEF c, p
    <2>4. c \in Ids \cup {NoCursor} /\ p \in {"end", "stuck", "reading"}
        BY <2>1, <2>2 DEF c, p
    <2> QED
        BY <1>5, <2>3, <2>4 DEF ReaderStates
<1>15. Paging(q)
    <2>1. q.pc # "idle" => q.limit \in Limits
        BY <1>1, <1>3
    <2>2. q.pc = "stuck" => q.limit < 0 /\ q.shown = <<>>
        <3>1. SUFFICES ASSUME more, data = <<>>
                       PROVE  r.limit < 0 /\ r.shown \o data = <<>>
            BY <1>3
        <3>2. r.limit < 0 /\ r.shown = <<>>
            BY <1>1, <1>4, <1>11, <1>12, <3>1
        <3> QED
            BY <1>1, <1>2, <3>1, <3>2
    <2>3. q.pc = "reading" => count > 0 /\ q.limit > 0
        BY <1>1, <1>3, <1>4, <1>11, <1>12
    <2>4. q.pc = "reading" => q.cursor = Last(data) /\ q.cursor # NoCursor
        BY <1>3, <2>3, <1>13, ListingsAssumption DEF Listed
    <2>5. q.cursor # NoCursor => /\ q.pc = "reading" /\ q.shown # <<>>
                                 /\ q.cursor = Last(q.shown)
                                 /\ q.cursor \in Listed
        <3>1. SUFFICES ASSUME more, data # <<>>
                       PROVE  /\ q.pc = "reading" /\ q.shown # <<>>
                              /\ q.cursor = Last(q.shown)
                              /\ q.cursor \in Listed
            BY <1>3
        <3>2. count > 0
            BY <1>4, <3>1
        <3> QED
            BY <1>3, <1>13, <3>1, <3>2
    <2>6. ASSUME Orderly, q.pc = "reading", NEW i \in q.owed
          PROVE  i \in ToSet(q.shown) \/ Before(q.cursor, i)
        <3>1. table \in ByKey \/ r.cursor \in Listed \cup {NoCursor}
            <4>1. s # <<>>
                BY <1>4, <2>3, <2>6, EmptySeq
            <4> QED
                BY <4>1 DEF Answers
        <3>2. i \in ToSet(r.shown \o data) \/ Before(data[count], i)
            BY <1>3, <1>4, <1>10, <2>3, <2>6, <3>1
        <3> QED
            BY <1>3, <1>13, <2>3, <2>4, <2>6, <3>2
    <2> QED
        <3>1. /\ \A n \in 1..Len(q.shown) : item[q.shown[n]].state # "none"
              /\ q.owed \subseteq Listed
              /\ Orderly => Descending(q.shown)
            BY <1>3, <1>6, <1>7 DEF Paging
        <3>2. q.pc = "reading" => ~(q.limit < 0)
            BY <1>1, <1>3, <2>3
        <3> QED
            BY <2>1, <2>2, <2>4, <2>5, <2>6, <3>1, <3>2, Zenon DEF Paging
<1>16. q.pc = "end" /\ (table \in ByKey \/ (~Ties /\ ~r.lost))
           => r.owed \subseteq ToSet(q.shown)
    <2>1. SUFFICES ASSUME ~more, Orderly, table \in ByKey \/ ~r.lost, NEW i \in r.owed
                   PROVE  i \in ToSet(r.shown \o data)
        BY <1>3 DEF Orderly
    <2>2. table \in ByKey \/ r.cursor \in Listed \cup {NoCursor}
        BY <2>1 DEF Paging
    <2> QED
        BY <1>10, <2>1, <2>2
<1> QED
    BY <1>14, <1>15, <1>16

(* The rows change, and a client forgets what has gone.                    *)
LEMMA RowsMove ==
    ASSUME ListingsTypeOK, UNCHANGED table,
           \A i \in Ids : item[i].state # "none" =>
               item'[i].state # "none" /\ item'[i].at = item[i].at,
           NEW u, reader[u] \in ReaderStates, Paging(reader[u]),
           reader'[u].pc = reader[u].pc, reader'[u].limit = reader[u].limit,
           reader'[u].cursor = reader[u].cursor, reader'[u].shown = reader[u].shown,
           reader'[u].owed \subseteq reader[u].owed, reader'[u].owed \subseteq Listed',
           reader[u].lost => reader'[u].lost,
           reader[u].cursor \in Listed => reader'[u].lost \/ reader[u].cursor \in Listed'
    PROVE  Paging(reader[u])'
<1> DEFINE r == reader[u]
<1>1. r.shown \in Seq(Ids) /\ r.owed \in SUBSET Ids /\ r.cursor \in Ids \cup {NoCursor}
    BY DEF ReaderStates
<1>2. \A n \in 1..Len(r.shown) : r.shown[n] \in Ids /\ item[r.shown[n]].state # "none"
    BY <1>1 DEF Paging
<1>3. Orderly' => Orderly
    BY DEF Orderly, Ties
<1>4. ASSUME Orderly', NEW m \in 1..Len(r.shown), NEW n \in 1..Len(r.shown), m < n
      PROVE  Before(reader[u].shown[m], reader[u].shown[n])'
    <2>1. Before(r.shown[m], r.shown[n])
        BY <1>3, <1>4 DEF Paging, Descending
    <2>2. /\ item'[r.shown[m]].at = item[r.shown[m]].at
          /\ item'[r.shown[n]].at = item[r.shown[n]].at
        BY <1>2
    <2> QED
        BY <2>1, <2>2 DEF Before
<1>5. ASSUME r.cursor # NoCursor
      PROVE  r.cursor \in Ids /\ item[r.cursor].state # "none"
    <2>1. r.shown # <<>> /\ r.cursor = r.shown[Len(r.shown)]
        BY <1>5 DEF Paging, Last
    <2>2. Len(r.shown) \in 1..Len(r.shown)
        BY <1>1, <2>1, EmptySeq
    <2> QED
        BY <1>2, <2>1, <2>2
<1>6. ASSUME Orderly', r.pc = "reading", NEW i \in r'.owed
      PROVE  \/ i \in ToSet(r.shown) \/ r.cursor = NoCursor
             \/ Before(reader[u].cursor, i)'
    <2>1. i \in r.owed /\ i \in Ids /\ item[i].state # "none"
        BY <1>1, <1>6 DEF Paging, Listed
    <2>2. i \in ToSet(r.shown) \/ r.cursor = NoCursor \/ Before(r.cursor, i)
        BY <1>3, <1>6, <2>1 DEF Paging
    <2> QED
        BY <1>5, <2>1, <2>2 DEF Before
<1>7. \A n \in 1..Len(r.shown) : item'[r.shown[n]].state # "none"
    BY <1>2
<1>8. r.cursor # NoCursor => r'.lost \/ r.cursor \in Listed'
    BY DEF Paging
<1>9. /\ r.pc # "idle" => r.limit \in Limits
      /\ r.pc = "stuck" => r.limit < 0 /\ r.shown = <<>>
      /\ r.pc = "reading" /\ r.limit < 0 => r.shown = <<>>
      /\ r.pc = "reading" /\ r.cursor = NoCursor => r.shown = <<>>
      /\ r.cursor # NoCursor => /\ r.pc = "reading" /\ r.shown # <<>>
                                /\ r.cursor = Last(r.shown)
    BY DEF Paging
<1>10. Orderly' => Descending(reader[u].shown)'
    BY <1>4 DEF Descending
<1>11. Orderly' /\ reader'[u].pc = "reading" =>
          \A i \in reader'[u].owed : \/ i \in ToSet(reader'[u].shown)
                                    \/ reader'[u].cursor = NoCursor
                                    \/ Before(reader[u].cursor, i)'
    BY <1>6
<1>12. reader'[u].cursor # NoCursor =>
          reader'[u].lost \/ reader'[u].cursor \in Listed'
    BY <1>8
<1> QED
    BY <1>7, <1>9, <1>10, <1>11, <1>12 DEF Paging

LEMMA StampCommitStep ==
    ASSUME ListingsInv, NEW i \in Ids, Stamp(i) \/ Commit(i)
    PROVE  ListingsInv'
<1>1. UNCHANGED <<table, now, reader>>
    BY DEF Stamp, Commit
<1>2. /\ item' \in [Ids -> [state : {"none", "stamped", "listed", "gone"}, at : Nat]]
      /\ \A j \in Ids : item[j].state # "none" =>
             item'[j].state # "none" /\ item'[j].at = item[j].at
      /\ Listed \subseteq Listed'
    <2>1. CASE Stamp(i)
        BY <2>1 DEF Stamp, ListingsInv, ListingsTypeOK, Listed
    <2>2. CASE Commit(i)
        BY <2>2 DEF Commit, ListingsInv, ListingsTypeOK, Listed
    <2> QED
        BY <2>1, <2>2
<1>3. ListingsTypeOK'
    BY <1>1, <1>2 DEF ListingsInv, ListingsTypeOK
<1>4. ASSUME NEW u \in Readers
      PROVE  Paging(reader[u])'
    <2>1. reader'[u] = reader[u] /\ reader[u] \in ReaderStates /\ Paging(reader[u])
        BY <1>1 DEF ListingsInv, ListingsTypeOK
    <2>2. reader[u].owed \subseteq Listed
        BY <2>1 DEF Paging
    <2> QED
        BY <1>1, <1>2, <2>1, <2>2, RowsMove DEF ListingsInv
<1> QED
    BY <1>3, <1>4 DEF ListingsInv

LEMMA VanishStep ==
    ASSUME ListingsInv, NEW i \in Ids, Vanish(i)
    PROVE  ListingsInv'
<1>1. UNCHANGED <<table, now>>
    BY DEF Vanish
<1>2. /\ item' \in [Ids -> [state : {"none", "stamped", "listed", "gone"}, at : Nat]]
      /\ \A j \in Ids : item[j].state # "none" =>
             item'[j].state # "none" /\ item'[j].at = item[j].at
      /\ Listed' = Listed \ {i}
    BY DEF Vanish, ListingsInv, ListingsTypeOK, Listed
<1>3. ASSUME NEW u \in Readers
      PROVE  /\ reader'[u] \in ReaderStates
             /\ reader'[u] = [reader[u] EXCEPT !.owed = @ \ {i},
                                               !.lost = @ \/ reader[u].cursor = i]
    BY DEF Vanish, ListingsInv, ListingsTypeOK, ReaderStates
<1>4. ListingsTypeOK'
    <2>1. reader' \in [Readers -> ReaderStates]
        BY <1>3 DEF Vanish
    <2> QED
        BY <1>1, <1>2, <2>1 DEF ListingsInv, ListingsTypeOK
<1>5. ASSUME NEW u \in Readers
      PROVE  Paging(reader[u])'
    <2>1. reader[u] \in ReaderStates /\ Paging(reader[u])
        BY DEF ListingsInv, ListingsTypeOK
    <2>2. /\ reader'[u].pc = reader[u].pc /\ reader'[u].limit = reader[u].limit
          /\ reader'[u].cursor = reader[u].cursor /\ reader'[u].shown = reader[u].shown
          /\ reader'[u].owed = reader[u].owed \ {i}
          /\ reader'[u].lost = (reader[u].lost \/ reader[u].cursor = i)
        BY <1>3, <2>1 DEF ReaderStates
    <2>3. reader[u].owed \subseteq Listed
        BY <2>1 DEF Paging
    <2>4. /\ reader'[u].owed \subseteq reader[u].owed /\ reader'[u].owed \subseteq Listed'
          /\ reader[u].lost => reader'[u].lost
          /\ reader[u].cursor \in Listed => reader'[u].lost \/ reader[u].cursor \in Listed'
        BY <1>2, <2>2, <2>3
    <2> QED
        BY <1>1, <1>2, <2>1, <2>2, <2>4, RowsMove DEF ListingsInv
<1> QED
    BY <1>4, <1>5 DEF ListingsInv

LEMMA AskStep ==
    ASSUME ListingsInv, NEW u \in Readers, Ask(u)
    PROVE  ListingsInv'
<1>1. UNCHANGED <<table, item, now>>
    BY DEF Ask
<1>2. PICK limit \in Limits :
          reader' = [reader EXCEPT ![u] =
              [NoReader EXCEPT !.pc = "reading", !.limit = limit, !.owed = Listed]]
    BY DEF Ask, LimitsOf
<1> DEFINE q == [NoReader EXCEPT !.pc = "reading", !.limit = limit, !.owed = Listed]
<1>3. /\ q.pc = "reading" /\ q.limit = limit /\ q.owed = Listed
      /\ q.shown = <<>> /\ q.cursor = NoCursor /\ q.lost = FALSE
    BY DEF NoReader
<1>4. q \in ReaderStates
    BY EmptySeq DEF NoReader, ReaderStates, Listed
<1>5. reader \in [Readers -> ReaderStates]
    BY DEF ListingsInv, ListingsTypeOK
<1>6. reader'[u] = q /\ \A v \in Readers \ {u} : reader'[v] = reader[v]
    BY <1>2, <1>5
<1>7. reader' \in [Readers -> ReaderStates]
    BY <1>2, <1>4, <1>5
<1> HIDE DEF q
<1>8. ListingsTypeOK'
    BY <1>1, <1>7 DEF ListingsInv, ListingsTypeOK
<1>9. Paging(q)
    <2>1. Len(<<>>) = 0
        BY EmptySeq
    <2> QED
        BY <1>3, <2>1 DEF Paging, Descending
<1>10. ASSUME NEW v \in Readers
       PROVE  Paging(reader[v])'
    <2>1. Paging(reader'[v])
        BY <1>6, <1>9 DEF ListingsInv
    <2> QED
        BY <1>1, <2>1, SameRows
<1> QED
    BY <1>8, <1>10 DEF ListingsInv

LEMMA FetchStep ==
    ASSUME ListingsInv, NEW u \in Readers, Fetch(u)
    PROVE  /\ ListingsInv'
           /\ reader'[u].pc = "end" /\ (table \in ByKey \/ (~Ties /\ ~reader[u].lost))
                  => reader[u].owed \subseteq ToSet(reader'[u].shown)
           /\ \A v \in Readers \ {u} : reader'[v] = reader[v]
<1>1. /\ ListingsTypeOK /\ reader[u] \in ReaderStates /\ Paging(reader[u])
      /\ reader \in [Readers -> ReaderStates]
    BY DEF ListingsInv, ListingsTypeOK
<1>2. /\ UNCHANGED <<table, item, now>> /\ reader[u].pc = "reading"
      /\ reader' = [reader EXCEPT ![u] = reader'[u]]
      /\ \E s : Answers(reader[u].cursor, s) /\ Page(reader[u], s, reader'[u])
    BY <1>1, FetchShows
<1>3. /\ reader'[u] \in ReaderStates /\ Paging(reader'[u])
      /\ reader'[u].pc = "end" /\ (table \in ByKey \/ (~Ties /\ ~reader[u].lost))
             => reader[u].owed \subseteq ToSet(reader'[u].shown)
    BY <1>1, <1>2, PageKeeps
<1>4. \A v \in Readers \ {u} : reader'[v] = reader[v]
    BY <1>1, <1>2
<1>5. ListingsTypeOK'
    <2>1. reader' \in [Readers -> ReaderStates]
        BY <1>1, <1>2, <1>3
    <2> QED
        BY <1>1, <1>2, <2>1 DEF ListingsTypeOK
<1>6. ASSUME NEW v \in Readers
      PROVE  Paging(reader[v])'
    <2>1. Paging(reader'[v])
        BY <1>3, <1>4 DEF ListingsInv
    <2> QED
        BY <1>2, <2>1, SameRows
<1> QED
    BY <1>3, <1>4, <1>5, <1>6 DEF ListingsInv

(* Nothing changes for the clients when only the clock does.               *)
LEMMA QuietListings ==
    ASSUME ListingsInv, UNCHANGED <<table, item, reader>>, now' \in Nat
    PROVE  ListingsInv'
<1>1. ListingsTypeOK'
    BY DEF ListingsInv, ListingsTypeOK
<1>2. ASSUME NEW u \in Readers
      PROVE  Paging(reader[u])'
    <2>1. Paging(reader'[u])
        BY DEF ListingsInv
    <2> QED
        BY <2>1, SameRows
<1> QED
    BY <1>1, <1>2 DEF ListingsInv

LEMMA ListingsInvariant == ListingsSpec => []ListingsInv
<1>1. ListingsInit => ListingsInv
    <2>1. SUFFICES ASSUME ListingsInit
                   PROVE  ListingsInv
        OBVIOUS
    <2>2. NoReader \in ReaderStates
        BY EmptySeq DEF NoReader, ReaderStates
    <2>3. ListingsTypeOK
        BY <2>1, <2>2 DEF ListingsInit, ListingsTypeOK
    <2>4. ASSUME NEW u \in Readers
          PROVE  Paging(reader[u])
        <3>1. reader[u] = NoReader /\ Len(<<>>) = 0
            BY <2>1, EmptySeq DEF ListingsInit
        <3> QED
            BY <3>1 DEF NoReader, Paging, Descending
    <2> QED
        BY <2>3, <2>4 DEF ListingsInv
<1>2. ListingsInv /\ [ListingsNext]_listingsVars => ListingsInv'
    <2>1. SUFFICES ASSUME ListingsInv, [ListingsNext]_listingsVars
                   PROVE  ListingsInv'
        OBVIOUS
    <2>2. CASE \E i \in Ids : Stamp(i) \/ Commit(i) \/ Vanish(i)
        BY <2>1, <2>2, StampCommitStep, VanishStep
    <2>3. CASE \E u \in Readers : Ask(u) \/ Fetch(u)
        BY <2>1, <2>3, AskStep, FetchStep
    <2>4. CASE Tick
        <3>1. UNCHANGED <<table, item, reader>> /\ now' \in Nat
            BY <2>1, <2>4 DEF Tick, ListingsInv, ListingsTypeOK
        <3> QED
            BY <2>1, <3>1, QuietListings
    <2>5. CASE UNCHANGED listingsVars
        <3>1. UNCHANGED <<table, item, reader>> /\ now' \in Nat
            BY <2>1, <2>5 DEF listingsVars, ListingsInv, ListingsTypeOK
        <3> QED
            BY <2>1, <3>1, QuietListings
    <2> QED
        BY <2>1, <2>2, <2>3, <2>4, <2>5 DEF ListingsNext
<1> QED
    BY <1>1, <1>2, PTL DEF ListingsSpec

(* However long a client pages and whatever changes meanwhile, it is shown *)
(* the rows from the newest to the oldest, each once, where the order of   *)
(* the rows is the same in every query.                                    *)
THEOREM PagesInOrder == ListingsSpec => []NewestFirst
<1>1. ListingsInv => NewestFirst
    BY DEF ListingsInv, Paging, Descending, Orderly, NewestFirst
<1> QED
    BY <1>1, ListingsInvariant, PTL

(* Only a negative limit leaves a client with more and no cursor.          *)
THEOREM StuckOnlyByLimit == ListingsSpec => []StuckByLimit
<1>1. ListingsInv => StuckByLimit
    BY DEF ListingsInv, Paging, StuckByLimit
<1> QED
    BY <1>1, ListingsInvariant, PTL

(* Who reaches the end of a listing has been shown every row that was      *)
(* listed all the while.                                                   *)
THEOREM NothingLeftOut == ListingsSpec => AllShown
<1>1. ListingsInv /\ [ListingsNext]_listingsVars =>
          [\A u \in Readers :
              /\ reader[u].pc = "reading" /\ reader'[u].pc = "end"
              /\ table \in ByKey \/ (~Ties /\ ~reader[u].lost)
              => reader[u].owed \subseteq ToSet(reader'[u].shown)]_listingsVars
    <2>1. SUFFICES ASSUME ListingsInv, ListingsNext, NEW u \in Readers,
                          reader[u].pc = "reading", reader'[u].pc = "end",
                          table \in ByKey \/ (~Ties /\ ~reader[u].lost)
                   PROVE  reader[u].owed \subseteq ToSet(reader'[u].shown)
        OBVIOUS
    <2>2. reader \in [Readers -> ReaderStates]
        BY <2>1 DEF ListingsInv, ListingsTypeOK
    <2>3. CASE \E i \in Ids : Stamp(i) \/ Commit(i)
        BY <2>1, <2>3 DEF Stamp, Commit
    <2>4. CASE \E i \in Ids : Vanish(i)
        <3>1. PICK i \in Ids : Vanish(i)
            BY <2>4
        <3>2. reader'[u] = [reader[u] EXCEPT !.owed = @ \ {i},
                                             !.lost = @ \/ reader[u].cursor = i]
            BY <3>1 DEF Vanish
        <3>3. reader[u] \in ReaderStates
            BY <2>2
        <3>4. reader'[u].pc = reader[u].pc
            BY <3>2, <3>3 DEF ReaderStates
        <3> QED
            BY <2>1, <3>4
    <2>5. CASE \E v \in Readers : Ask(v)
        BY <2>1, <2>2, <2>5 DEF Ask, NoReader
    <2>6. CASE \E v \in Readers : Fetch(v)
        BY <2>1, <2>6, FetchStep
    <2>7. CASE Tick
        BY <2>1, <2>7 DEF Tick
    <2> QED
        BY <2>1, <2>3, <2>4, <2>5, <2>6, <2>7 DEF ListingsNext
<1> QED
    BY <1>1, ListingsInvariant, PTL DEF ListingsSpec, AllShown
=============================================================================
