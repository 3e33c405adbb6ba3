---------------------------- MODULE ImageUploads ----------------------------
(***************************************************************************)
(* Pictures that come with a request: a receipt to be read                 *)
(* (SettlementsController.uploadReceipt, OcrService) or the thumbnail of a *)
(* new party (PartiesService.createWithFile).  multer stores the file,     *)
(* ImageFileValidationPipe looks into it.  Every access to the file, the   *)
(* database and the recognition service is a step that may fail.           *)
(***************************************************************************)
EXTENDS Naturals, Sequences

CONSTANTS
    Handlers,      \* requests that may run at the same time
    MaxFiles       \* bound: files uploaded, one a request

\* What the constants must satisfy.
UploadBounds == MaxFiles \in Nat

VARIABLES
    files,         \* the uploads directory: <<[kind, image, there], ...>>
    parties,       \* parties: {[id, thumbnail], ...}; the id is the file's number
    hosts,         \* parties whose host has a member row
    client,        \* visionClient has been made
    configured,    \* the credentials of the recognition service are usable
    pc,            \* where each request is
    file,          \* its file, or 0
    answers,       \* how each upload was answered
    lost           \* history: files whose unlink failed, or whose process died

vars == <<files, parties, hosts, client, configured, pc, file, answers, lost>>

Kinds == {"receipt", "thumbnail"}
Answers == {"none", "refused", "failed", "items", "empty", "created"}

Init ==
    /\ files = <<>> /\ answers = <<>>
    /\ parties = {} /\ hosts = {} /\ lost = {}
    /\ client = FALSE
    /\ configured \in BOOLEAN
    /\ pc = [h \in Handlers |-> "idle"]
    /\ file = [h \in Handlers |-> 0]

Goto(h, place) == pc' = [pc EXCEPT ![h] = place] /\ UNCHANGED file
Finish(h) == pc' = [pc EXCEPT ![h] = "idle"] /\ file' = [file EXCEPT ![h] = 0]
Answer(h, answer) == answers' = [answers EXCEPT ![file[h]] = answer]

\* fs.unlink(...).catch(() => undefined)
Unlink(n) ==
    \/ files' = [files EXCEPT ![n].there = FALSE] /\ UNCHANGED lost
    \/ lost' = lost \cup {n} /\ UNCHANGED files
-----------------------------------------------------------------------------
\* A file whose name and declared type are allowed is stored; image: its bytes
\* are of the declared type.  Other files are refused before, larger ones are
\* removed by multer.
Upload(h, kind, image) ==
    /\ pc[h] = "idle"
    /\ Len(files) < MaxFiles
    /\ files' = Append(files, [kind |-> kind, image |-> image, there |-> TRUE])
    /\ answers' = Append(answers, "none")
    /\ file' = [file EXCEPT ![h] = Len(files')]
    /\ pc' = [pc EXCEPT ![h] = "validating"]
    /\ UNCHANGED <<parties, hosts, client, configured, lost>>

\* Mutant: a file of another type is refused and kept.
Transform_Keeps(h) ==
    /\ pc[h] = "validating"
    /\ \/ /\ files[file[h]].image
          /\ Goto(h, IF files[file[h]].kind = "receipt" THEN "reading" ELSE "saving")
          /\ UNCHANGED <<files, answers, lost>>
       \/ Answer(h, "refused") /\ Finish(h) /\ UNCHANGED <<files, lost>>
    /\ UNCHANGED <<parties, hosts, client, configured>>

\* A file that cannot be read, or has bytes of another type, is removed.
Transform(h) ==
    /\ pc[h] = "validating"
    /\ \/ /\ files[file[h]].image
          /\ Goto(h, IF files[file[h]].kind = "receipt" THEN "reading" ELSE "saving")
          /\ UNCHANGED <<files, answers, lost>>
       \/ Unlink(file[h]) /\ Answer(h, "refused") /\ Finish(h)
    /\ UNCHANGED <<parties, hosts, client, configured>>
-----------------------------------------------------------------------------
(* uploadReceipt: parseReceipt, and finally unlink                          *)

\* getVisionClient: made once; an error if that is not possible.  Then the file
\* is read, synchronously.
GetVisionClient(h) ==
    /\ pc[h] = "reading"
    /\ \/ (client \/ configured) /\ client' = TRUE /\ Goto(h, "recognizing") /\ UNCHANGED answers
       \/ /\ client' = (client \/ configured)
          /\ Answer(h, "failed")
          /\ Goto(h, "unlinking")
    /\ UNCHANGED <<files, parties, hosts, configured, lost>>

\* providerFailure, emptyResult, or items.
ParseReceipt(h) ==
    /\ pc[h] = "recognizing"
    /\ \E answer \in {"failed", "empty", "items"} : Answer(h, answer)
    /\ Goto(h, "unlinking")
    /\ UNCHANGED <<files, parties, hosts, client, configured, lost>>

UnlinkReceipt(h) ==
    /\ pc[h] = "unlinking"
    /\ Unlink(file[h])
    /\ Finish(h)
    /\ UNCHANGED <<parties, hosts, client, configured, answers>>
-----------------------------------------------------------------------------
(* createWithFile.  The fields may be refused (by ValidationPipe, or here)  *)
(* or a query fail: neither the party nor the file is removed.              *)

SaveParty(h) ==
    /\ pc[h] = "saving"
    /\ \/ parties' = parties \cup {file[h]} /\ Goto(h, "joining") /\ UNCHANGED answers
       \/ Answer(h, "failed") /\ Finish(h) /\ UNCHANGED parties
    /\ UNCHANGED <<files, hosts, client, configured, lost>>

SaveHost(h) ==
    /\ pc[h] = "joining"
    /\ \/ hosts' = hosts \cup {file[h]} /\ Answer(h, "created")
       \/ Answer(h, "failed") /\ UNCHANGED hosts
    /\ Finish(h)
    /\ UNCHANGED <<files, parties, client, configured, lost>>
-----------------------------------------------------------------------------
\* The process dies: every request with it, and the client.
Crash ==
    /\ \E h \in Handlers : pc[h] # "idle"
    /\ lost' = lost \cup {file[h] : h \in {g \in Handlers : pc[g] # "idle"}}
    /\ client' = FALSE
    /\ pc' = [h \in Handlers |-> "idle"]
    /\ file' = [h \in Handlers |-> 0]
    /\ UNCHANGED <<files, parties, hosts, configured, answers>>

Next ==
    \/ \E h \in Handlers :
         \/ \E kind \in Kinds, image \in BOOLEAN : Upload(h, kind, image)
         \/ Transform(h) \/ GetVisionClient(h) \/ ParseReceipt(h) \/ UnlinkReceipt(h)
         \/ SaveParty(h) \/ SaveHost(h)
    \/ Crash

Spec == Init /\ [][Next]_vars
-----------------------------------------------------------------------------
Places == {"idle", "validating", "reading", "recognizing", "unlinking", "saving", "joining"}

\* The values every variable ranges over.
TypeOK ==
    /\ files \in Seq([kind : Kinds, image : BOOLEAN, there : BOOLEAN])
    /\ answers \in Seq(Answers) /\ Len(answers) = Len(files)
    /\ parties \subseteq DOMAIN files /\ hosts \subseteq parties /\ lost \subseteq DOMAIN files
    /\ client \in BOOLEAN /\ configured \in BOOLEAN
    /\ pc \in [Handlers -> Places]
    /\ file \in [Handlers -> 0 .. Len(files)]

InUse(n) == \E h \in Handlers : file[h] = n

\* However a request ends, it leaves no file behind but the thumbnail of a party
\* it created or failed to create, unless removing it failed or the process died
\* (transform, uploadReceipt); and a party that was answered as created has its
\* thumbnail, a real image, and a host who is a member (createWithFile).
NothingLeftBehind ==
    \A n \in DOMAIN files :
        /\ files[n].there /\ ~InUse(n) /\ n \notin lost =>
              files[n].kind = "thumbnail" /\ answers[n] \in {"created", "failed"}
        /\ answers[n] = "created" => n \in hosts /\ files[n].there /\ files[n].image
=============================================================================
