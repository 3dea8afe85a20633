------------------------------- MODULE Uploads -------------------------------
(***************************************************************************)
(* Resumable uploads into one opportunity (ingestion/tus.py) and the       *)
(* registration of the documents they bring (register_document,            *)
(* process_text, the Celery task process_document).                        *)
(*                                                                         *)
(* An upload is two files: the bytes received and a state file with the    *)
(* offset.  A PATCH loads the state, waits for the body, appends, measures *)
(* the file and saves the state; other PATCHes run between those steps.    *)
(* Registration does not await, so on the one event loop it excludes other *)
(* registrations, but each of its commits may be the last one before a     *)
(* crash.  The clients all send the same document; a PATCH sends the bytes *)
(* that follow the offset it names.                                        *)
(***************************************************************************)
EXTENDS Naturals, Sequences, FiniteSets

CONSTANTS
    Requests,   \* PATCH requests served at one time
    UploadIds,  \* uploads
    Docs,       \* bound: ing_documents rows
    Length,     \* Upload-Length, in chunks
    MaxSize,    \* the size limit, in chunks
    Commits,    \* the commits process_text makes
    None

ASSUME SizesAssumption == /\ Length \in Nat \ {0} /\ MaxSize \in Nat /\ Length <= MaxSize
                          /\ Commits \in Nat \ {0}
ASSUME DocsAssumption == IsFiniteSet(Docs)
ASSUME NoneAssumption == None \notin UploadIds \cup Docs

VARIABLES
    part,        \* the bytes in <id>.part
    saved,       \* the offset in <id>.json
    mode,        \* how its document is processed; "unused" before tus_create
    doc,         \* ing_documents
    queue,       \* documents process_document has been queued for
    working,     \* what the Celery worker is processing
    job,         \* what each request is doing
    disturbed,   \* history: uploads whose appends overlapped or were cut short
    interrupted  \* history: documents whose processing was cut short

files == <<part, saved, mode>>
tables == <<doc, queue, working>>
vars == <<part, saved, mode, doc, queue, working, job, disturbed, interrupted>>

\* What a client sends: chunk i at position i
Source == [i \in 1..Length |-> i]

NoFile == [exists |-> FALSE, bytes |-> << >>]
NoState == [exists |-> FALSE, offset |-> 0]
NoDoc == [status |-> "absent", content |-> << >>, upload |-> None, original |-> FALSE,
          blank |-> FALSE, commits |-> 0]

\* done stands for whatever extraction answers: done, ocr_applied or needs_ocr
Statuses == {"absent", "pending", "done", "duplicate"}
PCs == {"idle", "loaded", "appended", "measured", "finalizing", "extracting",
        "registered", "processing", "cleanup"}
Unsaved == {"loaded", "appended", "measured"}
OnLoop == {"registered", "processing"}

\* bytes: the body, later what was read back; offset: the measured size
Idle == [pc |-> "idle", upload |-> None, bytes |-> << >>, offset |-> 0, doc |-> None]

Goto(r, pc) == job' = [job EXCEPT ![r].pc = pc]
Finish(r) == job' = [job EXCEPT ![r] = Idle]
Part(r) == part[job[r].upload]
WorksOn(r, u, pcs) == job[r].upload = u /\ job[r].pc \in pcs
Registered == {d \in Docs : doc[d].status # "absent"}
NewDoc == CHOOSE d \in Docs : doc[d].status = "absent"

(***************************************************************************)
(* tus_create.                                                             *)
(***************************************************************************)
Create(u, how) ==
    /\ mode[u] = "unused"
    /\ part' = [part EXCEPT ![u] = [exists |-> TRUE, bytes |-> << >>]]
    /\ saved' = [saved EXCEPT ![u] = [exists |-> TRUE, offset |-> 0]]
    /\ mode' = [mode EXCEPT ![u] = how]
    /\ UNCHANGED <<tables, job, disturbed, interrupted>>

(***************************************************************************)
(* tus_patch.                                                              *)
(***************************************************************************)
\* (mutant) a PATCH may name any offset the file once had
OffsetAcceptedBelow(u, from) == from <= saved[u].offset
OffsetAccepted(u, from) == from = saved[u].offset

PatchLoad(r, u, from, upto) ==
    /\ job[r].pc = "idle"
    /\ saved[u].exists
    /\ OffsetAccepted(u, from)
    /\ job' = [job EXCEPT ![r] = [Idle EXCEPT !.pc = "loaded", !.upload = u,
                                              !.bytes = SubSeq(Source, from + 1, upto)]]
    /\ disturbed' = IF \E s \in Requests : WorksOn(s, u, Unsaved)
                    THEN disturbed \cup {u} ELSE disturbed
    /\ UNCHANGED <<files, tables, interrupted>>

\* _append looks at the size and then appends; the two are one step here, so
\* nothing is claimed about the limit.
PatchAppend(r) ==
    /\ job[r].pc = "loaded"
    /\ Part(r).exists
    /\ Len(Part(r).bytes) + Len(job[r].bytes) <= MaxSize
    /\ part' = [part EXCEPT ![job[r].upload].bytes = @ \o job[r].bytes]
    /\ job' = [job EXCEPT ![r].pc = "appended", ![r].bytes = << >>]
    /\ UNCHANGED <<saved, mode, tables, disturbed, interrupted>>

\* 413, or the file has gone
PatchRefused(r) ==
    /\ job[r].pc = "loaded"
    /\ Part(r).exists => Len(Part(r).bytes) + Len(job[r].bytes) > MaxSize
    /\ Finish(r)
    /\ UNCHANGED <<files, tables, disturbed, interrupted>>

PatchMeasure(r) ==
    /\ job[r].pc = "appended"
    /\ IF Part(r).exists
       THEN job' = [job EXCEPT ![r].pc = "measured", ![r].offset = Len(Part(r).bytes)]
       ELSE Finish(r)
    /\ UNCHANGED <<files, tables, disturbed, interrupted>>

PatchSave(r) ==
    /\ job[r].pc = "measured"
    /\ saved' = [saved EXCEPT ![job[r].upload] = [exists |-> TRUE, offset |-> job[r].offset]]
    /\ IF job[r].offset >= Length
       THEN job' = [job EXCEPT ![r].pc = "finalizing", ![r].offset = 0]
       ELSE Finish(r)
    /\ UNCHANGED <<part, mode, tables, disturbed, interrupted>>

(***************************************************************************)
(* _finalize.                                                              *)
(***************************************************************************)
FinalizeRead(r) ==
    /\ job[r].pc = "finalizing"
    /\ IF Part(r).exists
       THEN job' = [job EXCEPT ![r].pc = "extracting", ![r].bytes = Part(r).bytes]
       ELSE Finish(r)
    /\ UNCHANGED <<files, tables, disturbed, interrupted>>

\* 404, 422 or 500: the files stay, and a PATCH at the end tries again
FinalizeRefused(r) ==
    /\ job[r].pc = "extracting"
    /\ Finish(r)
    /\ UNCHANGED <<files, tables, disturbed, interrupted>>

LoopFree == \A r \in Requests : job[r].pc \notin OnLoop

\* (mutant) only documents that have been read count
KnownDone(content) == \E d \in Docs : doc[d].content = content /\ doc[d].status = "done"

\* _find_duplicate
Known(content) == \E d \in Registered : doc[d].content = content

\* register_document up to its first commit.  blank: the request extracted no text,
\* as from an image without OCR, and so there is nothing to process; a duplicate's
\* text is not looked at, and in the background nothing has been extracted yet.
Register(r, blank) ==
    LET u == job[r].upload
        known == Known(job[r].bytes)
        background == mode[u] = "async"
    IN  /\ job[r].pc = "extracting"
        /\ LoopFree
        /\ Registered # Docs
        /\ known \/ background => ~blank
        /\ doc' = [doc EXCEPT ![NewDoc] =
                     [status |-> IF known THEN "duplicate" ELSE IF background THEN "pending" ELSE "done",
                      content |-> job[r].bytes, upload |-> u, original |-> ~known,
                      blank |-> blank, commits |-> 0]]
        /\ job' = [job EXCEPT ![r] =
                     [@ EXCEPT !.pc = IF background THEN "registered"
                                      ELSE IF known \/ blank THEN "cleanup" ELSE "processing",
                               !.bytes = << >>, !.doc = NewDoc]]
        /\ UNCHANGED <<files, queue, working, disturbed, interrupted>>

\* process_document.delay, also for a duplicate
Enqueue(r) ==
    /\ job[r].pc = "registered"
    /\ queue' = queue \cup {job[r].doc}
    /\ Goto(r, "cleanup")
    /\ UNCHANGED <<files, doc, working, disturbed, interrupted>>

\* One commit of process_text.  The first carries the status.
Committed(row) == [row EXCEPT !.status = "done", !.commits = @ + 1]

ProcessCommit(r) ==
    LET d == job[r].doc
    IN  /\ job[r].pc = "processing"
        /\ doc' = [doc EXCEPT ![d] = Committed(@)]
        /\ Goto(r, IF doc[d].commits + 1 = Commits THEN "cleanup" ELSE "processing")
        /\ UNCHANGED <<files, queue, working, disturbed, interrupted>>

\* The request fails with 500 and leaves the files
ProcessFails(r) ==
    /\ job[r].pc = "processing"
    /\ interrupted' = interrupted \cup {job[r].doc}
    /\ Finish(r)
    /\ UNCHANGED <<files, tables, disturbed>>

Cleanup(r) ==
    /\ job[r].pc = "cleanup"
    /\ part' = [part EXCEPT ![job[r].upload] = NoFile]
    /\ saved' = [saved EXCEPT ![job[r].upload] = NoState]
    /\ Finish(r)
    /\ UNCHANGED <<mode, tables, disturbed, interrupted>>

(***************************************************************************)
(* The Celery worker: a task is acknowledged as it is taken, and its       *)
(* exceptions are swallowed.                                               *)
(***************************************************************************)
\* (mutant) the task is acknowledged when it ends, and stays queued
WorkerTakeLate(d) ==
    /\ working = None
    /\ d \in queue
    /\ working' = d
    /\ UNCHANGED <<files, doc, queue, job, disturbed, interrupted>>

WorkerTake(d) ==
    /\ working = None
    /\ d \in queue
    /\ working' = d
    /\ queue' = queue \ {d}
    /\ UNCHANGED <<files, doc, job, disturbed, interrupted>>

WorkerCommit ==
    /\ working # None
    /\ doc' = [doc EXCEPT ![working] = Committed(@)]
    /\ working' = IF doc[working].commits + 1 = Commits THEN None ELSE working
    /\ UNCHANGED <<files, queue, job, disturbed, interrupted>>

WorkerStops ==
    /\ working # None
    /\ interrupted' = interrupted \cup {working}
    /\ working' = None
    /\ UNCHANGED <<files, doc, queue, job, disturbed>>

(***************************************************************************)
(* sweep_expired_uploads and the web process.                              *)
(***************************************************************************)
\* Neither file is old while a request has just written it
Untouched(u) == \A r \in Requests : job[r].upload = u => job[r].pc = "loaded"

SweepPart(u) ==
    /\ part[u].exists
    /\ Untouched(u)
    /\ part' = [part EXCEPT ![u] = NoFile]
    /\ UNCHANGED <<saved, mode, tables, job, disturbed, interrupted>>

SweepState(u) ==
    /\ saved[u].exists
    /\ Untouched(u)
    /\ saved' = [saved EXCEPT ![u] = NoState]
    /\ UNCHANGED <<part, mode, tables, job, disturbed, interrupted>>

Crash ==
    /\ \E r \in Requests : job[r].pc # "idle"
    /\ disturbed' = disturbed \cup {job[r].upload : r \in {s \in Requests : job[s].pc \in {"appended", "measured"}}}
    /\ interrupted' = interrupted \cup {job[r].doc : r \in {s \in Requests : job[s].pc \in OnLoop}}
    /\ job' = [r \in Requests |-> Idle]
    /\ UNCHANGED <<files, tables>>

Init ==
    /\ part = [u \in UploadIds |-> NoFile]
    /\ saved = [u \in UploadIds |-> NoState]
    /\ mode = [u \in UploadIds |-> "unused"]
    /\ doc = [d \in Docs |-> NoDoc]
    /\ queue = {}
    /\ working = None
    /\ job = [r \in Requests |-> Idle]
    /\ disturbed = {}
    /\ interrupted = {}

Next ==
    \/ \E u \in UploadIds :
        \/ \E how \in {"sync", "async"} : Create(u, how)
        \/ \E r \in Requests, from \in 0..MaxSize :
            \E upto \in {from} \cup from..Length : PatchLoad(r, u, from, upto)
        \/ SweepPart(u) \/ SweepState(u)
    \/ \E r \in Requests :
        \/ PatchAppend(r) \/ PatchRefused(r) \/ PatchMeasure(r) \/ PatchSave(r)
        \/ FinalizeRead(r) \/ FinalizeRefused(r) \/ Enqueue(r)
        \/ \E blank \in BOOLEAN : Register(r, blank)
        \/ ProcessCommit(r) \/ ProcessFails(r) \/ Cleanup(r)
    \/ \E d \in Docs : WorkerTake(d)
    \/ WorkerCommit \/ WorkerStops \/ Crash

Spec == Init /\ [][Next]_vars

-----------------------------------------------------------------------------
(***************************************************************************)
(* Safety.                                                                 *)
(***************************************************************************)
\* The types, and: a document is never committed more often than process_text
\* commits.
TypeOK ==
    /\ part \in [UploadIds -> [exists : BOOLEAN, bytes : Seq(1..Length)]]
    /\ saved \in [UploadIds -> [exists : BOOLEAN, offset : Nat]]
    /\ mode \in [UploadIds -> {"unused", "sync", "async"}]
    /\ doc \in [Docs -> [status : Statuses, content : Seq(1..Length), upload : UploadIds \cup {None},
                         original : BOOLEAN, blank : BOOLEAN, commits : 0..Commits]]
    /\ queue \subseteq Docs
    /\ working \in Docs \cup {None}
    /\ job \in [Requests -> [pc : PCs, upload : UploadIds \cup {None}, bytes : Seq(1..Length),
                             offset : Nat, doc : Docs \cup {None}]]
    /\ disturbed \subseteq UploadIds
    /\ interrupted \subseteq Docs

\* A document registered from an upload is the client's, chunk for chunk, however
\* the upload was cut up, refused, retried or finalized twice - unless two
\* appends to it overlapped or a crash fell between an append and its save.
UploadIntact ==
    \A d \in Registered : doc[d].upload \notin disturbed => doc[d].content = Source

\* Of the documents with one content one is the original, and it has been read
\* in full, or is queued or being read, unless its processing was cut short or
\* the request that registered it found no text in it; the copies are recorded as
\* duplicates of it all the same.  register_document, process_text,
\* process_document.
AtWork(d) == \/ d \in queue
             \/ d = working
             \/ \E r \in Requests : job[r].doc = d /\ job[r].pc \in OnLoop
OriginalRead ==
    \A d \in Registered : \E o \in Registered :
        /\ \A e \in Registered : doc[e].content = doc[d].content => (doc[e].original <=> e = o)
        /\ doc[o].content = doc[d].content
        /\ \/ o \in interrupted \/ doc[o].blank
           \/ AtWork(o)
           \/ doc[o].status = "done" /\ doc[o].commits = Commits
=============================================================================
