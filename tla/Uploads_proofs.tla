--------------------------- MODULE Uploads_proofs ----------------------------
(***************************************************************************)
(* What resumable upload and document registration guarantee for any       *)
(* number of requests, uploads and documents and any document length: the  *)
(* types, that what is registered is what the client sent, and that the    *)
(* original among the documents of one content is read or being read.      *)
(***************************************************************************)
EXTENDS Uploads, SequenceTheorems, TLAPS

Chunks == Seq(1..Length)

-----------------------------------------------------------------------------
(* The bodies that clients send.                                           *)

LEMMA SourceTyped == /\ Source \in Chunks
                     /\ Len(Source) = Length
                     /\ \A i \in 1..Length : Source[i] = i
<1>1. Source \in [1..Length -> 1..Length]
  BY DEF Source
<1>2. Length \in Nat
  BY SizesAssumption
<1> QED BY <1>1, <1>2 DEF Source, Chunks

LEMMA BodyTyped ==
    ASSUME NEW from \in Nat, NEW upto \in {from} \cup from..Length
    PROVE  LET body == SubSeq(Source, from + 1, upto) IN
           /\ body \in Chunks
           /\ Len(body) = upto - from
           /\ \A i \in 1..Len(body) : body[i] = from + i
<1> DEFINE body == SubSeq(Source, from + 1, upto)
<1>1. Length \in Nat /\ from + 1 \in Int /\ upto \in Nat /\ upto \in Int
  BY SizesAssumption
<1>2. \A i \in (from + 1)..upto : Source[i] \in 1..Length /\ Source[i] = i
  BY <1>1, SourceTyped
<1>3. /\ body \in Seq(1..Length)
      /\ Len(body) = IF from + 1 <= upto THEN upto - (from + 1) + 1 ELSE 0
      /\ \A i \in 1..(upto - (from + 1) + 1) : body[i] = Source[(from + 1) + i - 1]
  BY <1>1, <1>2, SubSeqProperties
<1>4. Len(body) = upto - from
  BY <1>1, <1>3
<1>5. \A i \in 1..Len(body) : body[i] = from + i
  <2> TAKE i \in 1..Len(body)
  <2> HIDE DEF body
  <2>1. i \in 1..(upto - (from + 1) + 1) /\ (from + 1) + i - 1 = from + i /\ from + i \in (from + 1)..upto
    BY <1>1, <1>4
  <2> QED BY <2>1, <1>2, <1>3
<1> QED BY <1>3, <1>4, <1>5 DEF Chunks

-----------------------------------------------------------------------------
(* Types.  What the requests, the queue and the worker hold is always a    *)
(* document they may still commit.                                         *)

Jobs == [pc : PCs, upload : UploadIds \cup {None}, bytes : Seq(1..Length), offset : Nat,
         doc : Docs \cup {None}]

LEMMA LoadedTyped ==
    ASSUME NEW u \in UploadIds, NEW body \in Seq(1..Length)
    PROVE  [pc |-> "loaded", upload |-> u, bytes |-> body, offset |-> 0, doc |-> None] \in Jobs
BY DEF Jobs, PCs

RequestOK(r) ==
    /\ job[r].pc # "idle" => job[r].upload \in UploadIds
    /\ job[r].upload \in UploadIds => mode[job[r].upload] # "unused"
    /\ job[r].pc \in OnLoop =>
        /\ job[r].doc \in Registered
        /\ job[r].doc \notin queue
        /\ job[r].doc # working
    /\ job[r].pc = "registered" => doc[job[r].doc].commits = 0
    /\ job[r].pc = "processing" => doc[job[r].doc].commits < Commits

LoopExclusive ==
    \A r, s \in Requests : job[r].pc \in OnLoop /\ job[s].pc \in OnLoop => r = s

WorkInv ==
    /\ TypeOK
    /\ \A r \in Requests : RequestOK(r)
    /\ LoopExclusive
    /\ \A d \in queue : d \in Registered /\ doc[d].commits = 0 /\ d # working
    /\ working # None => working \in Registered /\ doc[working].commits < Commits
    /\ \A u \in UploadIds : mode[u] = "unused" => ~saved[u].exists

LEMMA WorkInit == Init => WorkInv
<1>1. << >> \in Seq(1..Length)
  BY EmptySeq
<1>2. 0 \in 0..Commits /\ 0 \in Nat
  BY SizesAssumption
<1> QED BY <1>1, <1>2, NoneAssumption
        DEF Init, WorkInv, TypeOK, RequestOK, LoopExclusive, Registered, OnLoop, NoFile, NoState, NoDoc,
            Statuses, PCs, Idle

\* The steps that move a request without touching what it works on

LEMMA WorkCreate ==
    ASSUME WorkInv, NEW u \in UploadIds, NEW how \in {"sync", "async"}, Create(u, how) PROVE WorkInv'
<1>1. << >> \in Seq(1..Length)
  BY EmptySeq
<1> USE DEF WorkInv, Create, tables
<1>2. TypeOK'
  BY <1>1 DEF TypeOK
<1>3. \A r \in Requests : RequestOK(r)'
  BY DEF TypeOK, RequestOK, Registered
<1>4. LoopExclusive'
  BY DEF LoopExclusive
<1>5. \A v \in UploadIds : mode'[v] = "unused" => ~saved'[v].exists
  BY DEF TypeOK
<1> QED BY <1>2, <1>3, <1>4, <1>5 DEF Registered

LEMMA WorkLoad ==
    ASSUME WorkInv, NEW r \in Requests, NEW u \in UploadIds, NEW from \in 0..MaxSize,
           NEW upto \in {from} \cup from..Length, PatchLoad(r, u, from, upto)
    PROVE  WorkInv'
<1> USE DEF WorkInv, PatchLoad, files, tables
<1>1. SubSeq(Source, from + 1, upto) \in Seq(1..Length)
  BY BodyTyped, SizesAssumption DEF Chunks
<1>2. job'[r] = [pc |-> "loaded", upload |-> u, bytes |-> SubSeq(Source, from + 1, upto),
                 offset |-> 0, doc |-> None]
  BY DEF TypeOK, Idle
<1>3. \A s \in Requests \ {r} : job'[s] = job[s]
  BY DEF TypeOK
<1>4. TypeOK'
  <2>1. job'[r] \in Jobs
    BY <1>1, <1>2, LoadedTyped
  <2>2. job' \in [Requests -> Jobs]
    BY <2>1 DEF TypeOK, Jobs
  <2>3. disturbed' \subseteq UploadIds
    BY DEF TypeOK
  <2> QED BY <2>2, <2>3 DEF TypeOK, Jobs
<1>5. \A s \in Requests : RequestOK(s)'
  BY <1>2, <1>3 DEF TypeOK, RequestOK, Registered, OnLoop
<1>6. LoopExclusive'
  BY <1>2, <1>3 DEF LoopExclusive, OnLoop
<1> QED BY <1>4, <1>5, <1>6 DEF Registered

\* A request takes a step that leaves the tables, the modes and the other
\* requests alone and does not enter the event loop
LEMMA WorkRequest ==
    ASSUME WorkInv, NEW r \in Requests, UNCHANGED <<doc, queue, working, mode, interrupted>>,
           job' \in [Requests -> Jobs],
           \A s \in Requests \ {r} : job'[s] = job[s],
           job'[r].pc \notin OnLoop,
           job'[r].pc # "idle" => job'[r].upload \in UploadIds,
           job'[r].upload \in {None, job[r].upload},
           part' \in [UploadIds -> [exists : BOOLEAN, bytes : Seq(1..Length)]],
           saved' \in [UploadIds -> [exists : BOOLEAN, offset : Nat]],
           \A u \in UploadIds : saved'[u].exists => saved[u].exists \/ u = job[r].upload,
           disturbed' \subseteq UploadIds
    PROVE  WorkInv'
<1> USE DEF WorkInv
<1>1. TypeOK'
  BY DEF TypeOK, Jobs
<1>2. \A s \in Requests : RequestOK(s)'
  <2> TAKE s \in Requests
  <2>1. CASE s # r
    BY <2>1 DEF RequestOK, Registered
  <2>2. CASE s = r
    BY <2>2, NoneAssumption DEF RequestOK, OnLoop, TypeOK
  <2> QED BY <2>1, <2>2
<1>3. LoopExclusive'
  BY DEF LoopExclusive
<1>4. \A u \in UploadIds : mode'[u] = "unused" => ~saved'[u].exists
  BY DEF TypeOK, RequestOK
<1> QED BY <1>1, <1>2, <1>3, <1>4 DEF Registered

LEMMA IdleTyped == Idle \in Jobs
<1>1. << >> \in Seq(1..Length)
  BY EmptySeq
<1> QED BY <1>1 DEF Idle, Jobs, PCs

\* A request that ends
LEMMA WorkFinish ==
    ASSUME WorkInv, NEW r \in Requests, Finish(r), UNCHANGED <<doc, queue, working, mode, interrupted>>,
           part' \in [UploadIds -> [exists : BOOLEAN, bytes : Seq(1..Length)]],
           saved' \in [UploadIds -> [exists : BOOLEAN, offset : Nat]],
           \A u \in UploadIds : saved'[u].exists => saved[u].exists \/ u = job[r].upload,
           disturbed' \subseteq UploadIds
    PROVE  WorkInv'
<1>1. job \in [Requests -> Jobs]
  BY DEF WorkInv, TypeOK, Jobs
<1>2. job' \in [Requests -> Jobs] /\ job'[r] = Idle /\ \A s \in Requests \ {r} : job'[s] = job[s]
  BY <1>1, IdleTyped DEF Finish
<1>3. Idle.pc = "idle" /\ Idle.upload = None
  BY DEF Idle
<1> QED BY <1>2, <1>3, WorkRequest DEF OnLoop

LEMMA WorkPatch ==
    ASSUME WorkInv, NEW r \in Requests,
           PatchAppend(r) \/ PatchRefused(r) \/ PatchMeasure(r) \/ PatchSave(r)
    PROVE  WorkInv'
<1> USE DEF files, tables
<1>1. /\ part \in [UploadIds -> [exists : BOOLEAN, bytes : Seq(1..Length)]]
      /\ saved \in [UploadIds -> [exists : BOOLEAN, offset : Nat]]
      /\ disturbed \subseteq UploadIds
      /\ job \in [Requests -> Jobs]
  BY DEF WorkInv, TypeOK, Jobs
<1>2. /\ job[r].pc \in PCs /\ job[r].bytes \in Seq(1..Length) /\ job[r].offset \in Nat
      /\ job[r].upload \in UploadIds \cup {None} /\ job[r].doc \in Docs \cup {None}
      /\ job[r].pc # "idle" => job[r].upload \in UploadIds
  BY <1>1 DEF Jobs, WorkInv, RequestOK
<1>3. ASSUME PatchAppend(r) PROVE WorkInv'
  <2>1. job[r].upload \in UploadIds
    BY <1>2, <1>3 DEF PatchAppend
  <2>2. << >> \in Seq(1..Length)
    BY EmptySeq
  <2>3. job' = [job EXCEPT ![r] = [job[r] EXCEPT !.pc = "appended", !.bytes = << >>]]
    BY <1>1, <1>3 DEF PatchAppend, Jobs
  <2>4. [job[r] EXCEPT !.pc = "appended", !.bytes = << >>] \in Jobs
    BY <1>1, <2>2 DEF Jobs, PCs
  <2>5. /\ job' \in [Requests -> Jobs] /\ \A s \in Requests \ {r} : job'[s] = job[s]
        /\ job'[r].pc = "appended" /\ job'[r].upload = job[r].upload
    BY <1>1, <2>3, <2>4 DEF Jobs
  <2>6. part[job[r].upload].bytes \o job[r].bytes \in Seq(1..Length)
    BY <1>1, <1>2, <2>1, ConcatProperties
  <2>7. part' \in [UploadIds -> [exists : BOOLEAN, bytes : Seq(1..Length)]]
    BY <1>1, <1>3, <2>1, <2>6 DEF PatchAppend
  <2>8. UNCHANGED <<doc, queue, working, mode, interrupted, saved, disturbed>>
    BY <1>3 DEF PatchAppend
  <2> QED BY <1>1, <2>1, <2>5, <2>7, <2>8, WorkRequest DEF OnLoop
<1>4. ASSUME PatchRefused(r) PROVE WorkInv'
  BY <1>1, <1>4, WorkFinish DEF PatchRefused
<1>5. ASSUME PatchMeasure(r) PROVE WorkInv'
  <2>1. job[r].upload \in UploadIds
    BY <1>2, <1>5 DEF PatchMeasure
  <2>2. CASE Part(r).exists
    <3>1. Len(Part(r).bytes) \in Nat
      BY <1>1, <2>1, LenProperties DEF Part
    <3>2. job' = [job EXCEPT ![r] = [job[r] EXCEPT !.pc = "measured", !.offset = Len(Part(r).bytes)]]
      BY <1>1, <1>5, <2>2 DEF PatchMeasure, Jobs
    <3>3. [job[r] EXCEPT !.pc = "measured", !.offset = Len(Part(r).bytes)] \in Jobs
      BY <1>1, <3>1 DEF Jobs, PCs
    <3>4. /\ job' \in [Requests -> Jobs] /\ \A s \in Requests \ {r} : job'[s] = job[s]
          /\ job'[r].pc = "measured" /\ job'[r].upload = job[r].upload
      BY <1>1, <3>2, <3>3 DEF Jobs
    <3> QED BY <1>1, <1>5, <2>1, <3>4, WorkRequest DEF OnLoop, PatchMeasure
  <2>3. CASE ~Part(r).exists
    BY <1>1, <1>5, <2>3, WorkFinish DEF PatchMeasure
  <2> QED BY <2>2, <2>3
<1>6. ASSUME PatchSave(r) PROVE WorkInv'
  <2>1. job[r].upload \in UploadIds
    BY <1>2, <1>6 DEF PatchSave
  <2>2. /\ saved' \in [UploadIds -> [exists : BOOLEAN, offset : Nat]]
        /\ \A u \in UploadIds : saved'[u].exists => saved[u].exists \/ u = job[r].upload
    BY <1>1, <1>2, <1>6, <2>1 DEF PatchSave
  <2>3. UNCHANGED <<doc, queue, working, mode, interrupted, part, disturbed>>
    BY <1>6 DEF PatchSave
  <2>4. CASE job[r].offset >= Length
    <3>1. job' = [job EXCEPT ![r] = [job[r] EXCEPT !.pc = "finalizing", !.offset = 0]]
      BY <1>1, <1>6, <2>4 DEF PatchSave, Jobs
    <3>2. [job[r] EXCEPT !.pc = "finalizing", !.offset = 0] \in Jobs
      BY <1>1 DEF Jobs, PCs
    <3>3. /\ job' \in [Requests -> Jobs] /\ \A s \in Requests \ {r} : job'[s] = job[s]
          /\ job'[r].pc = "finalizing" /\ job'[r].upload = job[r].upload
      BY <1>1, <3>1, <3>2 DEF Jobs
    <3> QED BY <1>1, <2>1, <2>2, <2>3, <3>3, WorkRequest DEF OnLoop
  <2>5. CASE ~(job[r].offset >= Length)
    BY <1>1, <1>6, <2>2, <2>3, <2>5, WorkFinish DEF PatchSave
  <2> QED BY <2>4, <2>5
<1> QED BY <1>3, <1>4, <1>5, <1>6

LEMMA WorkFinalize ==
    ASSUME WorkInv, NEW r \in Requests, FinalizeRead(r) \/ FinalizeRefused(r) \/ Cleanup(r) PROVE WorkInv'
<1> USE DEF files, tables
<1>1. /\ part \in [UploadIds -> [exists : BOOLEAN, bytes : Seq(1..Length)]]
      /\ saved \in [UploadIds -> [exists : BOOLEAN, offset : Nat]]
      /\ disturbed \subseteq UploadIds
      /\ job \in [Requests -> Jobs]
      /\ job[r].pc # "idle" => job[r].upload \in UploadIds
  BY DEF WorkInv, TypeOK, Jobs, RequestOK
<1>2. ASSUME FinalizeRead(r) PROVE WorkInv'
  <2>1. CASE Part(r).exists
    <3>1. job[r].upload \in UploadIds
      BY <1>1, <1>2 DEF FinalizeRead
    <3>2. Part(r).bytes \in Seq(1..Length)
      BY <1>1, <3>1 DEF Part
    <3>3. job' = [job EXCEPT ![r] = [job[r] EXCEPT !.pc = "extracting", !.bytes = Part(r).bytes]]
      BY <1>1, <1>2, <2>1 DEF FinalizeRead, Jobs
    <3>4. [job[r] EXCEPT !.pc = "extracting", !.bytes = Part(r).bytes] \in Jobs
      BY <1>1, <3>2 DEF Jobs, PCs
    <3>5. /\ job' \in [Requests -> Jobs] /\ \A s \in Requests \ {r} : job'[s] = job[s]
          /\ job'[r].pc = "extracting" /\ job'[r].upload = job[r].upload
      BY <1>1, <3>3, <3>4 DEF Jobs
    <3> QED BY <1>1, <1>2, <3>1, <3>5, WorkRequest DEF OnLoop, FinalizeRead
  <2>2. CASE ~Part(r).exists
    BY <1>1, <1>2, <2>2, WorkFinish DEF FinalizeRead
  <2> QED BY <2>1, <2>2
<1>3. ASSUME FinalizeRefused(r) PROVE WorkInv'
  BY <1>1, <1>3, WorkFinish DEF FinalizeRefused
<1>4. ASSUME Cleanup(r) PROVE WorkInv'
  <2>1. << >> \in Seq(1..Length)
    BY EmptySeq
  <2>2. part' \in [UploadIds -> [exists : BOOLEAN, bytes : Seq(1..Length)]]
    BY <1>1, <1>4, <2>1 DEF Cleanup, NoFile
  <2>3. /\ saved' \in [UploadIds -> [exists : BOOLEAN, offset : Nat]]
        /\ \A u \in UploadIds : saved'[u].exists => saved[u].exists
    BY <1>1, <1>4 DEF Cleanup, NoState
  <2> QED BY <1>1, <1>4, <2>2, <2>3, WorkFinish DEF Cleanup
<1> QED BY <1>2, <1>3, <1>4

LEMMA WorkSweep ==
    ASSUME WorkInv, NEW u \in UploadIds, SweepPart(u) \/ SweepState(u) PROVE WorkInv'
<1> USE DEF files, tables
<1>1. << >> \in Seq(1..Length)
  BY EmptySeq
<1> /\ part \in [UploadIds -> [exists : BOOLEAN, bytes : Seq(1..Length)]]
    /\ saved \in [UploadIds -> [exists : BOOLEAN, offset : Nat]]
  BY DEF WorkInv, TypeOK
<1>2. part' \in [UploadIds -> [exists : BOOLEAN, bytes : Seq(1..Length)]]
  <2>1. CASE SweepPart(u)
    <3>1. part' = [part EXCEPT ![u] = [exists |-> FALSE, bytes |-> << >>]]
      BY <2>1 DEF SweepPart, NoFile
    <3>2. [exists |-> FALSE, bytes |-> << >>] \in [exists : BOOLEAN, bytes : Seq(1..Length)]
      BY <1>1
    <3> QED BY <3>1, <3>2
  <2>2. CASE SweepState(u)
    BY <2>2 DEF SweepState
  <2> QED BY <2>1, <2>2
<1>3. /\ saved' \in [UploadIds -> [exists : BOOLEAN, offset : Nat]]
      /\ \A v \in UploadIds : saved'[v].exists => saved[v].exists
  <2>1. CASE SweepPart(u)
    BY <2>1 DEF SweepPart
  <2>2. CASE SweepState(u)
    BY <2>2 DEF SweepState, NoState
  <2> QED BY <2>1, <2>2
<1>4. UNCHANGED <<mode, doc, queue, working, job, disturbed, interrupted>>
  BY DEF SweepPart, SweepState
<1>5. TypeOK'
  BY <1>2, <1>3, <1>4 DEF WorkInv, TypeOK
<1>6. \A r \in Requests : RequestOK(r)'
  BY <1>4 DEF WorkInv, RequestOK, Registered
<1>7. LoopExclusive'
  BY <1>4 DEF WorkInv, LoopExclusive
<1> QED BY <1>3, <1>4, <1>5, <1>6, <1>7 DEF WorkInv, Registered

LEMMA WorkCrash == ASSUME WorkInv, Crash PROVE WorkInv'
<1> USE DEF files, tables
<1>1. job' \in [Requests -> Jobs] /\ \A r \in Requests : job'[r] = Idle
  BY IdleTyped DEF Crash
<1>2. Idle.pc = "idle" /\ Idle.upload = None
  BY DEF Idle
<1>3. \A r \in Requests : /\ job[r].pc \in {"appended", "measured"} => job[r].upload \in UploadIds
                          /\ job[r].pc \in OnLoop => job[r].doc \in Docs
  BY DEF WorkInv, RequestOK, Registered
<1>4. disturbed' \subseteq UploadIds /\ interrupted' \subseteq Docs
  <2>1. disturbed \subseteq UploadIds /\ interrupted \subseteq Docs
    BY DEF WorkInv, TypeOK
  <2>2. \A r \in {s \in Requests : job[s].pc \in {"appended", "measured"}} : job[r].upload \in UploadIds
    BY <1>3
  <2>3. \A r \in {s \in Requests : job[s].pc \in OnLoop} : job[r].doc \in Docs
    BY <1>3
  <2>4. /\ disturbed' = disturbed \cup {job[r].upload : r \in {s \in Requests : job[s].pc \in {"appended", "measured"}}}
        /\ interrupted' = interrupted \cup {job[r].doc : r \in {s \in Requests : job[s].pc \in OnLoop}}
    BY DEF Crash
  <2>5. {job[r].upload : r \in {s \in Requests : job[s].pc \in {"appended", "measured"}}} \subseteq UploadIds
    BY <2>2
  <2>6. {job[r].doc : r \in {s \in Requests : job[s].pc \in OnLoop}} \subseteq Docs
    BY <2>3
  <2> QED BY <2>1, <2>4, <2>5, <2>6
<1>5. UNCHANGED <<part, saved, mode, doc, queue, working>>
  BY DEF Crash
<1>6. TypeOK'
  BY <1>1, <1>4, <1>5 DEF WorkInv, TypeOK, Jobs
<1>7. \A r \in Requests : RequestOK(r)'
  BY <1>1, <1>2, NoneAssumption DEF RequestOK, OnLoop
<1>8. LoopExclusive'
  BY <1>1, <1>2 DEF LoopExclusive, OnLoop
<1> QED BY <1>5, <1>6, <1>7, <1>8 DEF WorkInv, Registered

\* What registration does to the table of documents
RowOf(u, content, blank) ==
    [status |-> IF Known(content) THEN "duplicate" ELSE IF mode[u] = "async" THEN "pending" ELSE "done",
     content |-> content, upload |-> u, original |-> ~Known(content), blank |-> blank,
     commits |-> 0]

LEMMA RegisterStep ==
    ASSUME WorkInv, NEW r \in Requests, NEW blank \in BOOLEAN, Register(r, blank)
    PROVE  /\ NewDoc \in Docs /\ NewDoc \notin Registered
           /\ Registered' = Registered \cup {NewDoc}
           /\ doc'[NewDoc] = RowOf(job[r].upload, job[r].bytes, blank)
           /\ \A d \in Docs \ {NewDoc} : doc'[d] = doc[d]
           /\ doc' \in [Docs -> [status : Statuses, content : Seq(1..Length), upload : UploadIds \cup {None},
                                 original : BOOLEAN, blank : BOOLEAN, commits : 0..Commits]]
           /\ job[r].upload \in UploadIds
           /\ job' \in [Requests -> Jobs]
           /\ \A s \in Requests \ {r} : job'[s] = job[s] /\ job[s].pc \notin OnLoop
           /\ job'[r].pc = IF mode[job[r].upload] = "async" THEN "registered"
                           ELSE IF Known(job[r].bytes) \/ blank THEN "cleanup" ELSE "processing"
           /\ job'[r].upload = job[r].upload /\ job'[r].doc = NewDoc
           /\ UNCHANGED <<part, saved, mode, queue, working, disturbed, interrupted>>
<1> DEFINE u == job[r].upload
           n == NewDoc
<1> USE DEF WorkInv, TypeOK
<1>1. n \in Docs /\ doc[n].status = "absent"
  <2>1. \E d \in Docs : doc[d].status = "absent"
    BY DEF Register, Registered
  <2> QED BY <2>1 DEF NewDoc
<1>2. u \in UploadIds /\ job[r].bytes \in Seq(1..Length)
  BY DEF Register, RequestOK
<1> HIDE DEF u, n
<1>3. RowOf(u, job[r].bytes, blank) \in [status : Statuses, content : Seq(1..Length), upload : UploadIds \cup {None},
                                  original : BOOLEAN, blank : BOOLEAN, commits : 0..Commits]
  <2>1. 0 \in 0..Commits
    BY SizesAssumption
  <2>2. (IF Known(job[r].bytes) THEN "duplicate" ELSE IF mode[u] = "async" THEN "pending" ELSE "done") \in Statuses
    BY DEF Statuses
  <2>3. (~Known(job[r].bytes)) \in BOOLEAN
    OBVIOUS
  <2> HIDE DEF WorkInv, TypeOK
  <2> QED BY <1>2, <2>1, <2>2, <2>3 DEF RowOf
<1>4. doc' = [doc EXCEPT ![n] = RowOf(u, job[r].bytes, blank)]
  BY DEF Register, RowOf, u, n
<1>5. \A d \in Docs \ {n} : doc'[d] = doc[d]
  BY <1>4
<1>6. doc'[n] = RowOf(u, job[r].bytes, blank)
  BY <1>1, <1>4
<1>7. doc'[n].status # "absent"
  BY <1>6 DEF RowOf
<1>8. Registered' = Registered \cup {n} /\ n \notin Registered
  BY <1>1, <1>5, <1>7 DEF Registered
<1>9. doc' \in [Docs -> [status : Statuses, content : Seq(1..Length), upload : UploadIds \cup {None},
                         original : BOOLEAN, blank : BOOLEAN, commits : 0..Commits]]
  BY <1>3, <1>4
<1>10. \A s \in Requests \ {r} : job[s].pc \notin OnLoop
  BY DEF Register, LoopFree
<1>11. PICK after : after = IF mode[u] = "async" THEN "registered"
                            ELSE IF Known(job[r].bytes) \/ blank THEN "cleanup" ELSE "processing"
  OBVIOUS
<1>12. after \in PCs
  BY <1>11 DEF PCs
<1>13. job' = [job EXCEPT ![r] = [job[r] EXCEPT !.pc = after, !.bytes = << >>, !.doc = n]]
  BY <1>11 DEF Register, u, n
<1>14. job \in [Requests -> Jobs] /\ << >> \in Seq(1..Length)
  BY EmptySeq DEF Jobs
<1> HIDE DEF WorkInv, TypeOK
<1>15. [job[r] EXCEPT !.pc = after, !.bytes = << >>, !.doc = n] \in Jobs
  BY <1>1, <1>12, <1>14 DEF Jobs
<1>16. /\ job' \in [Requests -> Jobs] /\ \A s \in Requests \ {r} : job'[s] = job[s]
       /\ job'[r].pc = after /\ job'[r].upload = u /\ job'[r].doc = n
  BY <1>13, <1>14, <1>15 DEF Jobs, u
<1>17. UNCHANGED <<part, saved, mode, queue, working, disturbed, interrupted>>
  BY DEF Register, files
<1> QED BY <1>1, <1>2, <1>5, <1>6, <1>8, <1>9, <1>10, <1>11, <1>16, <1>17 DEF u, n

LEMMA WorkRegister == ASSUME WorkInv, NEW r \in Requests, NEW blank \in BOOLEAN, Register(r, blank) PROVE WorkInv'
<1>1. PICK n : n = NewDoc
  OBVIOUS
<1>2. /\ n \in Docs /\ n \notin Registered
      /\ Registered' = Registered \cup {n}
      /\ doc'[n].commits = 0
      /\ \A d \in Docs \ {n} : doc'[d] = doc[d]
      /\ \A s \in Requests \ {r} : job'[s] = job[s] /\ job[s].pc \notin OnLoop
      /\ job'[r].upload = job[r].upload /\ job'[r].doc = n /\ job[r].upload \in UploadIds
      /\ UNCHANGED <<part, saved, mode, queue, working, disturbed, interrupted>>
  <2>1. RowOf(job[r].upload, job[r].bytes, blank).commits = 0
    BY DEF RowOf
  <2> QED BY <1>1, <2>1, RegisterStep
<1>3. Registered \subseteq Docs /\ 0 < Commits
  BY SizesAssumption DEF Registered
<1>4. n \notin queue /\ n # working
  BY <1>2, NoneAssumption DEF WorkInv
<1>5. TypeOK'
  <2>1. /\ doc' \in [Docs -> [status : Statuses, content : Seq(1..Length), upload : UploadIds \cup {None},
                              original : BOOLEAN, blank : BOOLEAN, commits : 0..Commits]]
        /\ job' \in [Requests -> Jobs]
    BY RegisterStep
  <2> QED BY <1>2, <2>1 DEF WorkInv, TypeOK, Jobs
<1>6. \A s \in Requests : RequestOK(s)'
  <2> TAKE s \in Requests
  <2>1. CASE s = r
    <3>1. mode[job[r].upload] # "unused"
      BY <1>2 DEF WorkInv, RequestOK
    <3> QED BY <1>2, <1>3, <1>4, <2>1, <3>1 DEF RequestOK
  <2>2. CASE s # r
    BY <1>2, <2>2 DEF WorkInv, RequestOK, OnLoop
  <2> QED BY <2>1, <2>2
<1>7. LoopExclusive'
  BY <1>2 DEF LoopExclusive
<1>8. \A d \in Registered : d \in Registered' /\ doc'[d] = doc[d]
  BY <1>2, <1>3
<1> QED BY <1>2, <1>5, <1>6, <1>7, <1>8 DEF WorkInv

LEMMA WorkEnqueue == ASSUME WorkInv, NEW r \in Requests, Enqueue(r) PROVE WorkInv'
<1>1. /\ job \in [Requests -> Jobs]
      /\ job' = [job EXCEPT ![r] = [job[r] EXCEPT !.pc = "cleanup"]]
  BY DEF WorkInv, TypeOK, Jobs, Enqueue, Goto
<1>2. [job[r] EXCEPT !.pc = "cleanup"] \in Jobs
  BY <1>1 DEF Jobs, PCs
<1>3. /\ job' \in [Requests -> Jobs] /\ \A s \in Requests \ {r} : job'[s] = job[s]
      /\ job'[r].pc = "cleanup" /\ job'[r].upload = job[r].upload
  BY <1>1, <1>2 DEF Jobs
<1>4. /\ job[r].pc = "registered" /\ queue' = queue \cup {job[r].doc}
      /\ UNCHANGED <<part, saved, mode, doc, working, disturbed, interrupted>>
  BY DEF Enqueue, files
<1>5. job[r].doc \in Registered /\ job[r].doc # working /\ doc[job[r].doc].commits = 0
  BY <1>4 DEF WorkInv, RequestOK, OnLoop
<1>6. TypeOK'
  BY <1>3, <1>4, <1>5 DEF WorkInv, TypeOK, Jobs, Registered
<1>7. \A s \in Requests \ {r} : job[s].pc \notin OnLoop
  BY <1>4 DEF WorkInv, LoopExclusive, OnLoop
<1>8. \A s \in Requests : RequestOK(s)'
  <2> TAKE s \in Requests
  <2>1. CASE s = r
    BY <1>3, <1>4, <2>1 DEF WorkInv, RequestOK, OnLoop
  <2>2. CASE s # r
    BY <1>3, <1>4, <1>7, <2>2 DEF WorkInv, RequestOK, OnLoop
  <2> QED BY <2>1, <2>2
<1>9. LoopExclusive'
  BY <1>3 DEF WorkInv, LoopExclusive, OnLoop
<1>10. Registered' = Registered
  BY <1>4 DEF Registered
<1> QED BY <1>4, <1>5, <1>6, <1>8, <1>9, <1>10 DEF WorkInv

\* One commit of process_text, by a request or by the worker
Rows == [status : Statuses, content : Seq(1..Length), upload : UploadIds \cup {None},
         original : BOOLEAN, blank : BOOLEAN, commits : 0..Commits]

CommittedTo(d) ==
    /\ doc' \in [Docs -> Rows]
    /\ \A e \in Docs \ {d} : doc'[e] = doc[e]
    /\ doc'[d].status = "done" /\ doc'[d].commits = doc[d].commits + 1
    /\ doc'[d].content = doc[d].content /\ doc'[d].upload = doc[d].upload
    /\ doc'[d].original = doc[d].original /\ doc'[d].blank = doc[d].blank
    /\ Registered' = Registered

LEMMA CommitStep ==
    ASSUME WorkInv, NEW d \in Registered, doc[d].commits < Commits,
           doc' = [doc EXCEPT ![d] = Committed(@)]
    PROVE  CommittedTo(d)
<1>1. d \in Docs /\ doc \in [Docs -> Rows] /\ doc[d].commits \in 0..Commits
  BY DEF Registered, WorkInv, TypeOK, Rows
<1>2. PICK row : row = [doc[d] EXCEPT !.status = "done", !.commits = doc[d].commits + 1]
  OBVIOUS
<1>3. Commits \in Nat
  BY SizesAssumption
<1>4. doc' = [doc EXCEPT ![d] = row]
  BY <1>2 DEF Committed
<1>5. doc[d] \in Rows
  BY <1>1
<1>6. /\ row \in Rows
      /\ row.status = "done" /\ row.commits = doc[d].commits + 1
      /\ row.content = doc[d].content /\ row.upload = doc[d].upload /\ row.original = doc[d].original /\ row.blank = doc[d].blank
  <2>1. PICK n : n = doc[d].commits + 1
    OBVIOUS
  <2>2. n \in 0..Commits
    BY <1>1, <1>3, <2>1
  <2>3. row = [doc[d] EXCEPT !.status = "done", !.commits = n]
    BY <1>2, <2>1
  <2>4. row \in Rows /\ row.status = "done" /\ row.commits = n
        /\ row.content = doc[d].content /\ row.upload = doc[d].upload /\ row.original = doc[d].original /\ row.blank = doc[d].blank
    BY <1>5, <2>2, <2>3 DEF Rows, Statuses
  <2> QED BY <2>1, <2>4
<1>7. /\ doc' \in [Docs -> Rows] /\ doc'[d] = row
      /\ \A e \in Docs \ {d} : doc'[e] = doc[e]
  BY <1>1, <1>4, <1>6
<1>8. Registered' = Registered
  BY <1>1, <1>6, <1>7 DEF Registered
<1> QED BY <1>6, <1>7, <1>8 DEF CommittedTo

LEMMA WorkCommit == ASSUME WorkInv, NEW r \in Requests, ProcessCommit(r) PROVE WorkInv'
<1>1. PICK d : d = job[r].doc
  OBVIOUS
<1>2. /\ job[r].pc = "processing" /\ doc' = [doc EXCEPT ![d] = Committed(@)]
      /\ Goto(r, IF doc[d].commits + 1 = Commits THEN "cleanup" ELSE "processing")
      /\ UNCHANGED <<part, saved, mode, queue, working, disturbed, interrupted>>
  BY <1>1 DEF ProcessCommit, files
<1>3. d \in Registered /\ d \notin queue /\ d # working /\ doc[d].commits < Commits
  BY <1>1, <1>2 DEF WorkInv, RequestOK, OnLoop
<1>4. CommittedTo(d)
  BY <1>2, <1>3, CommitStep
<1>5. doc[d].commits \in Nat /\ Commits \in Nat
  BY <1>3, SizesAssumption DEF Registered, WorkInv, TypeOK
<1>6. PICK after : after = IF doc[d].commits + 1 = Commits THEN "cleanup" ELSE "processing"
  OBVIOUS
<1>7. /\ job \in [Requests -> Jobs] /\ job' = [job EXCEPT ![r] = [job[r] EXCEPT !.pc = after]]
      /\ after \in {"cleanup", "processing"}
  BY <1>2, <1>6 DEF WorkInv, TypeOK, Jobs, Goto
<1>8. [job[r] EXCEPT !.pc = after] \in Jobs
  BY <1>7 DEF Jobs, PCs
<1>9. /\ job' \in [Requests -> Jobs] /\ \A s \in Requests \ {r} : job'[s] = job[s]
      /\ job'[r].pc = after /\ job'[r].upload = job[r].upload /\ job'[r].doc = d
  BY <1>1, <1>7, <1>8 DEF Jobs
<1>10. TypeOK'
  BY <1>2, <1>4, <1>9 DEF WorkInv, TypeOK, CommittedTo, Rows, Jobs
<1>11. \A s \in Requests \ {r} : job[s].pc \notin OnLoop
  BY <1>2 DEF WorkInv, LoopExclusive, OnLoop
<1>12. \A s \in Requests : RequestOK(s)'
  <2> TAKE s \in Requests
  <2>1. CASE s = r
    <3>1. after = "processing" => doc'[d].commits < Commits
      BY <1>3, <1>4, <1>5, <1>6 DEF CommittedTo
    <3>2. mode[job[r].upload] # "unused" \/ job[r].upload \notin UploadIds
      BY DEF WorkInv, RequestOK
    <3>3. job[r].upload \in UploadIds
      BY <1>2 DEF WorkInv, RequestOK
    <3> QED BY <1>2, <1>3, <1>4, <1>7, <1>9, <2>1, <3>1, <3>2, <3>3 DEF RequestOK, OnLoop, CommittedTo
  <2>2. CASE s # r
    BY <1>2, <1>9, <1>11, <2>2 DEF WorkInv, RequestOK, OnLoop
  <2> QED BY <2>1, <2>2
<1>13. LoopExclusive'
  BY <1>9, <1>11 DEF LoopExclusive
<1>14. \A e \in queue : e \in Docs \ {d}
  BY <1>3 DEF WorkInv, TypeOK
<1>15. working # None => working \in Docs \ {d}
  BY <1>3 DEF WorkInv, TypeOK
<1> QED BY <1>2, <1>4, <1>10, <1>12, <1>13, <1>14, <1>15 DEF WorkInv, CommittedTo

LEMMA WorkFails == ASSUME WorkInv, NEW r \in Requests, ProcessFails(r) PROVE WorkInv'
<1>1. job[r].doc \in Docs /\ job[r].pc = "processing"
  BY DEF ProcessFails, WorkInv, RequestOK, OnLoop, Registered
<1>2. /\ job \in [Requests -> Jobs] /\ job' = [job EXCEPT ![r] = Idle]
      /\ interrupted' = interrupted \cup {job[r].doc}
      /\ UNCHANGED <<part, saved, mode, doc, queue, working, disturbed>>
  BY DEF WorkInv, TypeOK, Jobs, ProcessFails, Finish, files, tables
<1>3. job' \in [Requests -> Jobs] /\ job'[r] = Idle /\ \A s \in Requests \ {r} : job'[s] = job[s]
  BY <1>2, IdleTyped
<1>4. Idle.pc = "idle" /\ Idle.upload = None
  BY DEF Idle
<1>5. TypeOK'
  BY <1>1, <1>2, <1>3 DEF WorkInv, TypeOK, Jobs
<1>6. \A s \in Requests : RequestOK(s)'
  BY <1>2, <1>3, <1>4, NoneAssumption DEF WorkInv, RequestOK, OnLoop, Registered
<1>7. LoopExclusive'
  BY <1>3, <1>4 DEF WorkInv, LoopExclusive, OnLoop
<1> QED BY <1>2, <1>5, <1>6, <1>7 DEF WorkInv, Registered

LEMMA WorkTake == ASSUME WorkInv, NEW d \in Docs, WorkerTake(d) PROVE WorkInv'
<1>1. /\ d \in queue /\ working' = d /\ queue' = queue \ {d}
      /\ UNCHANGED <<part, saved, mode, doc, job, disturbed, interrupted>>
  BY DEF WorkerTake, files
<1>2. d \in Registered /\ doc[d].commits < Commits
  BY <1>1, SizesAssumption DEF WorkInv
<1>3. TypeOK'
  BY <1>1 DEF WorkInv, TypeOK
<1>4. \A s \in Requests : RequestOK(s)'
  BY <1>1 DEF WorkInv, RequestOK, Registered
<1>5. LoopExclusive'
  BY <1>1 DEF WorkInv, LoopExclusive
<1> QED BY <1>1, <1>2, <1>3, <1>4, <1>5 DEF WorkInv, Registered

LEMMA WorkWorker == ASSUME WorkInv, WorkerCommit PROVE WorkInv'
<1>1. PICK d : d = working
  OBVIOUS
<1>2. /\ d # None /\ doc' = [doc EXCEPT ![d] = Committed(@)]
      /\ working' = IF doc[d].commits + 1 = Commits THEN None ELSE working
      /\ UNCHANGED <<part, saved, mode, queue, job, disturbed, interrupted>>
  BY <1>1 DEF WorkerCommit, files
<1>3. d \in Registered /\ doc[d].commits < Commits
  BY <1>1, <1>2 DEF WorkInv
<1>4. CommittedTo(d)
  BY <1>2, <1>3, CommitStep
<1>5. doc[d].commits \in Nat /\ Commits \in Nat
  BY <1>3, SizesAssumption DEF Registered, WorkInv, TypeOK
<1>6. TypeOK'
  BY <1>2, <1>4 DEF WorkInv, TypeOK, CommittedTo, Rows
<1>7. \A s \in Requests : RequestOK(s)'
  <2> TAKE s \in Requests
  <2>1. job[s].pc \in OnLoop => job[s].doc \in Docs \ {d} /\ job[s].doc # working' /\ job[s].doc \in Registered'
    BY <1>1, <1>2, <1>4, NoneAssumption DEF WorkInv, RequestOK, CommittedTo, Registered
  <2>2. job[s].pc \in OnLoop => doc'[job[s].doc] = doc[job[s].doc]
    BY <1>4, <2>1 DEF CommittedTo
  <2> QED BY <1>2, <2>1, <2>2 DEF WorkInv, RequestOK, OnLoop
<1>8. LoopExclusive'
  BY <1>2 DEF WorkInv, LoopExclusive
<1>9. \A e \in queue : e \in Docs \ {d} /\ e # working'
  BY <1>1, <1>2, NoneAssumption DEF WorkInv, TypeOK
<1>10. working' # None => working' \in Registered' /\ doc'[working'].commits < Commits
  BY <1>1, <1>2, <1>3, <1>4, <1>5 DEF CommittedTo
<1> QED BY <1>2, <1>4, <1>6, <1>7, <1>8, <1>9, <1>10 DEF WorkInv, CommittedTo

LEMMA WorkStops == ASSUME WorkInv, WorkerStops PROVE WorkInv'
<1>1. /\ working \in Docs /\ interrupted' = interrupted \cup {working} /\ working' = None
      /\ UNCHANGED <<part, saved, mode, doc, queue, job, disturbed>>
  BY DEF WorkerStops, WorkInv, TypeOK, files
<1>2. TypeOK'
  BY <1>1 DEF WorkInv, TypeOK
<1>3. \A s \in Requests : RequestOK(s)'
  <2> TAKE s \in Requests
  <2>1. job[s].pc \in OnLoop => job[s].doc # None
    BY NoneAssumption DEF WorkInv, RequestOK, Registered
  <2> QED BY <1>1, <2>1 DEF WorkInv, RequestOK, Registered
<1>4. LoopExclusive'
  BY <1>1 DEF WorkInv, LoopExclusive
<1>5. \A d \in queue : d # None
  BY NoneAssumption DEF WorkInv, TypeOK
<1> QED BY <1>1, <1>2, <1>3, <1>4, <1>5 DEF WorkInv, Registered

LEMMA WorkInductive == Init /\ [][Next]_vars => []WorkInv
<1>1. Init => WorkInv
  BY WorkInit
<1>2. WorkInv /\ [Next]_vars => WorkInv'
  <2> SUFFICES ASSUME WorkInv, [Next]_vars PROVE WorkInv'
    OBVIOUS
  <2>1. ASSUME NEW u \in UploadIds, NEW how \in {"sync", "async"}, Create(u, how) PROVE WorkInv'
    BY <2>1, WorkCreate
  <2>2. ASSUME NEW u \in UploadIds, NEW r \in Requests, NEW from \in 0..MaxSize,
               NEW upto \in {from} \cup from..Length, PatchLoad(r, u, from, upto)
        PROVE  WorkInv'
    BY <2>2, WorkLoad
  <2>3. ASSUME NEW u \in UploadIds, SweepPart(u) \/ SweepState(u) PROVE WorkInv'
    BY <2>3, WorkSweep
  <2>4. ASSUME NEW r \in Requests, PatchAppend(r) \/ PatchRefused(r) \/ PatchMeasure(r) \/ PatchSave(r)
        PROVE  WorkInv'
    BY <2>4, WorkPatch
  <2>5. ASSUME NEW r \in Requests, FinalizeRead(r) \/ FinalizeRefused(r) \/ Cleanup(r) PROVE WorkInv'
    BY <2>5, WorkFinalize
  <2>6. ASSUME NEW r \in Requests, NEW blank \in BOOLEAN, Register(r, blank) PROVE WorkInv'
    BY <2>6, WorkRegister
  <2>7. ASSUME NEW r \in Requests, Enqueue(r) PROVE WorkInv'
    BY <2>7, WorkEnqueue
  <2>8. ASSUME NEW r \in Requests, ProcessCommit(r) PROVE WorkInv'
    BY <2>8, WorkCommit
  <2>9. ASSUME NEW r \in Requests, ProcessFails(r) PROVE WorkInv'
    BY <2>9, WorkFails
  <2>10. ASSUME NEW d \in Docs, WorkerTake(d) PROVE WorkInv'
    BY <2>10, WorkTake
  <2>11. CASE WorkerCommit
    BY <2>11, WorkWorker
  <2>12. CASE WorkerStops
    BY <2>12, WorkStops
  <2>13. CASE Crash
    BY <2>13, WorkCrash
  <2>14. CASE UNCHANGED vars
    BY <2>14 DEF vars, WorkInv, TypeOK, RequestOK, LoopExclusive, Registered
  <2> QED BY <2>1, <2>2, <2>3, <2>4, <2>5, <2>6, <2>7, <2>8, <2>9, <2>10, <2>11, <2>12, <2>13, <2>14 DEF Next
<1> QED BY <1>1, <1>2, PTL

\* The types of every reachable state, and no document committed more often than
\* process_text commits (tus.py, ingestion/service.py).
THEOREM TypeCorrect == Spec => []TypeOK
<1>1. WorkInv => TypeOK
  BY DEF WorkInv
<1> QED BY <1>1, WorkInductive, PTL DEF Spec

-----------------------------------------------------------------------------
(* The bytes.  An upload that no overlap or crash has disturbed has at     *)
(* most one PATCH between its load and its save, and its file is always a  *)
(* prefix of the document, as long as the saved offset says whenever no    *)
(* PATCH is between its append and its save.                               *)

IsPrefix(b) == Len(b) <= Length /\ \A i \in 1..Len(b) : b[i] = i

OnePatch(u) == \A r, s \in Requests : WorksOn(r, u, Unsaved) /\ WorksOn(s, u, Unsaved) => r = s

OffsetKnown(u) ==
    part[u].exists /\ saved[u].exists /\ (\A r \in Requests : ~WorksOn(r, u, {"appended", "measured"}))
        => saved[u].offset = Len(part[u].bytes)

\* What a request of an undisturbed upload holds
Holds(r, u) ==
    /\ part[u].exists =>
        /\ WorksOn(r, u, {"loaded"}) => IsPrefix(part[u].bytes \o job[r].bytes)
        /\ WorksOn(r, u, {"measured"}) => job[r].offset = Len(part[u].bytes)
        /\ WorksOn(r, u, {"finalizing"}) => Len(part[u].bytes) = Length
    /\ WorksOn(r, u, {"extracting"}) => job[r].bytes = Source

Intact(u) ==
    /\ OnePatch(u)
    /\ part[u].exists => IsPrefix(part[u].bytes)
    /\ OffsetKnown(u)
    /\ \A r \in Requests : Holds(r, u)

IntactInv == UploadIntact /\ \A u \in UploadIds \ disturbed : Intact(u)

LEMMA PrefixIsSource ==
    ASSUME NEW b \in Chunks, IsPrefix(b), Len(b) = Length PROVE b = Source
<1>1. Source \in Seq(1..Length) /\ b \in Seq(1..Length) /\ Len(Source) = Len(b)
  BY SourceTyped DEF Chunks
<1>2. \A i \in 1..Len(b) : b[i] = Source[i]
  BY SourceTyped DEF IsPrefix
<1> QED BY <1>1, <1>2, SeqEqual

\* The body of a PATCH at the end of the file makes a longer prefix
LEMMA PrefixExtended ==
    ASSUME NEW b \in Chunks, IsPrefix(b), NEW upto \in {Len(b)} \cup Len(b)..Length
    PROVE  IsPrefix(b \o SubSeq(Source, Len(b) + 1, upto))
<1>1. Len(b) \in Nat /\ Length \in Nat
  BY LenProperties, SizesAssumption DEF Chunks
<1>2. PICK body : body = SubSeq(Source, Len(b) + 1, upto)
  OBVIOUS
<1>3. body \in Chunks /\ Len(body) = upto - Len(b) /\ \A i \in 1..Len(body) : body[i] = Len(b) + i
  BY <1>1, <1>2, BodyTyped
<1>4. /\ Len(b \o body) = Len(b) + Len(body)
      /\ \A i \in 1..Len(b) + Len(body) : (b \o body)[i] = IF i <= Len(b) THEN b[i] ELSE body[i - Len(b)]
  BY <1>3, ConcatProperties DEF Chunks
<1>5. upto \in Nat /\ upto <= Length
  BY <1>1 DEF IsPrefix
<1>6. \A i \in 1..Len(b \o body) : (b \o body)[i] = i
  <2> TAKE i \in 1..Len(b \o body)
  <2>1. i \in 1..(Len(b) + Len(body)) /\ i \in Nat
    BY <1>1, <1>3, <1>4, <1>5
  <2>2. CASE i <= Len(b)
    <3>1. i \in 1..Len(b)
      BY <1>1, <2>1, <2>2
    <3> QED BY <1>4, <2>1, <2>2, <3>1 DEF IsPrefix
  <2>3. CASE ~(i <= Len(b))
    <3>1. i - Len(b) \in 1..Len(body) /\ Len(b) + (i - Len(b)) = i
      BY <1>1, <1>3, <1>5, <2>1, <2>3
    <3> QED BY <1>3, <1>4, <2>1, <2>3, <3>1
  <2> QED BY <2>2, <2>3
<1>7. Len(b \o body) <= Length
  BY <1>1, <1>3, <1>4, <1>5
<1> QED BY <1>2, <1>6, <1>7 DEF IsPrefix

LEMMA PrefixEmpty == IsPrefix(<< >>)
BY EmptySeq, SizesAssumption DEF IsPrefix

LEMMA IntactInit == Init => IntactInv
<1> SUFFICES ASSUME Init PROVE IntactInv
  OBVIOUS
<1>1. Idle.pc = "idle" /\ "idle" \notin Unsaved
  BY DEF Idle, Unsaved
<1>2. UploadIntact
  <2>1. \A d \in Docs : doc[d].status = "absent"
    BY DEF Init, NoDoc
  <2> QED BY <2>1 DEF UploadIntact, Registered
<1>3. ASSUME NEW u \in UploadIds PROVE Intact(u)
  <2>1. ~part[u].exists /\ ~saved[u].exists
    BY DEF Init, NoFile, NoState
  <2>2. \A r \in Requests : job[r].pc = "idle"
    BY <1>1 DEF Init
  <2>3. OnePatch(u)
    BY <1>1, <2>2 DEF OnePatch, WorksOn
  <2>4. \A r \in Requests : Holds(r, u)
    BY <2>1, <2>2 DEF Holds, WorksOn
  <2> QED BY <2>1, <2>3, <2>4 DEF Intact, OffsetKnown
<1> QED BY <1>2, <1>3 DEF IntactInv

\* An upload that a step of another upload's request does not touch
LEMMA OtherUpload ==
    ASSUME NEW u \in UploadIds, Intact(u), NEW r \in Requests,
           \A s \in Requests \ {r} : job'[s] = job[s],
           job[r].upload # u, job'[r].upload # u,
           part'[u] = part[u], saved'[u] = saved[u]
    PROVE  Intact(u)'
<1>1. \A s \in Requests \ {r} : \A pcs : WorksOn(s, u, pcs)' <=> WorksOn(s, u, pcs)
  BY DEF WorksOn
<1>2. \A pcs : ~WorksOn(r, u, pcs) /\ ~WorksOn(r, u, pcs)'
  BY DEF WorksOn
<1>3. OnePatch(u)'
  BY <1>1, <1>2 DEF Intact, OnePatch
<1>4. OffsetKnown(u)'
  BY <1>1, <1>2 DEF Intact, OffsetKnown
<1>5. ASSUME NEW s \in Requests PROVE Holds(s, u)'
  <2>1. CASE s = r
    BY <1>2, <2>1 DEF Holds
  <2>2. CASE s # r
    BY <1>1, <2>2 DEF Intact, Holds
  <2> QED BY <2>1, <2>2
<1> QED BY <1>3, <1>4, <1>5 DEF Intact

\* Steps that neither register a document nor change one's content
LEMMA DocsIntact ==
    ASSUME UploadIntact, disturbed \subseteq disturbed', Registered' = Registered,
           \A d \in Registered : doc'[d].content = doc[d].content /\ doc'[d].upload = doc[d].upload
    PROVE  UploadIntact'
BY DEF UploadIntact

\* A step of request r on its own upload
LEMMA OwnUpload ==
    ASSUME WorkInv, IntactInv, NEW r \in Requests, NEW u \in UploadIds, job[r].upload = u,
           UNCHANGED <<doc, disturbed>>,
           \A s \in Requests \ {r} : job'[s] = job[s],
           job'[r].upload \in {None, u},
           \A v \in UploadIds \ {u} : part'[v] = part[v] /\ saved'[v] = saved[v],
           u \notin disturbed /\ Intact(u) => Intact(u)'
    PROVE  IntactInv'
<1>1. UploadIntact'
  BY DocsIntact DEF IntactInv, Registered
<1>2. ASSUME NEW v \in UploadIds \ disturbed' PROVE Intact(v)'
  <2>1. Intact(v)
    BY DEF IntactInv
  <2>2. CASE v = u
    BY <2>1, <2>2
  <2>3. CASE v # u
    <3>1. job'[r].upload # v
      BY <2>3, NoneAssumption
    <3> QED BY <2>1, <2>3, <3>1, OtherUpload
  <2> QED BY <2>2, <2>3
<1> QED BY <1>1, <1>2 DEF IntactInv

\* A request that ends without a file to write to, or after its save
LEMMA IntactFinish ==
    ASSUME WorkInv, IntactInv, NEW r \in Requests, NEW u \in UploadIds, job[r].upload = u,
           Finish(r), UNCHANGED <<part, saved, doc, disturbed>>,
           part[u].exists => job[r].pc \notin {"appended", "measured"}
    PROVE  IntactInv'
<1>1. /\ job'[r] = Idle /\ \A s \in Requests \ {r} : job'[s] = job[s]
      /\ Idle.pc = "idle" /\ Idle.upload = None
  BY DEF WorkInv, TypeOK, Finish, Idle
<1>2. ASSUME Intact(u) PROVE Intact(u)'
  <2>1. \A s \in Requests \ {r} : \A pcs : WorksOn(s, u, pcs)' <=> WorksOn(s, u, pcs)
    BY <1>1 DEF WorksOn
  <2>2. \A pcs : ~WorksOn(r, u, pcs)'
    BY <1>1, NoneAssumption DEF WorksOn
  <2>3. OnePatch(u)'
    BY <1>2, <2>1, <2>2 DEF Intact, OnePatch
  <2>4. part[u].exists => ~WorksOn(r, u, {"appended", "measured"})
    BY DEF WorksOn
  <2>5. OffsetKnown(u)'
    BY <1>2, <2>1, <2>2, <2>4 DEF Intact, OffsetKnown
  <2>6. ASSUME NEW s \in Requests PROVE Holds(s, u)'
    <3>1. CASE s = r
      BY <2>2, <3>1 DEF Holds
    <3>2. CASE s # r
      BY <1>1, <1>2, <2>1, <3>2 DEF Intact, Holds
    <3> QED BY <3>1, <3>2
  <2> QED BY <1>2, <2>3, <2>5, <2>6 DEF Intact
<1> QED BY <1>1, <1>2, OwnUpload

LEMMA IntactCreate ==
    ASSUME WorkInv, IntactInv, NEW u \in UploadIds, NEW how \in {"sync", "async"}, Create(u, how)
    PROVE  IntactInv'
<1>1. /\ part' = [part EXCEPT ![u] = [exists |-> TRUE, bytes |-> << >>]]
      /\ saved' = [saved EXCEPT ![u] = [exists |-> TRUE, offset |-> 0]]
      /\ UNCHANGED <<doc, job, disturbed>>
      /\ \A r \in Requests : job[r].upload # u
  BY DEF Create, tables, WorkInv, RequestOK
<1>2. /\ part'[u].exists /\ part'[u].bytes = << >> /\ saved'[u].offset = 0
      /\ \A v \in UploadIds \ {u} : part'[v] = part[v] /\ saved'[v] = saved[v]
  BY <1>1 DEF WorkInv, TypeOK
<1>3. UploadIntact'
  BY <1>1, DocsIntact DEF IntactInv, Registered
<1>4. \A r \in Requests : \A pcs : ~WorksOn(r, u, pcs)'
  BY <1>1 DEF WorksOn
<1>5. Intact(u)'
  <2>1. Len(<< >>) = 0
    OBVIOUS
  <2>2. OnePatch(u)'
    BY <1>4 DEF OnePatch
  <2>3. \A r \in Requests : Holds(r, u)'
    BY <1>4 DEF Holds
  <2> QED BY <1>2, <2>1, <2>2, <2>3, PrefixEmpty DEF Intact, OffsetKnown
<1>6. ASSUME NEW v \in UploadIds \ disturbed', v # u PROVE Intact(v)'
  <2>1. Intact(v)
    BY <1>1 DEF IntactInv
  <2>2. part'[v] = part[v] /\ saved'[v] = saved[v] /\ job' = job
    BY <1>1, <1>2, <1>6
  <2> QED BY <2>1, <2>2 DEF Intact, OnePatch, OffsetKnown, Holds, WorksOn
<1> QED BY <1>3, <1>5, <1>6 DEF IntactInv

LEMMA IntactLoad ==
    ASSUME WorkInv, IntactInv, NEW r \in Requests, NEW u \in UploadIds, NEW from \in 0..MaxSize,
           NEW upto \in {from} \cup from..Length, PatchLoad(r, u, from, upto)
    PROVE  IntactInv'
<1> PICK body : body = SubSeq(Source, from + 1, upto)
  OBVIOUS
<1>1. /\ job[r].pc = "idle" /\ saved[u].exists /\ from = saved[u].offset
      /\ job'[r] = [pc |-> "loaded", upload |-> u, bytes |-> body, offset |-> 0, doc |-> None]
      /\ \A s \in Requests \ {r} : job'[s] = job[s]
      /\ UNCHANGED <<part, saved, doc>>
  BY DEF WorkInv, TypeOK, PatchLoad, OffsetAccepted, Idle, files, tables
<1>2. /\ disturbed \subseteq disturbed'
      /\ u \notin disturbed' => u \notin disturbed /\ \A s \in Requests : ~WorksOn(s, u, Unsaved)
  BY DEF PatchLoad
<1>3. UploadIntact'
  BY <1>1, <1>2, DocsIntact DEF IntactInv, Registered
<1>4. ASSUME u \notin disturbed' PROVE Intact(u)'
  <2>1. Intact(u) /\ \A s \in Requests : ~WorksOn(s, u, Unsaved)
    BY <1>2, <1>4 DEF IntactInv
  <2>2. \A s \in Requests \ {r} : \A pcs : WorksOn(s, u, pcs)' <=> WorksOn(s, u, pcs)
    BY <1>1 DEF WorksOn
  <2>3. \A pcs : WorksOn(r, u, pcs)' <=> "loaded" \in pcs
    BY <1>1 DEF WorksOn
  <2>4. OnePatch(u)'
    BY <2>1, <2>2 DEF OnePatch
  <2>5. \A s \in Requests : ~WorksOn(s, u, {"appended", "measured"})
    BY <2>1 DEF WorksOn, Unsaved
  <2>6. part[u].exists => saved[u].offset = Len(part[u].bytes)
    BY <1>1, <2>1, <2>5 DEF Intact, OffsetKnown
  <2>7. OffsetKnown(u)'
    BY <1>1, <2>6 DEF OffsetKnown
  <2>8. part[u].exists => IsPrefix(part[u].bytes \o body)
    <3>1. part[u].bytes \in Chunks
      BY DEF WorkInv, TypeOK, Chunks
    <3> QED BY <1>1, <2>1, <2>6, <3>1, PrefixExtended DEF Intact
  <2>9. ASSUME NEW s \in Requests PROVE Holds(s, u)'
    <3>1. CASE s = r
      <4>1. /\ ~WorksOn(r, u, {"measured"})' /\ ~WorksOn(r, u, {"finalizing"})'
            /\ ~WorksOn(r, u, {"extracting"})'
        BY <2>3
      <4>2. part' = part /\ job'[r].bytes = body
        <5>1. part' = part
          BY <1>1
        <5>2. [pc |-> "loaded", upload |-> u, bytes |-> body, offset |-> 0, doc |-> None].bytes = body
          OBVIOUS
        <5> QED BY <1>1, <5>1, <5>2
      <4>3. part[u].exists => IsPrefix(part'[u].bytes \o job'[r].bytes)
        BY <2>8, <4>2
      <4> QED BY <3>1, <4>1, <4>2, <4>3 DEF Holds, IsPrefix
    <3>2. CASE s # r
      BY <1>1, <2>1, <2>2, <3>2 DEF Intact, Holds
    <3> QED BY <3>1, <3>2
  <2> QED BY <1>1, <2>1, <2>4, <2>7, <2>9 DEF Intact
<1>5. ASSUME NEW v \in UploadIds \ disturbed', v # u PROVE Intact(v)'
  <2>1. Intact(v)
    BY <1>2 DEF IntactInv
  <2>2. \A s \in Requests \ {r} : \A pcs : WorksOn(s, v, pcs)' <=> WorksOn(s, v, pcs)
    BY <1>1 DEF WorksOn
  <2>3. ~WorksOn(r, v, Unsaved) /\ \A pcs : ~WorksOn(r, v, pcs)'
    BY <1>1, <1>5 DEF WorksOn, Unsaved
  <2>4. ~WorksOn(r, v, {"appended", "measured"})
    BY <1>1 DEF WorksOn
  <2>5. OnePatch(v)'
    BY <2>1, <2>2, <2>3 DEF Intact, OnePatch
  <2>6. OffsetKnown(v)'
    BY <1>1, <2>1, <2>2, <2>4 DEF Intact, OffsetKnown
  <2>7. ASSUME NEW s \in Requests PROVE Holds(s, v)'
    <3>1. CASE s = r
      BY <2>3, <3>1 DEF Holds
    <3>2. CASE s # r
      BY <1>1, <2>1, <2>2, <3>2 DEF Intact, Holds
    <3> QED BY <3>1, <3>2
  <2> QED BY <1>1, <2>1, <2>5, <2>6, <2>7 DEF Intact
<1> QED BY <1>3, <1>4, <1>5 DEF IntactInv

LEMMA IntactAppend == ASSUME WorkInv, IntactInv, NEW r \in Requests, PatchAppend(r) PROVE IntactInv'
<1>1. PICK u : u = job[r].upload
  OBVIOUS
<1>2. PICK body : body = job[r].bytes
  OBVIOUS
<1>3. u \in UploadIds /\ body \in Seq(1..Length)
  BY <1>1, <1>2 DEF PatchAppend, WorkInv, TypeOK, RequestOK
<1>4. /\ job[r].pc = "loaded" /\ part[u].exists
      /\ part' = [part EXCEPT ![u].bytes = @ \o body]
      /\ UNCHANGED <<saved, doc, disturbed>>
  BY <1>1, <1>2 DEF PatchAppend, Part, tables
<1>5. /\ job'[r].pc = "appended" /\ job'[r].upload = u
      /\ \A s \in Requests \ {r} : job'[s] = job[s]
  BY <1>1 DEF PatchAppend, WorkInv, TypeOK
<1>6. PICK b : b = part[u].bytes
  OBVIOUS
<1>7. b \in Seq(1..Length)
  BY <1>3, <1>6 DEF WorkInv, TypeOK
<1>8. /\ part'[u].bytes = b \o body /\ part'[u].exists
      /\ \A v \in UploadIds \ {u} : part'[v] = part[v]
  BY <1>3, <1>4, <1>6 DEF WorkInv, TypeOK
<1>9. ASSUME Intact(u) PROVE Intact(u)'
  <2>1. \A s \in Requests \ {r} : \A pcs : WorksOn(s, u, pcs)' <=> WorksOn(s, u, pcs)
    BY <1>5 DEF WorksOn
  <2>2. \A pcs : /\ WorksOn(r, u, pcs)' <=> "appended" \in pcs
                 /\ WorksOn(r, u, pcs) <=> "loaded" \in pcs
    BY <1>1, <1>4, <1>5 DEF WorksOn
  <2>3. OnePatch(u)' /\ \A s \in Requests \ {r} : ~WorksOn(s, u, Unsaved)
    BY <1>9, <2>1, <2>2 DEF Intact, OnePatch, Unsaved
  <2>4. \A s \in Requests \ {r} : ~WorksOn(s, u, {"loaded"}) /\ ~WorksOn(s, u, {"measured"})
    BY <2>3 DEF WorksOn, Unsaved
  <2>5. OffsetKnown(u)'
    <3>1. WorksOn(r, u, {"appended", "measured"})'
      BY <2>2
    <3> QED BY <3>1 DEF OffsetKnown
  <2>6. IsPrefix(b \o body)
    <3>1. WorksOn(r, u, {"loaded"})
      BY <2>2
    <3> QED BY <1>2, <1>4, <1>6, <1>9, <3>1 DEF Intact, Holds
  <2>7. Len(b) = Length => Len(b \o body) = Length
    <3>1. Len(b \o body) = Len(b) + Len(body) /\ Len(b) \in Nat /\ Len(body) \in Nat
      BY <1>3, <1>7, ConcatProperties, LenProperties
    <3> QED BY <2>6, <3>1, SizesAssumption DEF IsPrefix
  <2>8. ASSUME NEW s \in Requests PROVE Holds(s, u)'
    <3>1. CASE s = r
      <4>1. /\ ~WorksOn(r, u, {"loaded"})' /\ ~WorksOn(r, u, {"measured"})'
            /\ ~WorksOn(r, u, {"finalizing"})' /\ ~WorksOn(r, u, {"extracting"})'
        BY <2>2
      <4> QED BY <3>1, <4>1 DEF Holds
    <3>2. CASE s # r
      <4>1. WorksOn(s, u, {"finalizing"})' => Len(b) = Length
        BY <1>4, <1>6, <1>9, <2>1, <3>2 DEF Intact, Holds
      <4>2. WorksOn(s, u, {"extracting"})' => job'[s].bytes = Source
        BY <1>5, <1>9, <2>1, <3>2 DEF Intact, Holds
      <4> QED BY <1>8, <2>1, <2>4, <2>7, <3>2, <4>1, <4>2 DEF Holds
    <3> QED BY <3>1, <3>2
  <2>9. IsPrefix(part'[u].bytes)
    BY <1>8, <2>6
  <2> QED BY <2>3, <2>5, <2>8, <2>9 DEF Intact, IsPrefix
<1> QED BY <1>1, <1>3, <1>4, <1>5, <1>8, <1>9, OwnUpload

\* A step that moves a request and keeps the files
LEMMA IntactMove ==
    ASSUME WorkInv, IntactInv, NEW r \in Requests, NEW u \in UploadIds, job[r].upload = u,
           UNCHANGED <<part, saved, doc, disturbed>>,
           job'[r].upload = u, \A s \in Requests \ {r} : job'[s] = job[s],
           job'[r].pc \in Unsaved => job[r].pc \in Unsaved,
           job'[r].pc \in {"appended", "measured"} \/ job[r].pc \notin {"appended", "measured"},
           Intact(u) => Holds(r, u)'
    PROVE  IntactInv'
<1>1. ASSUME Intact(u) PROVE Intact(u)'
  <2>1. \A s \in Requests \ {r} : \A pcs : WorksOn(s, u, pcs)' <=> WorksOn(s, u, pcs)
    BY DEF WorksOn
  <2>2. /\ WorksOn(r, u, Unsaved)' => WorksOn(r, u, Unsaved)
        /\ WorksOn(r, u, {"appended", "measured"}) => WorksOn(r, u, {"appended", "measured"})'
    BY DEF WorksOn
  <2>3. OnePatch(u)'
    BY <1>1, <2>1, <2>2 DEF Intact, OnePatch
  <2>4. OffsetKnown(u)'
    BY <1>1, <2>1, <2>2 DEF Intact, OffsetKnown
  <2>5. ASSUME NEW s \in Requests PROVE Holds(s, u)'
    <3>1. CASE s = r
      BY <1>1, <3>1
    <3>2. CASE s # r
      BY <1>1, <2>1, <3>2 DEF Intact, Holds
    <3> QED BY <3>1, <3>2
  <2> QED BY <1>1, <2>3, <2>4, <2>5 DEF Intact
<1> QED BY <1>1, OwnUpload

LEMMA IntactMeasure == ASSUME WorkInv, IntactInv, NEW r \in Requests, PatchMeasure(r) PROVE IntactInv'
<1>1. PICK u : u = job[r].upload
  OBVIOUS
<1>2. /\ u \in UploadIds /\ job[r].pc = "appended" /\ UNCHANGED <<part, saved, doc, disturbed>>
  BY <1>1 DEF PatchMeasure, files, tables, WorkInv, RequestOK
<1>3. CASE part[u].exists
  <2>1. /\ job'[r].pc = "measured" /\ job'[r].upload = u /\ job'[r].offset = Len(part[u].bytes)
        /\ \A s \in Requests \ {r} : job'[s] = job[s]
    BY <1>1, <1>3 DEF PatchMeasure, Part, WorkInv, TypeOK
  <2>2. Holds(r, u)'
    <3>1. \A pcs : WorksOn(r, u, pcs)' <=> "measured" \in pcs
      BY <2>1 DEF WorksOn
    <3>2. /\ ~WorksOn(r, u, {"loaded"})' /\ ~WorksOn(r, u, {"finalizing"})' /\ ~WorksOn(r, u, {"extracting"})'
      BY <3>1
    <3> QED BY <1>2, <2>1, <3>2 DEF Holds
  <2> QED BY <1>1, <1>2, <2>1, <2>2, IntactMove DEF Unsaved
<1>4. CASE ~part[u].exists
  BY <1>1, <1>2, <1>4, IntactFinish DEF PatchMeasure, Part
<1> QED BY <1>3, <1>4

LEMMA IntactSave == ASSUME WorkInv, IntactInv, NEW r \in Requests, PatchSave(r) PROVE IntactInv'
<1>1. PICK u : u = job[r].upload
  OBVIOUS
<1>2. PICK n : n = job[r].offset
  OBVIOUS
<1>3. /\ u \in UploadIds /\ n \in Nat /\ job[r].pc = "measured" /\ UNCHANGED <<part, doc, disturbed>>
      /\ saved' = [saved EXCEPT ![u] = [exists |-> TRUE, offset |-> n]]
  BY <1>1, <1>2 DEF PatchSave, tables, WorkInv, TypeOK, RequestOK
<1>4. /\ \A s \in Requests \ {r} : job'[s] = job[s]
      /\ \/ n >= Length /\ job'[r].pc = "finalizing" /\ job'[r].upload = u
         \/ ~(n >= Length) /\ job'[r].pc = "idle" /\ job'[r].upload = None
  BY <1>1, <1>2 DEF PatchSave, WorkInv, TypeOK, Finish, Idle
<1>5. /\ saved'[u].exists /\ saved'[u].offset = n /\ \A v \in UploadIds \ {u} : saved'[v] = saved[v]
  BY <1>3 DEF WorkInv, TypeOK
<1>6. ASSUME Intact(u) PROVE Intact(u)'
  <2>1. \A s \in Requests \ {r} : \A pcs : WorksOn(s, u, pcs)' <=> WorksOn(s, u, pcs)
    BY <1>4 DEF WorksOn
  <2>2. /\ \A pcs : WorksOn(r, u, pcs) <=> "measured" \in pcs
        /\ \A pcs : WorksOn(r, u, pcs)' => "finalizing" \in pcs \/ "idle" \in pcs
    BY <1>1, <1>3, <1>4 DEF WorksOn
  <2>3. OnePatch(u)'
    BY <1>6, <2>1, <2>2 DEF Intact, OnePatch, Unsaved
  <2>4. part[u].exists => n = Len(part[u].bytes) /\ n <= Length
    BY <1>2, <1>6, <2>2 DEF Intact, Holds, IsPrefix
  <2>5. OffsetKnown(u)'
    BY <1>3, <1>5, <2>4 DEF OffsetKnown
  <2>6. ASSUME NEW s \in Requests PROVE Holds(s, u)'
    <3>1. CASE s = r
      <4>1. /\ ~WorksOn(r, u, {"loaded"})' /\ ~WorksOn(r, u, {"measured"})' /\ ~WorksOn(r, u, {"extracting"})'
        BY <2>2
      <4>2. WorksOn(r, u, {"finalizing"})' => n >= Length
        BY <1>4 DEF WorksOn
      <4>3. part[u].exists /\ n >= Length => Len(part[u].bytes) = Length
        BY <1>3, <2>4, SizesAssumption
      <4> QED BY <1>3, <3>1, <4>1, <4>2, <4>3 DEF Holds
    <3>2. CASE s # r
      BY <1>3, <1>4, <1>6, <2>1, <3>2 DEF Intact, Holds
    <3> QED BY <3>1, <3>2
  <2> QED BY <1>3, <1>6, <2>3, <2>5, <2>6 DEF Intact
<1> QED BY <1>1, <1>3, <1>4, <1>5, <1>6, OwnUpload

LEMMA IntactRead == ASSUME WorkInv, IntactInv, NEW r \in Requests, FinalizeRead(r) PROVE IntactInv'
<1>1. PICK u : u = job[r].upload
  OBVIOUS
<1>2. /\ u \in UploadIds /\ job[r].pc = "finalizing" /\ UNCHANGED <<part, saved, doc, disturbed>>
  BY <1>1 DEF FinalizeRead, files, tables, WorkInv, RequestOK
<1>3. CASE part[u].exists
  <2>1. /\ job'[r].pc = "extracting" /\ job'[r].upload = u /\ job'[r].bytes = part[u].bytes
        /\ \A s \in Requests \ {r} : job'[s] = job[s]
    BY <1>1, <1>3 DEF FinalizeRead, Part, WorkInv, TypeOK
  <2>2. ASSUME Intact(u) PROVE Holds(r, u)'
    <3>1. WorksOn(r, u, {"finalizing"})
      BY <1>1, <1>2 DEF WorksOn
    <3>2. IsPrefix(part[u].bytes) /\ Len(part[u].bytes) = Length
      BY <1>3, <2>2, <3>1 DEF Intact, Holds
    <3>3. part[u].bytes = Source
      BY <1>2, <3>2, PrefixIsSource DEF WorkInv, TypeOK, Chunks
    <3>4. \A pcs : WorksOn(r, u, pcs)' <=> "extracting" \in pcs
      BY <2>1 DEF WorksOn
    <3>5. /\ ~WorksOn(r, u, {"loaded"})' /\ ~WorksOn(r, u, {"finalizing"})' /\ ~WorksOn(r, u, {"measured"})'
      BY <3>4
    <3> QED BY <2>1, <3>3, <3>5 DEF Holds, Source
  <2> QED BY <1>1, <1>2, <2>1, <2>2, IntactMove DEF Unsaved
<1>4. CASE ~part[u].exists
  BY <1>1, <1>2, <1>4, IntactFinish DEF FinalizeRead, Part
<1> QED BY <1>3, <1>4

LEMMA IntactRefused ==
    ASSUME WorkInv, IntactInv, NEW r \in Requests, PatchRefused(r) \/ FinalizeRefused(r) PROVE IntactInv'
<1>1. PICK u : u = job[r].upload
  OBVIOUS
<1>2. /\ u \in UploadIds /\ job[r].pc \in {"loaded", "extracting"} /\ Finish(r)
      /\ UNCHANGED <<part, saved, doc, disturbed>>
  BY <1>1 DEF PatchRefused, FinalizeRefused, files, tables, WorkInv, RequestOK
<1> QED BY <1>1, <1>2, IntactFinish

LEMMA IntactRegister == ASSUME WorkInv, IntactInv, NEW r \in Requests, NEW blank \in BOOLEAN, Register(r, blank) PROVE IntactInv'
<1>1. PICK u : u = job[r].upload
  OBVIOUS
<1>2. PICK n : n = NewDoc
  OBVIOUS
<1>3. job[r].pc = "extracting"
  BY DEF Register
<1>4. /\ u \in UploadIds /\ job'[r].upload = u
      /\ job'[r].pc \in {"registered", "cleanup", "processing"}
      /\ \A s \in Requests \ {r} : job'[s] = job[s]
      /\ Registered' = Registered \cup {n} /\ n \in Docs /\ n \notin Registered
      /\ \A d \in Docs \ {n} : doc'[d] = doc[d]
      /\ UNCHANGED <<part, saved, disturbed>>
  BY <1>1, <1>2, RegisterStep
<1>5. doc'[n].upload = u /\ doc'[n].content = job[r].bytes
  <2>1. /\ RowOf(job[r].upload, job[r].bytes, blank).upload = u
        /\ RowOf(job[r].upload, job[r].bytes, blank).content = job[r].bytes
    BY <1>1 DEF RowOf
  <2> QED BY <1>2, <2>1, RegisterStep
<1>6. UploadIntact'
  <2> SUFFICES ASSUME NEW d \in Registered', doc'[d].upload \notin disturbed' PROVE doc'[d].content = Source
    BY DEF UploadIntact, Source
  <2>1. CASE d = n
    <3>1. Intact(u) /\ WorksOn(r, u, {"extracting"})
      BY <1>1, <1>3, <1>4, <1>5, <2>1 DEF IntactInv, WorksOn
    <3> QED BY <1>5, <2>1, <3>1 DEF Intact, Holds
  <2>2. CASE d # n
    <3>1. d \in Registered /\ doc'[d] = doc[d]
      BY <1>4, <2>2 DEF Registered
    <3> QED BY <1>4, <3>1 DEF IntactInv, UploadIntact
  <2> QED BY <2>1, <2>2
<1>7. ASSUME NEW v \in UploadIds \ disturbed' PROVE Intact(v)'
  <2>1. Intact(v)
    BY <1>4 DEF IntactInv
  <2>2. \A s \in Requests \ {r} : \A pcs : WorksOn(s, v, pcs)' <=> WorksOn(s, v, pcs)
    BY <1>4 DEF WorksOn
  <2>3. ~WorksOn(r, v, {"appended", "measured"}) /\ ~WorksOn(r, v, Unsaved)'
    BY <1>3, <1>4 DEF WorksOn, Unsaved
  <2>4. /\ ~WorksOn(r, v, {"loaded"})' /\ ~WorksOn(r, v, {"measured"})'
        /\ ~WorksOn(r, v, {"finalizing"})' /\ ~WorksOn(r, v, {"extracting"})'
    BY <1>4 DEF WorksOn
  <2>5. OnePatch(v)'
    BY <2>1, <2>2, <2>3 DEF Intact, OnePatch
  <2>6. OffsetKnown(v)'
    BY <1>4, <2>1, <2>2, <2>3 DEF Intact, OffsetKnown
  <2>7. ASSUME NEW s \in Requests PROVE Holds(s, v)'
    <3>1. CASE s = r
      BY <2>4, <3>1 DEF Holds
    <3>2. CASE s # r
      BY <1>4, <2>1, <2>2, <3>2 DEF Intact, Holds
    <3> QED BY <3>1, <3>2
  <2> QED BY <1>4, <2>1, <2>5, <2>6, <2>7 DEF Intact
<1> QED BY <1>6, <1>7 DEF IntactInv

\* The steps after registration leave the bytes alone
LEMMA IntactAfter ==
    ASSUME WorkInv, IntactInv, NEW r \in Requests, job[r].pc \in OnLoop,
           \A s \in Requests \ {r} : job'[s] = job[s],
           job'[r].pc \in {"idle", "processing", "cleanup"},
           UNCHANGED <<part, saved, disturbed>>, Registered' = Registered,
           \A d \in Registered : doc'[d].content = doc[d].content /\ doc'[d].upload = doc[d].upload
    PROVE  IntactInv'
<1>1. UploadIntact'
  BY DocsIntact DEF IntactInv
<1>2. ASSUME NEW v \in UploadIds \ disturbed' PROVE Intact(v)'
  <2>1. Intact(v)
    BY DEF IntactInv
  <2>2. \A s \in Requests \ {r} : \A pcs : WorksOn(s, v, pcs)' <=> WorksOn(s, v, pcs)
    BY DEF WorksOn
  <2>3. ~WorksOn(r, v, {"appended", "measured"}) /\ ~WorksOn(r, v, Unsaved)'
    BY DEF WorksOn, Unsaved, OnLoop
  <2>4. /\ ~WorksOn(r, v, {"loaded"})' /\ ~WorksOn(r, v, {"measured"})'
        /\ ~WorksOn(r, v, {"finalizing"})' /\ ~WorksOn(r, v, {"extracting"})'
    BY DEF WorksOn
  <2>5. OnePatch(v)'
    BY <2>1, <2>2, <2>3 DEF Intact, OnePatch
  <2>6. OffsetKnown(v)'
    BY <2>1, <2>2, <2>3 DEF Intact, OffsetKnown
  <2>7. ASSUME NEW s \in Requests PROVE Holds(s, v)'
    <3>1. CASE s = r
      BY <2>4, <3>1 DEF Holds
    <3>2. CASE s # r
      BY <2>1, <2>2, <3>2 DEF Intact, Holds
    <3> QED BY <3>1, <3>2
  <2> QED BY <2>1, <2>5, <2>6, <2>7 DEF Intact
<1> QED BY <1>1, <1>2 DEF IntactInv

LEMMA IntactProcess ==
    ASSUME WorkInv, IntactInv, NEW r \in Requests, Enqueue(r) \/ ProcessCommit(r) \/ ProcessFails(r)
    PROVE  IntactInv'
<1>1. ASSUME Enqueue(r) PROVE IntactInv'
  <2>1. /\ job[r].pc \in OnLoop /\ UNCHANGED <<part, saved, disturbed, doc>>
        /\ job'[r].pc = "cleanup" /\ \A s \in Requests \ {r} : job'[s] = job[s]
    BY <1>1 DEF Enqueue, Goto, files, OnLoop, WorkInv, TypeOK
  <2> QED BY <2>1, IntactAfter DEF Registered
<1>2. ASSUME ProcessCommit(r) PROVE IntactInv'
  <2>1. PICK d : d = job[r].doc
    OBVIOUS
  <2>2. /\ job[r].pc = "processing" /\ doc' = [doc EXCEPT ![d] = Committed(@)]
        /\ UNCHANGED <<part, saved, disturbed>>
        /\ job'[r].pc \in {"cleanup", "processing"} /\ \A s \in Requests \ {r} : job'[s] = job[s]
    BY <1>2, <2>1 DEF ProcessCommit, Goto, files, WorkInv, TypeOK
  <2>3. d \in Registered /\ doc[d].commits < Commits
    BY <2>1, <2>2 DEF WorkInv, RequestOK, OnLoop
  <2>4. CommittedTo(d)
    BY <2>2, <2>3, CommitStep
  <2>5. \A e \in Registered : doc'[e].content = doc[e].content /\ doc'[e].upload = doc[e].upload
    BY <2>4 DEF CommittedTo, Registered
  <2> QED BY <2>2, <2>4, <2>5, IntactAfter DEF OnLoop, CommittedTo
<1>3. ASSUME ProcessFails(r) PROVE IntactInv'
  <2>1. /\ job[r].pc \in OnLoop /\ UNCHANGED <<part, saved, disturbed, doc>>
        /\ job'[r].pc = "idle" /\ \A s \in Requests \ {r} : job'[s] = job[s]
    BY <1>3 DEF ProcessFails, Finish, Idle, files, tables, OnLoop, WorkInv, TypeOK
  <2> QED BY <2>1, IntactAfter DEF Registered
<1> QED BY <1>1, <1>2, <1>3

LEMMA IntactCleanup == ASSUME WorkInv, IntactInv, NEW r \in Requests, Cleanup(r) PROVE IntactInv'
<1>1. PICK u : u = job[r].upload
  OBVIOUS
<1>2. /\ u \in UploadIds /\ job[r].pc = "cleanup" /\ UNCHANGED <<doc, disturbed>>
      /\ ~part'[u].exists /\ ~saved'[u].exists
      /\ \A v \in UploadIds \ {u} : part'[v] = part[v] /\ saved'[v] = saved[v]
      /\ job'[r].upload = None /\ \A s \in Requests \ {r} : job'[s] = job[s]
  BY <1>1 DEF Cleanup, NoFile, NoState, Finish, Idle, tables, WorkInv, TypeOK, RequestOK
<1>3. ASSUME Intact(u) PROVE Intact(u)'
  <2>1. \A s \in Requests \ {r} : \A pcs : WorksOn(s, u, pcs)' <=> WorksOn(s, u, pcs)
    BY <1>2 DEF WorksOn
  <2>2. \A pcs : ~WorksOn(r, u, pcs)'
    BY <1>2, NoneAssumption DEF WorksOn
  <2>3. OnePatch(u)'
    BY <1>3, <2>1, <2>2 DEF Intact, OnePatch
  <2>4. ASSUME NEW s \in Requests PROVE Holds(s, u)'
    <3>1. CASE s = r
      BY <2>2, <3>1 DEF Holds
    <3>2. CASE s # r
      BY <1>2, <1>3, <2>1, <3>2 DEF Intact, Holds
    <3> QED BY <3>1, <3>2
  <2> QED BY <1>2, <2>3, <2>4 DEF Intact, OffsetKnown
<1> QED BY <1>1, <1>2, <1>3, OwnUpload

LEMMA IntactSweep ==
    ASSUME WorkInv, IntactInv, NEW u \in UploadIds, SweepPart(u) \/ SweepState(u) PROVE IntactInv'
<1>1. UNCHANGED <<doc, job, disturbed>>
  BY DEF SweepPart, SweepState, tables
<1>2. /\ \/ ~part'[u].exists
         \/ ~saved'[u].exists /\ part'[u] = part[u]
      /\ \A v \in UploadIds \ {u} : part'[v] = part[v] /\ saved'[v] = saved[v]
  BY DEF SweepPart, SweepState, NoFile, NoState, WorkInv, TypeOK
<1>3. UploadIntact'
  BY <1>1, DocsIntact DEF IntactInv, Registered
<1>4. ASSUME NEW v \in UploadIds \ disturbed' PROVE Intact(v)'
  <2>1. Intact(v)
    BY <1>1 DEF IntactInv
  <2>2. OnePatch(v)' /\ \A s \in Requests : \A pcs : WorksOn(s, v, pcs)' <=> WorksOn(s, v, pcs)
    BY <1>1, <2>1 DEF Intact, OnePatch, WorksOn
  <2>3. CASE v = u
    <3>1. OffsetKnown(v)' /\ part'[v].exists => part'[v] = part[v]
      BY <1>2, <2>3 DEF OffsetKnown
    <3> QED BY <1>1, <1>2, <2>1, <2>2, <2>3, <3>1 DEF Intact, Holds, OffsetKnown, IsPrefix
  <2>4. CASE v # u
    <3>1. part'[v] = part[v] /\ saved'[v] = saved[v]
      BY <1>2, <2>4
    <3> QED BY <1>1, <2>1, <2>2, <3>1 DEF Intact, Holds, OffsetKnown, IsPrefix
  <2> QED BY <2>3, <2>4
<1> QED BY <1>3, <1>4 DEF IntactInv

LEMMA IntactWorker ==
    ASSUME WorkInv, IntactInv, (\E d \in Docs : WorkerTake(d)) \/ WorkerCommit \/ WorkerStops
    PROVE  IntactInv'
<1>1. UNCHANGED <<part, saved, job, disturbed>>
  BY DEF WorkerTake, WorkerCommit, WorkerStops, files
<1>2. /\ Registered' = Registered
      /\ \A e \in Registered : doc'[e].content = doc[e].content /\ doc'[e].upload = doc[e].upload
  <2>1. CASE WorkerCommit
    <3>1. PICK d : d = working
      OBVIOUS
    <3>2. d \in Registered /\ doc[d].commits < Commits /\ doc' = [doc EXCEPT ![d] = Committed(@)]
      BY <2>1, <3>1 DEF WorkInv, WorkerCommit
    <3>3. CommittedTo(d)
      BY <3>2, CommitStep
    <3> QED BY <3>3 DEF CommittedTo, Registered
  <2>2. CASE UNCHANGED doc
    BY <2>2 DEF Registered
  <2> QED BY <2>1, <2>2 DEF WorkerTake, WorkerStops
<1>3. UploadIntact'
  BY <1>1, <1>2, DocsIntact DEF IntactInv
<1>4. ASSUME NEW v \in UploadIds \ disturbed' PROVE Intact(v)'
  BY <1>1, <1>4 DEF IntactInv, Intact, OnePatch, OffsetKnown, Holds, WorksOn
<1> QED BY <1>3, <1>4 DEF IntactInv

LEMMA IntactCrash == ASSUME WorkInv, IntactInv, Crash PROVE IntactInv'
<1>1. /\ UNCHANGED <<part, saved, doc>> /\ disturbed \subseteq disturbed'
      /\ \A r \in Requests : job'[r] = Idle
  BY DEF Crash, files, tables
<1>2. Idle.upload = None
  BY DEF Idle
<1>3. UploadIntact'
  BY <1>1, DocsIntact DEF IntactInv, Registered
<1>4. ASSUME NEW v \in UploadIds \ disturbed' PROVE Intact(v)'
  <2>1. Intact(v)
    BY <1>1 DEF IntactInv
  <2>2. \A r \in Requests : ~WorksOn(r, v, {"appended", "measured"})
    BY <1>4 DEF Crash, WorksOn
  <2>3. \A r \in Requests : \A pcs : ~WorksOn(r, v, pcs)'
    BY <1>1, <1>2, NoneAssumption DEF WorksOn
  <2>4. OnePatch(v)' /\ \A r \in Requests : Holds(r, v)'
    BY <2>3 DEF OnePatch, Holds
  <2>5. OffsetKnown(v)'
    BY <1>1, <2>1, <2>2 DEF Intact, OffsetKnown
  <2> QED BY <1>1, <2>1, <2>4, <2>5 DEF Intact
<1> QED BY <1>3, <1>4 DEF IntactInv

LEMMA IntactStep == WorkInv /\ IntactInv /\ [Next]_vars => IntactInv'
<1> SUFFICES ASSUME WorkInv, IntactInv, [Next]_vars PROVE IntactInv'
  OBVIOUS
<1>1. ASSUME NEW u \in UploadIds, NEW how \in {"sync", "async"}, Create(u, how) PROVE IntactInv'
  BY <1>1, IntactCreate
<1>2. ASSUME NEW u \in UploadIds, NEW r \in Requests, NEW from \in 0..MaxSize,
             NEW upto \in {from} \cup from..Length, PatchLoad(r, u, from, upto)
      PROVE  IntactInv'
  BY <1>2, IntactLoad
<1>3. ASSUME NEW u \in UploadIds, SweepPart(u) \/ SweepState(u) PROVE IntactInv'
  BY <1>3, IntactSweep
<1>4. ASSUME NEW r \in Requests, PatchAppend(r) PROVE IntactInv'
  BY <1>4, IntactAppend
<1>5. ASSUME NEW r \in Requests, PatchRefused(r) \/ FinalizeRefused(r) PROVE IntactInv'
  BY <1>5, IntactRefused
<1>6. ASSUME NEW r \in Requests, PatchMeasure(r) PROVE IntactInv'
  BY <1>6, IntactMeasure
<1>7. ASSUME NEW r \in Requests, PatchSave(r) PROVE IntactInv'
  BY <1>7, IntactSave
<1>8. ASSUME NEW r \in Requests, FinalizeRead(r) PROVE IntactInv'
  BY <1>8, IntactRead
<1>9. ASSUME NEW r \in Requests, \E blank \in BOOLEAN : Register(r, blank) PROVE IntactInv'
  BY <1>9, IntactRegister
<1>10. ASSUME NEW r \in Requests, Enqueue(r) \/ ProcessCommit(r) \/ ProcessFails(r) PROVE IntactInv'
  BY <1>10, IntactProcess
<1>11. ASSUME NEW r \in Requests, Cleanup(r) PROVE IntactInv'
  BY <1>11, IntactCleanup
<1>12. ASSUME (\E d \in Docs : WorkerTake(d)) \/ WorkerCommit \/ WorkerStops PROVE IntactInv'
  BY <1>12, IntactWorker
<1>13. CASE Crash
  BY <1>13, IntactCrash
<1>14. CASE UNCHANGED vars
  <2>1. UploadIntact'
    BY <1>14 DEF vars, IntactInv, UploadIntact, Registered
  <2>2. ASSUME NEW u \in UploadIds \ disturbed PROVE Intact(u)'
    BY <1>14 DEF vars, IntactInv, Intact, OnePatch, OffsetKnown, Holds, WorksOn, IsPrefix
  <2> QED BY <1>14, <2>1, <2>2 DEF vars, IntactInv
<1> QED BY <1>1, <1>2, <1>3, <1>4, <1>5, <1>6, <1>7, <1>8, <1>9, <1>10, <1>11, <1>12, <1>13, <1>14 DEF Next

\* What is registered from an upload is the client's document, chunk for chunk,
\* unless two appends overlapped or a crash fell between an append and its save
\* (tus_patch, _finalize, register_document).
THEOREM RegisteredIntact == Spec => []UploadIntact
<1>1. IntactInv => UploadIntact
  BY DEF IntactInv
<1> QED BY <1>1, IntactInit, IntactStep, WorkInductive, PTL DEF Spec

-----------------------------------------------------------------------------
(* The originals.  Each content that is registered has exactly one         *)
(* original, and the original is in somebody's hands until it is read.     *)

Read(d) == doc[d].status = "done" /\ doc[d].commits = Commits

HasOriginal == \A d \in Registered : \E o \in Registered : doc[o].original /\ doc[o].content = doc[d].content

OneOriginal ==
    \A o, e \in Registered :
        doc[o].original /\ doc[e].original /\ doc[o].content = doc[e].content => o = e

OriginalKept == \A o \in Registered : doc[o].original => o \in interrupted \/ doc[o].blank \/ AtWork(o) \/ Read(o)

OriginalInv == HasOriginal /\ OneOriginal /\ OriginalKept

LEMMA OriginalInit == Init => OriginalInv
<1> SUFFICES ASSUME Init PROVE OriginalInv
  OBVIOUS
<1>1. \A d \in Docs : doc[d].status = "absent"
  BY DEF Init, NoDoc
<1>2. Registered = {}
  BY <1>1 DEF Registered
<1> QED BY <1>2 DEF OriginalInv, HasOriginal, OneOriginal, OriginalKept

\* Steps that change neither which documents there are nor whose original they are
LEMMA SameOriginals ==
    ASSUME OriginalInv, Registered' = Registered,
           \A d \in Registered :
             /\ doc'[d].content = doc[d].content /\ doc'[d].original = doc[d].original,
           OriginalKept'
    PROVE  OriginalInv'
<1>1. HasOriginal'
  BY DEF OriginalInv, HasOriginal
<1>2. OneOriginal'
  BY DEF OriginalInv, OneOriginal
<1> QED BY <1>1, <1>2 DEF OriginalInv

\* Steps of requests that are not processing a document
LEMMA OriginalAside ==
    ASSUME WorkInv, OriginalInv, UNCHANGED <<doc, queue, working, interrupted>>,
           \A r \in Requests : job[r].pc \in OnLoop => job'[r] = job[r]
    PROVE  OriginalInv'
<1>1. OriginalKept'
  <2> SUFFICES ASSUME NEW o \in Registered, doc[o].original
               PROVE  o \in interrupted \/ doc[o].blank \/ AtWork(o)' \/ Read(o)
    BY DEF OriginalKept, Registered, Read
  <2>1. CASE o \in interrupted \/ doc[o].blank \/ Read(o) \/ o \in queue \/ o = working
    BY <2>1 DEF AtWork
  <2>2. CASE \E r \in Requests : job[r].doc = o /\ job[r].pc \in OnLoop
    BY <2>2 DEF AtWork
  <2> QED BY <2>1, <2>2 DEF OriginalInv, OriginalKept, AtWork
<1> QED BY <1>1, SameOriginals DEF Registered

LEMMA OriginalFiles ==
    ASSUME WorkInv, OriginalInv,
           \/ \E u \in UploadIds, how \in {"sync", "async"} : Create(u, how)
           \/ \E u \in UploadIds : SweepPart(u) \/ SweepState(u)
    PROVE  OriginalInv'
<1>1. UNCHANGED <<doc, queue, working, interrupted, job>>
  BY DEF Create, SweepPart, SweepState, tables
<1> QED BY <1>1, OriginalAside

LEMMA OriginalRequest ==
    ASSUME WorkInv, OriginalInv, NEW r \in Requests,
           \/ \E u \in UploadIds, from \in 0..MaxSize :
                \E upto \in {from} \cup from..Length : PatchLoad(r, u, from, upto)
           \/ PatchAppend(r) \/ PatchRefused(r) \/ PatchMeasure(r) \/ PatchSave(r)
           \/ FinalizeRead(r) \/ FinalizeRefused(r) \/ Cleanup(r)
    PROVE  OriginalInv'
<1>1. UNCHANGED <<doc, queue, working, interrupted>>
  BY DEF PatchLoad, PatchAppend, PatchRefused, PatchMeasure, PatchSave, FinalizeRead, FinalizeRefused,
         Cleanup, files, tables
<1>2. job[r].pc \notin OnLoop
  BY DEF PatchLoad, PatchAppend, PatchRefused, PatchMeasure, PatchSave, FinalizeRead, FinalizeRefused,
         Cleanup, OnLoop
<1>3. \A s \in Requests \ {r} : job'[s] = job[s]
  <2>1. job \in [Requests -> Jobs]
    BY DEF WorkInv, TypeOK, Jobs
  <2>2. CASE \E u \in UploadIds, from \in 0..MaxSize :
                \E upto \in {from} \cup from..Length : PatchLoad(r, u, from, upto)
    BY <2>1, <2>2 DEF PatchLoad
  <2>3. CASE PatchAppend(r)
    BY <2>1, <2>3 DEF PatchAppend
  <2>4. CASE PatchRefused(r)
    BY <2>1, <2>4 DEF PatchRefused, Finish
  <2>5. CASE PatchMeasure(r)
    BY <2>1, <2>5 DEF PatchMeasure, Finish
  <2>6. CASE PatchSave(r)
    BY <2>1, <2>6 DEF PatchSave, Finish
  <2>7. CASE FinalizeRead(r)
    BY <2>1, <2>7 DEF FinalizeRead, Finish
  <2>8. CASE FinalizeRefused(r) \/ Cleanup(r)
    BY <2>1, <2>8 DEF FinalizeRefused, Cleanup, Finish
  <2> QED BY <2>2, <2>3, <2>4, <2>5, <2>6, <2>7, <2>8
<1> QED BY <1>1, <1>2, <1>3, OriginalAside

LEMMA OriginalRegister == ASSUME WorkInv, OriginalInv, NEW r \in Requests, NEW blank \in BOOLEAN, Register(r, blank) PROVE OriginalInv'
<1>1. PICK n : n = NewDoc
  OBVIOUS
<1>2. PICK known \in BOOLEAN : known = Known(job[r].bytes)
  <2>1. Known(job[r].bytes) \in BOOLEAN
    BY DEF Known
  <2> QED BY <2>1
<1>3. /\ Registered' = Registered \cup {n} /\ n \in Docs /\ n \notin Registered
      /\ \A d \in Docs \ {n} : doc'[d] = doc[d]
      /\ \A s \in Requests \ {r} : job'[s] = job[s] /\ job[s].pc \notin OnLoop
      /\ job'[r].doc = n
      /\ UNCHANGED <<queue, working, interrupted>>
  BY <1>1, RegisterStep
<1>4. doc'[n].content = job[r].bytes /\ doc'[n].original = ~known /\ doc'[n].blank = blank
  <2>1. /\ RowOf(job[r].upload, job[r].bytes, blank).content = job[r].bytes
        /\ RowOf(job[r].upload, job[r].bytes, blank).original = ~known
        /\ RowOf(job[r].upload, job[r].bytes, blank).blank = blank
    BY <1>2 DEF RowOf
  <2> QED BY <1>1, <2>1, RegisterStep
<1>5. ~known => blank \/ job'[r].pc \in OnLoop
  BY <1>2, RegisterStep DEF OnLoop
<1>6. known <=> \E d \in Registered : doc[d].content = doc'[n].content
  BY <1>2, <1>4 DEF Known
<1>7. \A d \in Registered : d \in Docs \ {n} /\ doc'[d] = doc[d]
  BY <1>3 DEF Registered
<1>8. HasOriginal'
  <2> SUFFICES ASSUME NEW d \in Registered'
               PROVE  \E o \in Registered' : doc'[o].original /\ doc'[o].content = doc'[d].content
    BY DEF HasOriginal
  <2>1. CASE d \in Registered
    <3>1. PICK o \in Registered : doc[o].original /\ doc[o].content = doc[d].content
      BY <2>1 DEF OriginalInv, HasOriginal
    <3> QED BY <1>3, <1>7, <2>1, <3>1
  <2>2. CASE d = n /\ known
    <3>1. PICK e \in Registered : doc[e].content = doc'[n].content
      BY <1>6, <2>2
    <3>2. PICK o \in Registered : doc[o].original /\ doc[o].content = doc[e].content
      BY DEF OriginalInv, HasOriginal
    <3> QED BY <1>3, <1>7, <2>2, <3>1, <3>2
  <2>3. CASE d = n /\ ~known
    BY <1>3, <1>4, <2>3
  <2> QED BY <1>3, <2>1, <2>2, <2>3
<1>9. OneOriginal'
  <2> SUFFICES ASSUME NEW o \in Registered', NEW e \in Registered', doc'[o].original, doc'[e].original,
                      doc'[o].content = doc'[e].content
               PROVE  o = e
    BY DEF OneOriginal
  <2>1. CASE o \in Registered /\ e \in Registered
    BY <1>7, <2>1 DEF OriginalInv, OneOriginal
  <2>2. CASE o = n /\ e \in Registered
    BY <1>4, <1>6, <1>7, <2>2
  <2>3. CASE e = n /\ o \in Registered
    BY <1>4, <1>6, <1>7, <2>3
  <2> QED BY <1>3, <2>1, <2>2, <2>3
<1>10. OriginalKept'
  <2> SUFFICES ASSUME NEW o \in Registered', doc'[o].original
               PROVE  o \in interrupted' \/ doc'[o].blank \/ AtWork(o)' \/ Read(o)'
    BY DEF OriginalKept
  <2>1. CASE o = n
    <3>1. job'[r].doc = o /\ (doc'[o].blank \/ job'[r].pc \in OnLoop)
      BY <1>3, <1>4, <1>5, <2>1
    <3> QED BY <3>1 DEF AtWork, OnLoop
  <2>2. CASE o \in Registered
    <3>1. \A s \in Requests : job[s].pc \notin OnLoop
      BY <1>3 DEF Register, OnLoop
    <3>2. o \in interrupted \/ doc[o].blank \/ o \in queue \/ o = working \/ Read(o)
      BY <1>7, <2>2, <3>1 DEF OriginalInv, OriginalKept, AtWork
    <3> QED BY <1>3, <1>7, <2>2, <3>2 DEF AtWork, Read
  <2> QED BY <1>3, <2>1, <2>2
<1> QED BY <1>8, <1>9, <1>10 DEF OriginalInv

LEMMA OriginalEnqueue == ASSUME WorkInv, OriginalInv, NEW r \in Requests, Enqueue(r) PROVE OriginalInv'
<1>1. /\ queue' = queue \cup {job[r].doc} /\ UNCHANGED <<doc, working, interrupted>>
      /\ \A s \in Requests \ {r} : job'[s] = job[s]
  BY DEF Enqueue, Goto, WorkInv, TypeOK
<1>2. \A o : AtWork(o) => AtWork(o)'
  BY <1>1 DEF AtWork
<1>3. OriginalKept'
  BY <1>1, <1>2 DEF OriginalInv, OriginalKept, Registered, Read
<1> QED BY <1>1, <1>3, SameOriginals DEF Registered

\* A commit ends with the document read or still being processed
LEMMA OriginalCommits ==
    ASSUME WorkInv, OriginalInv, NEW d \in Registered, CommittedTo(d), UNCHANGED interrupted,
           d \in interrupted \/ AtWork(d)' \/ doc[d].commits + 1 = Commits,
           \A o \in Docs \ {d} : AtWork(o) => AtWork(o)'
    PROVE  OriginalInv'
<1>1. Registered' = Registered /\ d \in Docs
  BY DEF CommittedTo, Registered
<1>2. \A o \in Registered :
        /\ doc'[o].content = doc[o].content /\ doc'[o].original = doc[o].original
        /\ doc'[o].blank = doc[o].blank
  BY DEF CommittedTo, Registered
<1>3. OriginalKept'
  <2> SUFFICES ASSUME NEW o \in Registered, doc[o].original
               PROVE  o \in interrupted' \/ doc'[o].blank \/ AtWork(o)' \/ Read(o)'
    BY <1>1, <1>2 DEF OriginalKept
  <2>1. CASE o = d
    BY <2>1 DEF CommittedTo, Read
  <2>2. CASE o # d
    <3>1. o \in Docs \ {d} /\ doc'[o] = doc[o]
      BY <2>2 DEF Registered, CommittedTo
    <3> QED BY <3>1 DEF OriginalInv, OriginalKept, Read
  <2> QED BY <2>1, <2>2
<1> QED BY <1>1, <1>2, <1>3, SameOriginals

LEMMA OriginalProcess ==
    ASSUME WorkInv, OriginalInv, NEW r \in Requests, ProcessCommit(r) PROVE OriginalInv'
<1>1. PICK d : d = job[r].doc
  OBVIOUS
<1>2. /\ job[r].pc = "processing" /\ doc' = [doc EXCEPT ![d] = Committed(@)]
      /\ UNCHANGED <<queue, working, interrupted>>
      /\ \A s \in Requests \ {r} : job'[s] = job[s]
      /\ job'[r].doc = d
      /\ doc[d].commits + 1 = Commits \/ job'[r].pc = "processing"
  BY <1>1 DEF ProcessCommit, Goto, WorkInv, TypeOK
<1>3. d \in Registered /\ doc[d].commits < Commits
  BY <1>1, <1>2 DEF WorkInv, RequestOK, OnLoop
<1>4. CommittedTo(d)
  BY <1>2, <1>3, CommitStep
<1>5. AtWork(d)' \/ doc[d].commits + 1 = Commits
  <2>1. CASE job'[r].pc = "processing"
    BY <1>2, <2>1 DEF AtWork, OnLoop
  <2> QED BY <1>2, <2>1
<1>6. ASSUME NEW o \in Docs \ {d}, AtWork(o) PROVE AtWork(o)'
  <2>1. ~(job[r].doc = o)
    BY <1>1
  <2> QED BY <1>2, <1>6, <2>1 DEF AtWork
<1> QED BY <1>2, <1>3, <1>4, <1>5, <1>6, OriginalCommits

LEMMA OriginalWorker == ASSUME WorkInv, OriginalInv, WorkerCommit PROVE OriginalInv'
<1>1. PICK d : d = working
  OBVIOUS
<1>2. /\ d \in Registered /\ doc[d].commits < Commits
      /\ doc' = [doc EXCEPT ![d] = Committed(@)] /\ UNCHANGED <<queue, job, interrupted>>
      /\ doc[d].commits + 1 = Commits \/ working' = d
  BY <1>1 DEF WorkerCommit, WorkInv
<1>3. CommittedTo(d)
  BY <1>2, CommitStep
<1>4. AtWork(d)' \/ doc[d].commits + 1 = Commits
  BY <1>2 DEF AtWork
<1>5. ASSUME NEW o \in Docs \ {d}, AtWork(o) PROVE AtWork(o)'
  BY <1>1, <1>2, <1>5 DEF AtWork
<1> QED BY <1>2, <1>3, <1>4, <1>5, OriginalCommits

\* Work that is taken from the queue, or cut short
LEMMA OriginalHanded ==
    ASSUME WorkInv, OriginalInv,
           \/ \E r \in Requests : ProcessFails(r)
           \/ \E d \in Docs : WorkerTake(d)
           \/ WorkerStops
           \/ Crash
    PROVE  OriginalInv'
<1>1. UNCHANGED doc /\ interrupted \subseteq interrupted'
  BY DEF ProcessFails, WorkerTake, WorkerStops, Crash, files, tables
<1>2. ASSUME NEW o \in Docs, AtWork(o) PROVE o \in interrupted' \/ AtWork(o)'
  <2>1. ASSUME NEW r \in Requests, ProcessFails(r) PROVE o \in interrupted' \/ AtWork(o)'
    <3>1. /\ interrupted' = interrupted \cup {job[r].doc} /\ UNCHANGED <<queue, working>>
          /\ \A s \in Requests \ {r} : job'[s] = job[s]
      BY <2>1 DEF ProcessFails, Finish, tables, WorkInv, TypeOK
    <3> QED BY <1>2, <3>1 DEF AtWork
  <2>2. ASSUME NEW d \in Docs, WorkerTake(d) PROVE AtWork(o)'
    <3>1. working' = d /\ queue' = queue \ {d} /\ job' = job /\ working = None
      BY <2>2 DEF WorkerTake
    <3>2. o # None
      BY NoneAssumption
    <3> QED BY <1>2, <3>1, <3>2 DEF AtWork
  <2>3. CASE WorkerStops
    BY <1>2, <2>3 DEF AtWork, WorkerStops
  <2>4. CASE Crash
    BY <1>2, <2>4 DEF AtWork, Crash, tables
  <2> QED BY <2>1, <2>2, <2>3, <2>4
<1>3. OriginalKept'
  BY <1>1, <1>2 DEF OriginalInv, OriginalKept, Registered, Read
<1> QED BY <1>1, <1>3, SameOriginals DEF Registered

LEMMA OriginalStep == WorkInv /\ OriginalInv /\ [Next]_vars => OriginalInv'
<1> SUFFICES ASSUME WorkInv, OriginalInv, [Next]_vars PROVE OriginalInv'
  OBVIOUS
<1>1. CASE \/ \E u \in UploadIds, how \in {"sync", "async"} : Create(u, how)
           \/ \E u \in UploadIds : SweepPart(u) \/ SweepState(u)
  BY <1>1, OriginalFiles
<1>2. ASSUME NEW r \in Requests,
             \/ \E u \in UploadIds, from \in 0..MaxSize :
                  \E upto \in {from} \cup from..Length : PatchLoad(r, u, from, upto)
             \/ PatchAppend(r) \/ PatchRefused(r) \/ PatchMeasure(r) \/ PatchSave(r)
             \/ FinalizeRead(r) \/ FinalizeRefused(r) \/ Cleanup(r)
      PROVE  OriginalInv'
  BY <1>2, OriginalRequest
<1>3. ASSUME NEW r \in Requests, NEW blank \in BOOLEAN, Register(r, blank) PROVE OriginalInv'
  BY <1>3, OriginalRegister
<1>4. ASSUME NEW r \in Requests, Enqueue(r) PROVE OriginalInv'
  BY <1>4, OriginalEnqueue
<1>5. ASSUME NEW r \in Requests, ProcessCommit(r) PROVE OriginalInv'
  BY <1>5, OriginalProcess
<1>6. CASE WorkerCommit
  BY <1>6, OriginalWorker
<1>7. CASE \/ \E r \in Requests : ProcessFails(r)
           \/ \E d \in Docs : WorkerTake(d)
           \/ WorkerStops
           \/ Crash
  BY <1>7, OriginalHanded
<1>8. CASE UNCHANGED vars
  BY <1>8, OriginalAside DEF vars
<1> QED BY <1>1, <1>2, <1>3, <1>4, <1>5, <1>6, <1>7, <1>8 DEF Next

LEMMA OriginalsServe == WorkInv /\ OriginalInv => OriginalRead
<1> SUFFICES ASSUME WorkInv, OriginalInv, NEW d \in Registered
             PROVE  \E o \in Registered :
                      /\ \A e \in Registered : doc[e].content = doc[d].content => (doc[e].original <=> e = o)
                      /\ doc[o].content = doc[d].content
                      /\ \/ o \in interrupted \/ doc[o].blank
                         \/ AtWork(o)
                         \/ doc[o].status = "done" /\ doc[o].commits = Commits
  BY DEF OriginalRead
<1>1. PICK o \in Registered : doc[o].original /\ doc[o].content = doc[d].content
  BY DEF OriginalInv, HasOriginal
<1>2. ASSUME NEW e \in Registered, doc[e].content = doc[d].content PROVE doc[e].original <=> e = o
  BY <1>1, <1>2 DEF OriginalInv, OneOriginal
<1>3. o \in interrupted \/ doc[o].blank \/ AtWork(o) \/ (doc[o].status = "done" /\ doc[o].commits = Commits)
  BY <1>1 DEF OriginalInv, OriginalKept, Read
<1> QED BY <1>1, <1>2, <1>3

\* Of the documents with one content exactly one is the original, and it has been
\* read in full, or is queued or being read, unless its processing was cut short or
\* no text was found in it (register_document, process_text, process_document).
THEOREM OriginalsRead == Spec => []OriginalRead
BY OriginalInit, OriginalStep, OriginalsServe, WorkInductive, PTL DEF Spec
=============================================================================
