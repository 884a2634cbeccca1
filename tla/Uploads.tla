------------------------------- MODULE Uploads -------------------------------
(***************************************************************************)
(* Uploads of files to S3, in parts: chunks of data are collected, plain   *)
(* or through a compressor that keeps some back, and become a part when    *)
(* they are large enough, for S3 takes no small part but the last.  The    *)
(* file is there when the upload is completed, and not before.             *)
(***************************************************************************)
EXTENDS Naturals, Sequences, SequencesExt

CONSTANTS
  Procs, Names,
  Files,               \* what is uploaded: sequences of chunks
  SizeOf,              \* the size of each chunk
  MinimumSize,         \* minimum_size of the writers
  MaxUploads, MaxFaults, \* bounds
  Nothing

Chunks == DOMAIN SizeOf
UploadsConstants ==
  /\ {MinimumSize, MaxUploads, MaxFaults} \subseteq Nat /\ MinimumSize > 0
  /\ SizeOf \in [Chunks -> Nat \ {0}] /\ Files \subseteq Seq(Chunks)

VARIABLES
  file,                \* the files in the bucket, as sequences of chunks
  upload,              \* what each process uploads, has pending and has sent
  started, faults,
  excused              \* history: names that overlapping uploads wrote

vars == <<file, upload, started, faults, excused>>

Idle == [at |-> "idle", name |-> Nothing, data |-> <<>>, gzip |-> FALSE, replace |-> FALSE,
         left |-> <<>>, kept |-> <<>>, pending |-> <<>>, parts |-> <<>>]

Size(chunks) == FoldLeft(LAMBDA n, c : n + SizeOf[c], 0, chunks)
Fails == faults < MaxFaults /\ faults' = faults + 1

\* upload, up to the question whether the file is there
Upload(p, name, data, gzip, replace) ==
  /\ upload[p].at = "idle" /\ started < MaxUploads /\ started' = started + 1
  /\ upload' = [upload EXCEPT ![p] =
       [Idle EXCEPT !.at = IF replace THEN "initiate" ELSE "exists", !.name = name, !.data = data,
                    !.gzip = gzip, !.replace = replace, !.left = data]]
  /\ UNCHANGED <<file, faults, excused>>

\* KeyAlreadyExistsError
GetKey(p) ==
  /\ upload[p].at = "exists"
  /\ upload' = [upload EXCEPT ![p] = IF file[@.name] = Nothing THEN [@ EXCEPT !.at = "initiate"] ELSE Idle]
  /\ UNCHANGED <<file, started, faults, excused>>

InitiateMultipartUpload(p) ==
  /\ upload[p].at = "initiate" /\ upload' = [upload EXCEPT ![p].at = "push"]
  /\ UNCHANGED <<file, started, faults, excused>>

Ready(pending) == Size(pending) >= MinimumSize

\* _pop_part, and upload_part_from_file
PopPart(u) == [u EXCEPT !.parts = Append(@, u.pending), !.pending = <<>>]

\* A chunk is pending at once, or when the compressor gives it out.
PushChunk(p) ==
  LET u == upload[p]
      all == Append(u.kept, Head(u.left)) IN
  /\ u.at = "push" /\ u.left # <<>>
  /\ \E n \in (IF u.gzip THEN 0..Len(all) ELSE {Len(all)}) :
       LET given == u.pending \o SubSeq(all, 1, n)
           next == [u EXCEPT !.left = Tail(@), !.kept = SubSeq(all, n + 1, Len(all)), !.pending = given] IN
       upload' = [upload EXCEPT ![p] = IF Ready(given) THEN PopPart(next) ELSE next]
  /\ UNCHANGED <<file, started, faults, excused>>

LastPart(u) == IF u.pending = <<>> THEN u ELSE PopPart(u)

\* The compressor is closed, and the last part is what there is.
Finish(p) ==
  LET u == [upload[p] EXCEPT !.pending = @ \o upload[p].kept, !.kept = <<>>] IN
  /\ u.at = "push" /\ u.left = <<>>
  /\ upload' = [upload EXCEPT ![p] = [LastPart(u) EXCEPT !.at = "complete"]]
  /\ UNCHANGED <<file, started, faults, excused>>

CompleteUpload(p) ==
  LET u == upload[p]
      overlap == \E q \in Procs \ {p} : upload[q].name = u.name /\ upload[q].at # "exists" IN
  /\ u.at = "complete"
  /\ excused' = IF overlap THEN excused \union {u.name} ELSE excused
  /\ file' = [file EXCEPT ![u.name] = FlattenSeq(u.parts)]
  /\ upload' = [upload EXCEPT ![p] = Idle]
  /\ UNCHANGED <<started, faults>>

\* The chunks cannot be had, or a part not be sent, and the upload is cancelled; or it dies.
CancelUpload(p) ==
  /\ upload[p].at # "idle" /\ Fails
  /\ upload' = [upload EXCEPT ![p] = Idle]
  /\ UNCHANGED <<file, started, excused>>

Init ==
  /\ file = [k \in Names |-> Nothing] /\ upload = [p \in Procs |-> Idle]
  /\ started = 0 /\ faults = 0 /\ excused = {}

Next ==
  \E p \in Procs :
    \/ \E name \in Names, data \in Files, gzip \in BOOLEAN, replace \in BOOLEAN :
         Upload(p, name, data, gzip, replace)
    \/ GetKey(p) \/ InitiateMultipartUpload(p) \/ PushChunk(p) \/ Finish(p)
    \/ CompleteUpload(p) \/ CancelUpload(p)

Spec == Init /\ [][Next]_vars
-----------------------------------------------------------------------------
(* A file in the bucket is the whole of what somebody uploaded, however    *)
(* its chunks fell into parts, and S3 refuses no part: each but the last   *)
(* is large enough.  Nothing is replaced that should not be, unless two    *)
(* uploads of one name overlapped.                                         *)
FilesAreWhole ==
  /\ \A k \in Names : file[k] = Nothing \/ file[k] \in Files
  /\ \A p \in Procs : \A i \in 1..Len(upload[p].parts) :
       Ready(upload[p].parts[i]) \/ (i = Len(upload[p].parts) /\ upload[p].at = "complete")
  /\ \A p \in Procs : LET u == upload[p] IN
       (u.at = "complete" /\ ~u.replace /\ u.name \notin excused) => file[u.name] = Nothing
=============================================================================
