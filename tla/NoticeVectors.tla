--------------------------- MODULE NoticeVectors ---------------------------
(***************************************************************************)
(* Stages 6 to 8: a vector of every notice is made (shared/embed.py), put  *)
(* into the index of this machine (search/vecstore.py) and into the        *)
(* database (collect/upload_vectors.py).  A vector is the fields of the    *)
(* notice it was made of, 0 is none.                                       *)
(***************************************************************************)
EXTENDS DailyStages

VARIABLES
  npz,      \* embeddings_v1.npz
  index,    \* Chroma
  vector,   \* notices.embedding
  read,     \* the notices embed.run has read
  changed   \* changed_ids

vectorVars == <<npz, index, vector, read, changed>>

Vectors == [Notices -> 0..MaxVersion]
NoVectors == [n \in Notices |-> 0]

VectorsOK ==
  /\ {npz, index, vector, read} \subseteq Vectors /\ changed \subseteq Notices
  /\ \A n \in Notices : npz[n] = 0 => index[n] = 0 /\ vector[n] = 0
  /\ stage = "encode" => \A n \in Notices : read[n] # 0

VectorsInit == npz = NoVectors /\ index = NoVectors /\ vector = NoVectors /\ read = NoVectors /\ changed = {}

-----------------------------------------------------------------------------
\* embed.run reads the notices; with nothing to make, vecstore.sync looks for what the
\* index lacks.
ReadNotices ==
  /\ IF npz = version
     THEN Go("embed", "index") /\ changed' = {n \in Notices : index[n] = 0} /\ UNCHANGED read
     ELSE Go("embed", "encode") /\ read' = version /\ UNCHANGED changed
  /\ UNCHANGED <<imported, faults, npz, index, vector>>

\* The new file replaces the old one at once.
WriteVectors ==
  /\ Go("encode", "index")
  /\ npz' = read /\ changed' = {n \in Notices : npz[n] # read[n]}
  /\ read' = NoVectors
  /\ UNCHANGED <<imported, faults, index, vector>>

EmbedFails ==
  /\ stage \in {"embed", "encode"} /\ stage' = "vectors" /\ Fault
  /\ read' = NoVectors
  /\ UNCHANGED <<imported, npz, index, vector, changed>>

\* sync; it may fail after a part.
SyncIndex(some) ==
  /\ Go("index", "vectors")
  /\ IF some = changed THEN UNCHANGED faults ELSE Fault
  /\ index' = [n \in Notices |-> IF n \in some THEN npz[n] ELSE index[n]]
  /\ changed' = {}
  /\ UNCHANGED <<imported, npz, vector, read>>

\* Mutant of ToUpload: only what is not there yet.
NewOnly == {n \in Notices : npz[n] # 0 /\ vector[n] = 0}

\* upload_vectors.plan
ToUpload == {n \in Notices : npz[n] # 0 /\ vector[n] # npz[n]}

UploadVectors(some) ==
  /\ Go("vectors", "files")
  /\ IF some = ToUpload THEN UNCHANGED faults ELSE Fault
  /\ vector' = [n \in Notices |-> IF n \in some THEN npz[n] ELSE vector[n]]
  /\ UNCHANGED <<imported, npz, index, read, changed>>

VectorsStopped == read' = NoVectors /\ changed' = {} /\ UNCHANGED <<npz, index, vector>>

VectorsStep ==
  \/ ReadNotices \/ WriteVectors \/ EmbedFails
  \/ \E some \in SUBSET changed : SyncIndex(some)
  \/ \E some \in SUBSET ToUpload : UploadVectors(some)
=============================================================================
