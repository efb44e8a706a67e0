---------------------------- MODULE ArtifactStore ----------------------------
(***************************************************************************)
(* The artifacts of one session and the blobs it refers to.  Several       *)
(* handles are open on its directory at a time: an interpreter keeps one,  *)
(* every resource request and every delegated turn opens another.  A lock  *)
(* of the process serialises the writers of the session; blobs are shared  *)
(* with the other sessions, under nobody's lock.  A file appears whole, by *)
(* linking a synced temporary file into a name that must be free.  What a  *)
(* crash leaves is what the next open scans.                               *)
(* A text and a blob are named by their number of bytes.                   *)
(***************************************************************************)
EXTENDS Naturals, FiniteSets, FiniteSetsExt

CONSTANTS
  Handles,          \* ArtifactStore values open on the session
  Texts, Blobs,     \* contents, each the number of its bytes
  Ids,              \* artifact ids, an interval from 0
  MaxSessionBytes,  \* max_session_bytes
  MaxArtifacts,     \* max_artifact_count
  MaxBlobs,         \* max_blob_count
  EntrySlack,       \* the 64 directory entries allowed beyond three per artifact
  MaxTrouble        \* bound: crashes and file operations that fail

ASSUME ArtifactAssumption ==
  /\ Texts \subseteq Nat \ {0} /\ Blobs \subseteq Nat \ {0} /\ Ids \subseteq Nat
  /\ {MaxSessionBytes, MaxArtifacts, MaxBlobs, EntrySlack, MaxTrouble} \subseteq Nat

VARIABLES
  art,      \* per id: the lock file, the text and the metadata
  litter,   \* temporary files left in the artifact directory
  blobs,    \* the blobs on disk, of every session
  refs,     \* the session's blob references
  hand,     \* per handle: whether it is open, next_id, its snapshot of the namespace
  writer,   \* the handle that holds session_write_lock
  put,      \* per handle: the write it is in
  trouble,  \* crashes and failures so far
  given     \* the artifacts and blobs whose reference a caller was given

artVars == <<art, litter, blobs, refs, hand, writer, put, trouble, given>>

NoWriter == "none"
NoFiles == [lock |-> FALSE, txt |-> 0, meta |-> 0]
Closed == [open |-> FALSE, next |-> 0, refs |-> {}]
NoWrite == [at |-> "idle", id |-> 0, c |-> 0, fresh |-> FALSE]

ArtInit ==
  /\ art = [i \in Ids |-> NoFiles]
  /\ litter = 0 /\ blobs = {} /\ refs = {}
  /\ hand = [h \in Handles |-> Closed] /\ put = [h \in Handles |-> NoWrite]
  /\ writer = NoWriter
  /\ trouble = 0
  /\ given = [art |-> {}, blob |-> {}, twice |-> FALSE]

-----------------------------------------------------------------------------
(* Scanning the directory of a session.                                     *)

\* artifact_namespace_usage: the artifacts are the metadata files; every entry counts.
Listed == {i \in Ids : art[i].meta # 0}
TextBytes == FoldSet(LAMBDA i, n : n + art[i].txt, 0, Listed)
Entries ==
  litter + Cardinality(Listed) + Cardinality({i \in Ids : art[i].lock})
            + Cardinality({i \in Ids : art[i].txt # 0})

\* validate_loaded_ref and the size check: metadata without its text fails the scan.
Scans ==
  /\ Entries <= 3 * MaxArtifacts + EntrySlack
  /\ Cardinality(Listed) <= MaxArtifacts
  /\ \A i \in Listed : art[i].txt = art[i].meta
  /\ TextBytes <= MaxSessionBytes

\* blob_reference_usage
BlobBytes == FoldSet(LAMBDA b, n : n + b, 0, refs)
RefsScan == refs \subseteq blobs /\ Cardinality(refs) <= MaxBlobs

SessionBytes == TextBytes + BlobBytes
Fits(c) == SessionBytes + c <= MaxSessionBytes

Above(S) == IF S = {} THEN 0 ELSE Max(S) + 1

\* open_with_limits: under the writers' lock.
Open(h) ==
  /\ ~hand[h].open
  /\ writer = NoWriter
  /\ Scans /\ RefsScan /\ SessionBytes <= MaxSessionBytes
  /\ hand' = [hand EXCEPT ![h] = [open |-> TRUE, next |-> Above(Listed),
                                  refs |-> {<<i, art[i].meta>> : i \in Listed}]]
  /\ UNCHANGED <<art, litter, blobs, refs, writer, put, trouble, given>>

\* read and read_all_text look the id up in the handle's snapshot, then open its file.
ReadText(h, i) == IF \E r \in hand[h].refs : r[1] = i THEN art[i].txt ELSE 0

\* list_page scans again, whatever the handle's snapshot holds.
ListPage == {<<i, art[i].txt>> : i \in Listed}

\* The last clone of a handle is dropped.
Close(h) ==
  /\ hand[h].open /\ put[h] = NoWrite
  /\ hand' = [hand EXCEPT ![h] = Closed]
  /\ UNCHANGED <<art, litter, blobs, refs, writer, put, trouble, given>>

-----------------------------------------------------------------------------
(* A write of a text.                                                       *)

\* An id of the handle's own counter, whatever the directory holds.
FreeIdOfHandle(h) == hand[h].next

\* The loop over lock files: an id that is locked, or listed, is passed over.
FreeId(h) ==
  Min({i \in Ids : i >= hand[h].next /\ i >= Above(Listed) /\ ~art[i].lock /\ art[i].meta = 0}
        \cup {Max(Ids) + 1})

Goes(h, at) == put' = [put EXCEPT ![h].at = at]
Returns(h) == put' = [put EXCEPT ![h] = NoWrite] /\ writer' = NoWriter
FileFails == trouble < MaxTrouble /\ trouble' = trouble + 1

\* put_text up to the lock file of its id.
PutText(h) ==
  /\ hand[h].open /\ put[h] = NoWrite /\ writer = NoWriter
  /\ Scans /\ RefsScan /\ Cardinality(Listed) < MaxArtifacts
  /\ FreeId(h) \in Ids
  /\ \E c \in Texts :
       /\ Fits(c)
       /\ put' = [put EXCEPT ![h] = [at |-> "locked", id |-> FreeId(h), c |-> c, fresh |-> TRUE]]
  /\ art' = [art EXCEPT ![FreeId(h)].lock = TRUE]
  /\ hand' = [hand EXCEPT ![h].next = FreeId(h) + 1]
  /\ writer' = h
  /\ UNCHANGED <<litter, blobs, refs, trouble, given>>

\* Too much metadata in the session: the id is given up.
MetadataRefused(h) ==
  /\ put[h].at = "locked"
  /\ art' = [art EXCEPT ![put[h].id].lock = FALSE]
  /\ Returns(h)
  /\ UNCHANGED <<litter, blobs, refs, hand, trouble, given>>

\* write_atomic: a synced temporary file, linked to a name that must be free or hold
\* the same bytes; the temporary file goes with the step that follows.
TempWritten(h) ==
  /\ \/ put[h].at = "locked" /\ Goes(h, "text temp")
     \/ put[h].at = "text" /\ Goes(h, "meta temp")
  /\ UNCHANGED <<art, litter, blobs, refs, hand, writer, trouble, given>>

LinkText(h) ==
  LET i == put[h].id c == put[h].c
  IN /\ put[h].at = "text temp"
     /\ \/ /\ art[i].txt \in {0, c}
           /\ art' = [art EXCEPT ![i].txt = c]
           /\ Goes(h, "text")
        \/ /\ art[i].txt \notin {0, c}
           /\ Goes(h, "undo")
           /\ UNCHANGED art
     /\ UNCHANGED <<litter, blobs, refs, hand, writer, trouble, given>>

LinkMetadata(h) ==
  /\ put[h].at = "meta temp"
  /\ art' = [art EXCEPT ![put[h].id].meta = put[h].c]
  /\ Goes(h, "meta")
  /\ UNCHANGED <<litter, blobs, refs, hand, writer, trouble, given>>

\* The lock file goes, the handle's snapshot grows, the caller has its reference.
TextStored(h) ==
  LET i == put[h].id c == put[h].c
  IN /\ put[h].at = "meta"
     /\ art' = [art EXCEPT ![i].lock = FALSE]
     /\ hand' = [hand EXCEPT ![h].refs = @ \cup {<<i, c>>}]
     /\ given' = [given EXCEPT !.art = @ \cup {<<i, c>>},
                               !.twice = @ \/ \E g \in given.art : g[1] = i]
     /\ Returns(h)
     /\ UNCHANGED <<litter, blobs, refs, trouble>>

\* An error of the file system in either write.
WriteFails(h) ==
  /\ put[h].at \in {"text temp", "meta temp"} /\ FileFails
  /\ Goes(h, "undo")
  /\ UNCHANGED <<art, litter, blobs, refs, hand, writer, given>>

\* The lock file first, then the text, then the metadata; a removal that fails is
\* ignored.
Undo(h) ==
  LET i == put[h].id
  IN \/ /\ put[h].at = "undo"
        /\ art' = [art EXCEPT ![i].lock = FALSE]
        /\ Goes(h, "undo text")
        /\ UNCHANGED <<litter, blobs, refs, hand, writer, trouble, given>>
     \/ /\ put[h].at = "undo text"
        /\ \/ art' = [art EXCEPT ![i].txt = 0] /\ UNCHANGED trouble
           \/ FileFails /\ UNCHANGED art
        /\ Goes(h, "undo meta")
        /\ UNCHANGED <<litter, blobs, refs, hand, writer, given>>
     \/ /\ put[h].at = "undo meta"
        /\ art' = [art EXCEPT ![i].meta = 0]
        /\ Returns(h)
        /\ UNCHANGED <<litter, blobs, refs, hand, trouble, given>>

-----------------------------------------------------------------------------
(* A write of a blob.                                                       *)

\* put_blob: the quota is asked only if the session does not refer to it yet.
PutBlob(h) ==
  /\ hand[h].open /\ put[h] = NoWrite /\ writer = NoWriter
  /\ \E b \in Blobs :
       /\ \/ b \in refs /\ b \in blobs
          \/ b \notin refs /\ Scans /\ RefsScan /\ Cardinality(refs) < MaxBlobs /\ Fits(b)
       /\ put' = [put EXCEPT ![h] = [at |-> IF b \in blobs THEN "blob" ELSE "blob temp", id |-> 0,
                                     c |-> b, fresh |-> b \notin refs]]
  /\ writer' = h
  /\ UNCHANGED <<art, litter, blobs, refs, hand, trouble, given>>

\* Another session may have linked the same bytes meanwhile.
LinkBlob(h) ==
  /\ put[h].at = "blob temp"
  /\ blobs' = blobs \cup {put[h].c}
  /\ Goes(h, "blob")
  /\ UNCHANGED <<art, litter, refs, hand, writer, trouble, given>>

BlobStored(h) ==
  /\ put[h].at = "blob"
  /\ refs' = refs \cup {put[h].c}
  /\ given' = [given EXCEPT !.blob = @ \cup {put[h].c}]
  /\ Returns(h)
  /\ UNCHANGED <<art, litter, blobs, hand, trouble>>

BlobFails(h) ==
  /\ put[h].at \in {"blob temp", "blob"} /\ FileFails
  /\ Returns(h)
  /\ UNCHANGED <<art, litter, blobs, refs, hand, given>>

\* A writer of another session stores a blob; no lock is common to the two.
OtherSession ==
  /\ \E b \in Blobs : blobs' = blobs \cup {b}
  /\ UNCHANGED <<art, litter, refs, hand, writer, put, trouble, given>>

\* The process dies: locks, texts and the temporary file stay where they are.
ArtCrash ==
  /\ FileFails
  /\ litter' = litter + IF \E h \in Handles : put[h].at \in {"text temp", "text", "meta temp", "meta"}
                        THEN 1 ELSE 0
  /\ hand' = [h \in Handles |-> Closed] /\ put' = [h \in Handles |-> NoWrite]
  /\ writer' = NoWriter
  /\ UNCHANGED <<art, blobs, refs, given>>

ArtNext ==
  \/ \E h \in Handles :
       \/ Open(h) \/ Close(h)
       \/ PutText(h) \/ MetadataRefused(h) \/ TempWritten(h) \/ LinkText(h) \/ LinkMetadata(h)
       \/ TextStored(h) \/ WriteFails(h) \/ Undo(h)
       \/ PutBlob(h) \/ LinkBlob(h) \/ BlobStored(h) \/ BlobFails(h)
  \/ OtherSession \/ ArtCrash

ArtSpec == ArtInit /\ [][ArtNext]_artVars

-----------------------------------------------------------------------------
\* Whatever crashed or failed, the session can be opened again as long as the trouble
\* left no more than EntrySlack entries, three for each.
OpensAgain ==
  /\ 3 * trouble <= EntrySlack => Entries <= 3 * MaxArtifacts + EntrySlack
  /\ \A i \in Listed : art[i].txt = art[i].meta
  /\ Cardinality(Listed) <= MaxArtifacts
  /\ RefsScan

\* The byte limit holds over all handles, with the write that is in progress.
WithinQuota ==
  SessionBytes + FoldSet(LAMBDA h, n : n + put[h].c, 0,
    {h \in Handles : /\ put[h].fresh
                     /\ put[h].at \in {"locked", "text temp", "text", "meta temp", "blob temp", "blob"}})
    <= MaxSessionBytes

\* A reference that was given is good for ever: its id names that text and no other,
\* whatever later writers, failures and crashes do.
GivenIsKept ==
  /\ given.art \subseteq ListPage
  /\ ~given.twice
  /\ given.blob \subseteq refs

\* What a handle reads by its snapshot, however old, is what is stored.
SnapshotsHold ==
  \A h \in Handles : \A r \in hand[h].refs : ReadText(h, r[1]) = r[2]

ArtifactsSafe ==
  /\ OpensAgain
  /\ WithinQuota
  /\ GivenIsKept
  /\ SnapshotsHold
=============================================================================
