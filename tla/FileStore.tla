------------------------------- MODULE FileStore -------------------------------
(***************************************************************************)
(* The file store of one node and the fetch of a body from a peer          *)
(* (tet-core/src/files/, rest/handlers/files.rs, operator_hide.rs and the  *)
(* file arms of p2p.rs).                                                   *)
(*                                                                         *)
(* An upload checks and writes under write_lock; an announce, a delete and *)
(* the reaper change the same trees without it.  A body is named by the    *)
(* envelope whose SHA-256 it has, and a file id is chosen by the sender,   *)
(* so two envelopes may share one.                                         *)
(***************************************************************************)
EXTENDS Naturals, FiniteSets, FiniteSetsExt

CONSTANTS
    FileEnvelope,   \* 1..n -> [id, sender, receiver, size, at]: verified envelopes
    FileCalls,      \* concurrent uploads and fetches
    MaxBody, NetworkBody,   \* TET_FILES_MAX_BODY_BYTES, what a fetch answer carries
    MaxTotal,       \* TET_FILES_MAX_TOTAL_BYTES
    MaxFiles,       \* TET_FILES_MAX_ENTRIES
    FileTtl,
    MaxFileTime     \* bound

Files == DOMAIN FileEnvelope
FileId(f) == FileEnvelope[f].id
FileIds == {FileId(f) : f \in Files}
NoFile == 0
NoTaker == "none"

ASSUME FileAssumption ==
    /\ MaxBody \in Nat /\ NetworkBody \in Nat /\ MaxTotal \in Nat /\ MaxFiles \in Nat
    /\ FileTtl \in Nat /\ MaxFileTime \in Nat
    /\ Files \subseteq Nat \ {0} /\ IsFiniteSet(FileIds)
    /\ \A f \in Files : FileEnvelope[f].size \in Nat
    /\ NoTaker \notin FileCalls

VARIABLES
    fileMeta,   \* files_meta_v1: id -> envelope
    fileInbox,  \* files_inbox_v1: the envelopes with an inbox key
    fileBlob,   \* files_blob_v1: id -> the body there
    fileSize,   \* files_blob_size_v1
    writeLock,  \* the call that holds write_lock
    fileCalls,  \* uploads and fetches in flight
    fileHidden, \* operator_hidden_v1: wallets
    fileTime

fileVars == <<fileMeta, fileInbox, fileBlob, fileSize, writeLock, fileCalls, fileHidden, fileTime>>

FileExpired(f) == fileTime > FileEnvelope[f].at + FileTtl
Stored == {i \in FileIds : fileMeta[i] # NoFile}
PartyHidden(f) == {FileEnvelope[f].sender, FileEnvelope[f].receiver} \cap fileHidden # {}
IdleCall == [at |-> "idle", file |-> NoFile]
FileGoto(c, at) == fileCalls' = [fileCalls EXCEPT ![c].at = at]
FileEnds(c) == fileCalls' = [fileCalls EXCEPT ![c] = IdleCall]

(***************************************************************************)
(* The trees                                                               *)
(***************************************************************************)
\* total_blob_bytes without the file's own entry
StoredBeside(i) == SumFunctionOnSet(fileSize, FileIds \ {i})
\* Mutant: the store is full only once it is over its cap.
RoomOverCap(f) == StoredBeside(FileId(f)) <= MaxTotal
\* insert_blob, store_with_blob: room under the cap, the id's own body aside.
Room(f) == StoredBeside(FileId(f)) + FileEnvelope[f].size <= MaxTotal

\* The trees without the ids in gone.
\* Mutant: a deleted file keeps its inbox key.
DeleteLeavesInbox(gone, add) ==
    /\ fileMeta' = [i \in FileIds |-> IF i \in gone THEN NoFile ELSE fileMeta[i]]
    /\ fileInbox' = fileInbox \union add
    /\ fileBlob' = [i \in FileIds |-> IF i \in gone THEN NoFile ELSE fileBlob[i]]
    /\ fileSize' = [i \in FileIds |-> IF i \in gone THEN 0 ELSE fileSize[i]]
\* delete_file of every id in gone; the files in add enter meta and inbox.
DeleteAndAdd(gone, add) ==
    /\ fileMeta' = [i \in FileIds |-> IF \E f \in add : FileId(f) = i THEN CHOOSE f \in add : FileId(f) = i
                                      ELSE IF i \in gone THEN NoFile ELSE fileMeta[i]]
    /\ fileInbox' = (fileInbox \ {fileMeta[i] : i \in gone}) \union add
    /\ fileBlob' = [i \in FileIds |-> IF i \in gone THEN NoFile ELSE fileBlob[i]]
    /\ fileSize' = [i \in FileIds |-> IF i \in gone THEN 0 ELSE fileSize[i]]

Expired == {i \in Stored : FileExpired(fileMeta[i])}
\* store_meta: the first envelope keeps the id; a full index is pruned once.
StoreMeta(f) ==
    LET gone == IF Cardinality(Stored) >= MaxFiles THEN Expired ELSE {} IN
    IF fileMeta[FileId(f)] # NoFile THEN UNCHANGED <<fileMeta, fileInbox, fileBlob, fileSize>>
    ELSE DeleteAndAdd(gone, IF Cardinality(Stored \ gone) >= MaxFiles THEN {} ELSE {f})
MetaFull(f) ==
    /\ fileMeta[FileId(f)] = NoFile
    /\ Cardinality(Stored) >= MaxFiles /\ Cardinality(Stored \ Expired) >= MaxFiles

(***************************************************************************)
(* Uploads                                                                 *)
(***************************************************************************)
\* post_files_upload up to store_with_blob: the envelope verifies (its size is
\* within this node's cap), nobody to it is hidden, the body has its hash.
Upload(c, f) ==
    /\ fileCalls[c].at = "idle"
    /\ FileEnvelope[f].size \in 1..MaxBody /\ ~PartyHidden(f)
    /\ fileCalls' = [fileCalls EXCEPT ![c] = [at |-> "locking", file |-> f]]
    /\ UNCHANGED <<fileMeta, fileInbox, fileBlob, fileSize, writeLock, fileHidden, fileTime>>

\* store_with_blob: the lock, then who owns the id, then the room.
LockAndCheck(c) ==
    LET f == fileCalls[c].file  owner == fileMeta[FileId(f)] IN
    /\ fileCalls[c].at = "locking" /\ writeLock = NoTaker
    /\ IF owner \in {NoFile, f} /\ Room(f)
       THEN writeLock' = c /\ FileGoto(c, "meta")
       ELSE FileEnds(c) /\ UNCHANGED writeLock
    /\ UNCHANGED <<fileMeta, fileInbox, fileBlob, fileSize, fileHidden, fileTime>>

\* ... its store_meta, which may find the index full ...
WriteMeta(c) ==
    LET f == fileCalls[c].file IN
    /\ fileCalls[c].at = "meta"
    /\ StoreMeta(f)
    /\ IF MetaFull(f) THEN FileEnds(c) /\ writeLock' = NoTaker
                      ELSE FileGoto(c, "blob") /\ UNCHANGED writeLock
    /\ UNCHANGED <<fileHidden, fileTime>>

\* ... and insert_blob.  (An upload then gossips the envelope, for peers to Announce.)
WriteBlob(c) ==
    LET f == fileCalls[c].file IN
    /\ fileCalls[c].at = "blob"
    /\ IF Room(f) THEN /\ fileBlob' = [fileBlob EXCEPT ![FileId(f)] = f]
                       /\ fileSize' = [fileSize EXCEPT ![FileId(f)] = FileEnvelope[f].size]
                  ELSE UNCHANGED <<fileBlob, fileSize>>
    /\ writeLock' = NoTaker /\ FileEnds(c)
    /\ UNCHANGED <<fileMeta, fileInbox, fileHidden, fileTime>>

(***************************************************************************)
(* Without the lock                                                        *)
(***************************************************************************)
\* NetworkEvent::FileAnnounce on the swarm loop and post_files_announce.
Announce(f) ==
    /\ FileEnvelope[f].size \in 1..MaxBody
    /\ StoreMeta(f)
    /\ UNCHANGED <<writeLock, fileCalls, fileHidden, fileTime>>
\* delete_files: the stored sender's signed request.
DeleteFile(i) ==
    /\ i \in Stored
    /\ DeleteAndAdd({i}, {})
    /\ UNCHANGED <<writeLock, fileCalls, fileHidden, fileTime>>
\* The reaper's prune_expired.
ReapFiles ==
    /\ Expired # {}
    /\ DeleteAndAdd(Expired, {})
    /\ UNCHANGED <<writeLock, fileCalls, fileHidden, fileTime>>
\* OperatorHide::hide and unhide of a wallet.
ToggleHidden(w) ==
    /\ fileHidden' = IF w \in fileHidden THEN fileHidden \ {w} ELSE fileHidden \union {w}
    /\ UNCHANGED <<fileMeta, fileInbox, fileBlob, fileSize, writeLock, fileCalls, fileTime>>
FileTick ==
    /\ fileTime < MaxFileTime /\ fileTime' = fileTime + 1
    /\ UNCHANGED <<fileMeta, fileInbox, fileBlob, fileSize, writeLock, fileCalls, fileHidden>>

(***************************************************************************)
(* Fetching a body from a peer                                             *)
(***************************************************************************)
\* get_files_fetch on a miss: the request goes out for the envelope read now.
FetchMiss(c, i) ==
    /\ fileCalls[c].at = "idle" /\ i \in Stored /\ ~PartyHidden(fileMeta[i])
    /\ fileBlob[i] = NoFile \/ FileExpired(fileMeta[i])
    /\ fileCalls' = [fileCalls EXCEPT ![c] = [at |-> "fetching", file |-> fileMeta[i]]]
    /\ UNCHANGED <<fileMeta, fileInbox, fileBlob, fileSize, writeLock, fileHidden, fileTime>>
\* fetch_blob_from_peer: the envelope's hash and size decide.
BodyVerifies(f, body) == body = f
\* The peer's answer (serve_peer_fetch there, within what the codec carries), a refusal or the 35 s timeout.
FetchAnswer(c, body) ==
    /\ fileCalls[c].at = "fetching"
    /\ body # NoFile => FileId(body) = FileId(fileCalls[c].file) /\ FileEnvelope[body].size <= NetworkBody
    /\ IF BodyVerifies(fileCalls[c].file, body)
       THEN fileCalls' = [fileCalls EXCEPT ![c] = [@ EXCEPT !.at = "locking", !.file = body]]
       ELSE FileEnds(c)
    /\ UNCHANGED <<fileMeta, fileInbox, fileBlob, fileSize, writeLock, fileHidden, fileTime>>

FileInit ==
    /\ fileMeta = [i \in FileIds |-> NoFile] /\ fileBlob = [i \in FileIds |-> NoFile]
    /\ fileSize = [i \in FileIds |-> 0] /\ fileInbox = {}
    /\ writeLock = NoTaker /\ fileCalls = [c \in FileCalls |-> IdleCall]
    /\ fileHidden = {} /\ fileTime = 0

FileNext ==
    \/ \E c \in FileCalls :
        \/ \E f \in Files : Upload(c, f)
        \/ LockAndCheck(c) \/ WriteMeta(c) \/ WriteBlob(c)
        \/ \E i \in FileIds : FetchMiss(c, i)
        \/ \E body \in Files \union {NoFile} : FetchAnswer(c, body)
    \/ \E f \in Files : Announce(f)
    \/ \E i \in FileIds : DeleteFile(i)
    \/ ReapFiles
    \/ \E f \in Files : ToggleHidden(FileEnvelope[f].sender)
    \/ FileTick

FileSpec == FileInit /\ [][FileNext]_fileVars

(***************************************************************************)
(* Properties                                                              *)
(***************************************************************************)
\* Types of the file store.
FileTypeOK ==
    /\ fileMeta \in [FileIds -> Files \union {NoFile}] /\ fileBlob \in [FileIds -> Files \union {NoFile}]
    /\ fileInbox \subseteq Files
    /\ \A c \in FileCalls : fileCalls[c].at \in {"meta", "blob"} <=> writeLock = c

\* Every file has its one inbox key and no key is left over, whichever of
\* announce, upload, delete and reaper came last (store_meta, delete_file).
InboxMatchesMeta == fileInbox = {fileMeta[i] : i \in Stored}

\* The bodies kept never exceed the node's cap, and the index that measures
\* them is exact, with uploads, peer fetches and deletes under way at once
\* (insert_blob, remove_blob, total_blob_bytes).
BytesUnderCap ==
    /\ \A i \in FileIds : fileSize[i] = IF fileBlob[i] = NoFile THEN 0 ELSE FileEnvelope[fileBlob[i]].size
    /\ SumFunctionOnSet(fileSize, FileIds) <= MaxTotal

\* The index, the bodies and the measure of them agree, within the cap.
FilesSound == FileTypeOK /\ InboxMatchesMeta /\ BytesUnderCap

\* "Who owns a file id ... must not change between the check and the write": a
\* body kept under an id is the body of the envelope stored there.
BodyMatchesMeta ==
    \A i \in Stored : fileBlob[i] # NoFile => fileBlob[i] = fileMeta[i]
================================================================================
