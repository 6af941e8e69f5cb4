----------------------------- MODULE StoresProofs -----------------------------
(*****************************************************************************)
(* Proofs about the stores of a node: the file store, the Shelter, the       *)
(* records of sites, listings and markings, and Tmail.                       *)
(*****************************************************************************)
EXTENDS FileStore, Shelter, Records, TmailStore, DataLemmas

-----------------------------------------------------------------------------
(* The file store.                                                           *)

\* Uploads and fetches under way.
FileCall == [at : {"idle"}, file : {NoFile}]
    \cup [at : {"locking", "meta", "blob", "fetching"}, file : Files]

\* The trees of the file store and the calls under way have their types.
FileTypes ==
    /\ fileMeta \in [FileIds -> Files \union {NoFile}] /\ fileBlob \in [FileIds -> Files \union {NoFile}]
    /\ fileSize \in [FileIds -> Nat] /\ fileInbox \in SUBSET Files
    /\ fileCalls \in [FileCalls -> FileCall]
\* The write lock is held by the one call past it.
LockSound == \A c \in FileCalls : fileCalls[c].at \in {"meta", "blob"} <=> writeLock = c
\* The metadata under an id is that of a file with this id.
MetaOwnsId == \A i \in FileIds : fileMeta[i] # NoFile => FileId(fileMeta[i]) = i
\* The size counted for an id is that of the blob under it.
SizeExact == \A i \in FileIds : fileSize[i] = IF fileBlob[i] = NoFile THEN 0 ELSE FileEnvelope[fileBlob[i]].size
\* What is counted stays under the cap.
FilesUnderCap == SumFunctionOnSet(fileSize, FileIds) <= MaxTotal

\* The inductive invariant of the file store.
FileInv == FileTypes /\ LockSound /\ MetaOwnsId /\ InboxMatchesMeta /\ SizeExact /\ FilesUnderCap

\* A file's id is an id.
LEMMA IdOfFile == ASSUME NEW f \in Files PROVE FileId(f) \in FileIds
BY DEF FileIds

\* No file is the absent one.
LEMMA FileZero == NoFile \notin Files
BY FileAssumption DEF NoFile

\* Storing at most one new file over evicted ones keeps the trees consistent.
LEMMA TreesKeep ==
    ASSUME FileTypes, MetaOwnsId, InboxMatchesMeta, SizeExact, FilesUnderCap,
           NEW lost \in SUBSET Stored, NEW add \in SUBSET Files,
           \A f, g \in add : f = g,
           \A f \in add : fileMeta[FileId(f)] = NoFile,
           DeleteAndAdd(lost, add)
    PROVE  /\ fileMeta' \in [FileIds -> Files \union {NoFile}] /\ fileBlob' \in [FileIds -> Files \union {NoFile}]
           /\ fileSize' \in [FileIds -> Nat] /\ fileInbox' \in SUBSET Files
           /\ MetaOwnsId' /\ InboxMatchesMeta' /\ SizeExact' /\ FilesUnderCap'
<1>1. ASSUME NEW i \in FileIds
      PROVE  fileMeta'[i] = IF \E f \in add : FileId(f) = i THEN CHOOSE f \in add : FileId(f) = i
                            ELSE IF i \in lost THEN NoFile ELSE fileMeta[i]
  BY DEF DeleteAndAdd
<1>2. ASSUME NEW f \in add PROVE FileId(f) \in FileIds /\ fileMeta'[FileId(f)] = f
  BY <1>1, IdOfFile
<1>3. ASSUME NEW i \in FileIds, \A f \in add : FileId(f) # i
      PROVE  fileMeta'[i] = IF i \in lost THEN NoFile ELSE fileMeta[i]
  BY <1>1, <1>3
<1>4. fileMeta' \in [FileIds -> Files \union {NoFile}]
  <2>1. fileMeta' = [i \in FileIds |-> fileMeta'[i]]
    BY DEF DeleteAndAdd
  <2>2. \A i \in FileIds : fileMeta'[i] \in Files \union {NoFile}
    BY <1>2, <1>3 DEF FileTypes
  <2> QED BY <2>1, <2>2
<1>5. /\ fileBlob' \in [FileIds -> Files \union {NoFile}] /\ fileSize' \in [FileIds -> Nat]
      /\ SizeExact'
  BY DEF DeleteAndAdd, FileTypes, SizeExact
<1>6. fileInbox' = (fileInbox \ {fileMeta[i] : i \in lost}) \union add
  BY DEF DeleteAndAdd
<1>7. fileInbox' \in SUBSET Files
  BY <1>6 DEF FileTypes
<1>8. MetaOwnsId'
  BY <1>2, <1>3 DEF MetaOwnsId
<1>9. InboxMatchesMeta'
  <2>1. Stored' = {i \in FileIds : fileMeta'[i] # NoFile}
    BY DEF Stored
  <2>2. ASSUME NEW x \in fileInbox' PROVE \E i \in Stored' : fileMeta'[i] = x
    <3>1. CASE x \in add
      BY <1>2, <2>1, <3>1, FileZero
    <3>2. CASE x \in fileInbox /\ x \notin add
      <4>1. PICK i \in Stored : fileMeta[i] = x
        BY <3>2 DEF InboxMatchesMeta
      <4>2. i \in FileIds /\ i \notin lost /\ \A f \in add : FileId(f) # i
        BY <1>6, <2>2, <3>2, <4>1 DEF Stored
      <4> QED BY <1>3, <2>1, <4>1, <4>2 DEF Stored
    <3> QED BY <1>6, <3>1, <3>2
  <2>3. ASSUME NEW i \in Stored' PROVE fileMeta'[i] \in fileInbox'
    <3>1. CASE \E f \in add : FileId(f) = i
      BY <1>2, <1>6, <3>1
    <3>2. CASE \A f \in add : FileId(f) # i
      <4>1. i \in FileIds /\ i \notin lost /\ fileMeta'[i] = fileMeta[i] /\ i \in Stored
        BY <1>3, <2>1, <2>3, <3>2 DEF Stored
      <4>2. \A j \in lost : fileMeta[j] # fileMeta[i]
        BY <4>1 DEF MetaOwnsId, Stored
      <4> QED BY <1>6, <4>1, <4>2 DEF InboxMatchesMeta
    <3> QED BY <3>1, <3>2
  <2>4. fileInbox' = {fileMeta'[i] : i \in Stored'}
    BY <2>2, <2>3
  <2> QED BY <2>4 DEF InboxMatchesMeta
<1>10. FilesUnderCap'
  <2>1. \A i \in FileIds : fileSize'[i] \in Int /\ fileSize[i] \in Int /\ fileSize'[i] <= fileSize[i]
    BY <1>5 DEF DeleteAndAdd, FileTypes
  <2>2. IsFiniteSet(FileIds) /\ MaxTotal \in Int
    BY FileAssumption
  <2>3. /\ SumFunctionOnSet(fileSize', FileIds) <= SumFunctionOnSet(fileSize, FileIds)
        /\ SumFunctionOnSet(fileSize', FileIds) \in Int /\ SumFunctionOnSet(fileSize, FileIds) \in Int
    BY <2>1, <2>2, SumLeq, SumInt
  <2>4. SumFunctionOnSet(fileSize', FileIds) <= MaxTotal
    BY <2>2, <2>3 DEF FilesUnderCap
  <2> QED BY <2>4 DEF FilesUnderCap
<1> QED BY <1>4, <1>5, <1>7, <1>8, <1>9, <1>10

TreesSound ==
    /\ fileMeta \in [FileIds -> Files \union {NoFile}] /\ fileBlob \in [FileIds -> Files \union {NoFile}]
    /\ fileSize \in [FileIds -> Nat] /\ fileInbox \in SUBSET Files
    /\ MetaOwnsId /\ InboxMatchesMeta /\ SizeExact /\ FilesUnderCap

\* store_meta writes one file whose id is free.
LEMMA StoreMetaKeeps ==
    ASSUME FileInv, NEW f \in Files, StoreMeta(f)
    PROVE  TreesSound'
<1>1. FileTypes /\ MetaOwnsId /\ InboxMatchesMeta /\ SizeExact /\ FilesUnderCap
  BY DEF FileInv
<1>2. CASE fileMeta[FileId(f)] # NoFile
  <2>1. fileMeta' = fileMeta /\ fileInbox' = fileInbox /\ fileBlob' = fileBlob /\ fileSize' = fileSize
    BY <1>2 DEF StoreMeta
  <2> QED BY <1>1, <2>1 DEF TreesSound, FileTypes, MetaOwnsId, InboxMatchesMeta, SizeExact, FilesUnderCap, Stored
<1>3. CASE fileMeta[FileId(f)] = NoFile
  <2>1. PICK lost \in SUBSET Stored, add \in SUBSET {f} : DeleteAndAdd(lost, add)
    BY <1>3 DEF StoreMeta, Expired
  <2>2. add \in SUBSET Files /\ (\A g, h \in add : g = h) /\ \A g \in add : fileMeta[FileId(g)] = NoFile
    BY <1>3
  <2> QED BY <1>1, <2>1, <2>2, TreesKeep DEF TreesSound
<1> QED BY <1>2, <1>3

\* Deleting files keeps the trees consistent.
LEMMA DeleteKeeps ==
    ASSUME FileInv, NEW lost \in SUBSET Stored, DeleteAndAdd(lost, {})
    PROVE  TreesSound'
<1>1. FileTypes /\ MetaOwnsId /\ InboxMatchesMeta /\ SizeExact /\ FilesUnderCap
  BY DEF FileInv
<1> QED BY <1>1, TreesKeep DEF TreesSound

\* A step that leaves the trees alone keeps what they say.
LEMMA SameTrees ==
    ASSUME FileInv, fileMeta' = fileMeta, fileInbox' = fileInbox, fileBlob' = fileBlob, fileSize' = fileSize
    PROVE  TreesSound'
BY DEF FileInv, TreesSound, FileTypes, MetaOwnsId, InboxMatchesMeta, SizeExact, FilesUnderCap, Stored

\* A step that leaves the calls alone keeps the lock sound.
LEMMA SameCalls ==
    ASSUME FileInv, TreesSound', fileCalls' = fileCalls, writeLock' = writeLock
    PROVE  FileInv'
BY DEF FileInv, TreesSound, FileTypes, LockSound

\* One call that moves keeps the lock sound if it takes or frees the lock as it should.
LEMMA CallMoves ==
    ASSUME FileInv, TreesSound', NEW c \in FileCalls, NEW r \in FileCall,
           fileCalls' = [fileCalls EXCEPT ![c] = r],
           \/ /\ fileCalls[c].at \notin {"meta", "blob"} /\ r.at \notin {"meta", "blob"}
              /\ writeLock' = writeLock
           \/ fileCalls[c].at \in {"meta", "blob"} /\ r.at \in {"meta", "blob"} /\ writeLock' = writeLock
           \/ writeLock = NoTaker /\ writeLock' = c /\ r.at \in {"meta", "blob"}
           \/ fileCalls[c].at \in {"meta", "blob"} /\ r.at \notin {"meta", "blob"} /\ writeLock' = NoTaker
    PROVE  FileInv'
<1>1. FileTypes'
  BY DEF FileInv, TreesSound, FileTypes
<1>2. LockSound'
  BY FileAssumption DEF FileInv, FileTypes, LockSound
<1> QED BY <1>1, <1>2 DEF FileInv, TreesSound

\* The idle call is one.
LEMMA IdleIsCall == IdleCall \in FileCall /\ IdleCall.at = "idle"
BY DEF IdleCall, FileCall

\* A call that moves on keeps its file.
LEMMA GotoIsCall ==
    ASSUME FileInv, NEW c \in FileCalls, fileCalls[c].at # "idle",
           NEW at \in {"locking", "meta", "blob", "fetching"}, FileGoto(c, at)
    PROVE  \E r \in FileCall : r.at = at /\ fileCalls' = [fileCalls EXCEPT ![c] = r]
<1> DEFINE r == [fileCalls[c] EXCEPT !.at = at]
<1>1. fileCalls' = [fileCalls EXCEPT ![c] = r]
  BY DEF FileGoto
<1>2. fileCalls[c] \in FileCall /\ fileCalls[c].file \in Files
  BY DEF FileInv, FileTypes, FileCall
<1>3. r \in FileCall /\ r.at = at
  BY <1>2 DEF FileCall
<1> QED BY <1>1, <1>3

\* An upload or fetch that begins keeps the invariant.
LEMMA UploadKeeps ==
    ASSUME FileInv, NEW c \in FileCalls, NEW f \in Files, Upload(c, f)
    PROVE  FileInv'
<1> DEFINE r == [at |-> "locking", file |-> f]
<1>1. r \in FileCall /\ r.at = "locking" /\ fileCalls' = [fileCalls EXCEPT ![c] = r] /\ writeLock' = writeLock
  BY DEF Upload, FileCall
<1> HIDE DEF r
<1>2. TreesSound'
  BY SameTrees DEF Upload
<1> QED BY <1>1, <1>2, CallMoves DEF Upload

\* Taking the lock and checking the cap keeps the invariant.
LEMMA LockAndCheckKeeps ==
    ASSUME FileInv, NEW c \in FileCalls, LockAndCheck(c)
    PROVE  FileInv'
<1>1. TreesSound'
  BY SameTrees DEF LockAndCheck
<1>2. fileCalls[c].at = "locking"
  BY DEF LockAndCheck
<1>3. CASE FileEnds(c) /\ writeLock' = writeLock
  BY <1>1, <1>2, <1>3, CallMoves, IdleIsCall DEF FileEnds
<1>4. CASE FileGoto(c, "meta") /\ writeLock' = c /\ writeLock = NoTaker
  BY <1>1, <1>2, <1>4, CallMoves, GotoIsCall
<1> QED BY <1>3, <1>4 DEF LockAndCheck

\* Writing the metadata keeps the invariant.
LEMMA WriteMetaKeeps ==
    ASSUME FileInv, NEW c \in FileCalls, WriteMeta(c)
    PROVE  FileInv'
<1>1. fileCalls[c].at = "meta" /\ fileCalls[c].file \in Files
  BY DEF WriteMeta, FileInv, FileTypes, FileCall
<1>2. TreesSound'
  BY <1>1, StoreMetaKeeps DEF WriteMeta
<1>3. CASE FileEnds(c) /\ writeLock' = NoTaker
  BY <1>1, <1>2, <1>3, CallMoves, IdleIsCall DEF FileEnds
<1>4. CASE FileGoto(c, "blob") /\ writeLock' = writeLock
  BY <1>1, <1>2, <1>4, CallMoves, GotoIsCall
<1> QED BY <1>3, <1>4 DEF WriteMeta

\* Writing the blob under the cap keeps the invariant.
LEMMA WriteBlobKeeps ==
    ASSUME FileInv, NEW c \in FileCalls, WriteBlob(c)
    PROVE  FileInv'
<1> DEFINE f == fileCalls[c].file
           i == FileId(f)
           z == FileEnvelope[f].size
<1>1. fileCalls[c].at = "blob" /\ f \in Files
  BY DEF WriteBlob, FileInv, FileTypes, FileCall
<1>2. i \in FileIds /\ z \in Nat /\ f # NoFile /\ IsFiniteSet(FileIds) /\ MaxTotal \in Nat
  BY <1>1, IdOfFile, FileZero, FileAssumption
<1>3. fileMeta' = fileMeta /\ fileInbox' = fileInbox
  BY DEF WriteBlob
<1>4. TreesSound'
  <2>1. CASE fileBlob' = fileBlob /\ fileSize' = fileSize
    BY <1>3, <2>1, SameTrees
  <2>2. CASE /\ Room(f)
             /\ fileBlob' = [fileBlob EXCEPT ![i] = f] /\ fileSize' = [fileSize EXCEPT ![i] = z]
    <3>1. fileBlob' \in [FileIds -> Files \union {NoFile}] /\ fileSize' \in [FileIds -> Nat]
      BY <1>1, <1>2, <2>2 DEF FileInv, FileTypes
    <3>2. SizeExact'
      BY <1>1, <1>2, <2>2 DEF FileInv, FileTypes, SizeExact
    <3>3. FilesUnderCap'
      <4>1. SumFunctionOnSet(fileSize, FileIds \ {i}) + z <= MaxTotal
        BY <2>2 DEF Room, StoredBeside
      <4>2. IsFiniteSet(FileIds \ {i}) /\ \A j \in FileIds \ {i} : fileSize'[j] = fileSize[j]
        BY <1>2, <2>2, FS_Subset DEF FileInv, FileTypes
      <4>3. SumFunctionOnSet(fileSize', FileIds \ {i}) = SumFunctionOnSet(fileSize, FileIds \ {i})
        BY <4>2, SumSame
      <4>4. SumFunctionOnSet(fileSize', FileIds) = fileSize'[i] + SumFunctionOnSet(fileSize', FileIds \ {i})
        BY <1>2, <3>1, SumRemove
      <4>5. SumFunctionOnSet(fileSize', FileIds \ {i}) \in Int
        BY <3>1, <4>2, SumInt
      <4>6. fileSize'[i] = z
        BY <1>2, <2>2 DEF FileInv, FileTypes
      <4> HIDE DEF i, z
      <4>7. SumFunctionOnSet(fileSize', FileIds) <= MaxTotal
        BY <1>2, <4>1, <4>3, <4>4, <4>5, <4>6
      <4> QED BY <4>7 DEF FilesUnderCap
    <3>4. MetaOwnsId' /\ InboxMatchesMeta'
      BY <1>3 DEF FileInv, MetaOwnsId, InboxMatchesMeta, Stored
    <3> QED BY <1>3, <3>1, <3>2, <3>3, <3>4 DEF TreesSound, FileInv, FileTypes
  <2> QED BY <2>1, <2>2 DEF WriteBlob
<1>5. writeLock' = NoTaker /\ FileEnds(c)
  BY DEF WriteBlob
<1> QED BY <1>1, <1>4, <1>5, CallMoves, IdleIsCall DEF FileEnds

\* A fetch that finds nothing keeps the invariant.
LEMMA FetchMissKeeps ==
    ASSUME FileInv, NEW c \in FileCalls, NEW i \in FileIds, FetchMiss(c, i)
    PROVE  FileInv'
<1> DEFINE r == [at |-> "fetching", file |-> fileMeta[i]]
<1>1. fileMeta[i] \in Files
  BY DEF FetchMiss, Stored, FileInv, FileTypes
<1>2. r \in FileCall /\ r.at = "fetching" /\ fileCalls' = [fileCalls EXCEPT ![c] = r] /\ writeLock' = writeLock
  BY <1>1 DEF FetchMiss, FileCall
<1> HIDE DEF r
<1>3. TreesSound'
  BY SameTrees DEF FetchMiss
<1> QED BY <1>2, <1>3, CallMoves DEF FetchMiss

\* A peer's answer keeps the invariant.
LEMMA FetchAnswerKeeps ==
    ASSUME FileInv, NEW c \in FileCalls, NEW body \in Files \union {NoFile}, FetchAnswer(c, body)
    PROVE  FileInv'
<1>1. fileCalls[c].at = "fetching" /\ writeLock' = writeLock /\ fileCalls[c] \in FileCall
  BY DEF FetchAnswer, FileInv, FileTypes
<1>2. TreesSound'
  BY SameTrees DEF FetchAnswer
<1>3. CASE FileEnds(c)
  BY <1>1, <1>2, <1>3, CallMoves, IdleIsCall DEF FileEnds
<1>4. CASE BodyVerifies(fileCalls[c].file, body)
  <2> DEFINE r == [fileCalls[c] EXCEPT !.at = "locking", !.file = body]
  <2>1. fileCalls' = [fileCalls EXCEPT ![c] = r]
    BY <1>4 DEF FetchAnswer
  <2>2. body \in Files
    BY <1>1, <1>4 DEF BodyVerifies, FileCall
  <2>3. r \in FileCall /\ r.at = "locking"
    BY <1>1, <2>2 DEF FileCall
  <2> HIDE DEF r
  <2> QED BY <1>1, <1>2, <2>1, <2>3, CallMoves
<1> QED BY <1>3, <1>4 DEF FetchAnswer

\* The store starts within its invariant.
LEMMA FileInitInv == FileInit => FileInv
<1> SUFFICES ASSUME FileInit PROVE FileInv
  OBVIOUS
<1>1. FileTypes
  BY IdleIsCall DEF FileInit, FileTypes
<1>2. LockSound
  BY IdleIsCall, FileAssumption DEF FileInit, LockSound
<1>3. MetaOwnsId /\ InboxMatchesMeta /\ SizeExact
  BY DEF FileInit, MetaOwnsId, InboxMatchesMeta, SizeExact, Stored, NoFile
<1>4. FilesUnderCap
  <2>1. IsFiniteSet(FileIds) /\ MaxTotal \in Nat
    BY FileAssumption
  <2>2. \A i \in FileIds : fileSize[i] = 0
    BY DEF FileInit
  <2>3. SumFunctionOnSet(fileSize, FileIds) = 0
    BY <2>1, <2>2, SumZero
  <2> QED BY <2>1, <2>3 DEF FilesUnderCap
<1> QED BY <1>1, <1>2, <1>3, <1>4 DEF FileInv

\* Every step of the store keeps the invariant.
LEMMA FileStepInv == FileInv /\ [FileNext]_fileVars => FileInv'
<1> SUFFICES ASSUME FileInv, [FileNext]_fileVars PROVE FileInv'
  OBVIOUS
<1>1. ASSUME NEW f \in Files, Announce(f) PROVE FileInv'
  BY <1>1, StoreMetaKeeps, SameCalls DEF Announce
<1>2. ASSUME NEW i \in FileIds, DeleteFile(i) PROVE FileInv'
  BY <1>2, DeleteKeeps, SameCalls DEF DeleteFile
<1>3. CASE ReapFiles
  BY <1>3, DeleteKeeps, SameCalls DEF ReapFiles, Expired
<1>4. ASSUME NEW w, ToggleHidden(w) PROVE FileInv'
  BY <1>4, SameTrees, SameCalls DEF ToggleHidden
<1>5. CASE FileTick \/ UNCHANGED fileVars
  BY <1>5, SameTrees, SameCalls DEF FileTick, fileVars
<1>6. CASE \E c \in FileCalls :
              \/ \E f \in Files : Upload(c, f)
              \/ LockAndCheck(c) \/ WriteMeta(c) \/ WriteBlob(c)
              \/ \E i \in FileIds : FetchMiss(c, i)
              \/ \E body \in Files \union {NoFile} : FetchAnswer(c, body)
  BY <1>6, UploadKeeps, LockAndCheckKeeps, WriteMetaKeeps, WriteBlobKeeps, FetchMissKeeps, FetchAnswerKeeps
<1> QED BY <1>1, <1>2, <1>3, <1>4, <1>5, <1>6 DEF FileNext

\* Metadata, inbox index, blobs and their counted size agree and stay under the cap
\* (tet-core src/files), however uploads, fetches, deletions and evictions interleave,
\* for all constants.
THEOREM FilesAreSound == FileSpec => []FilesSound
<1>1. FileInv => FilesSound
  BY DEF FileInv, FilesSound, FileTypes, FileTypeOK, LockSound, BytesUnderCap, SizeExact, FilesUnderCap
<1> QED BY <1>1, FileInitInv, FileStepInv, PTL DEF FileSpec

-----------------------------------------------------------------------------
(* The Shelter: what replay gives.                                           *)

\* A member: number, voucher and nickname.
ShMember == [number : Nat, via : Wallet, nick : Nicknames \cup {NoNick}]
\* A case against a member and where its appeal stands.
ShCase == [subject : Wallet, voucher : Wallet, at : Nat, was : BOOLEAN, appeal : {"open", "overturn", "keep"}]
\* What the text field of a record can hold.
ShText == STRING \cup Nicknames \cup {"-", "overturn", "keep"}
\* The records the membership log takes.
ShRecord == [action : {"invite", "vouch", "withdraw", "nickname", "case", "appeal"}, signer : Wallet,
             subject : Wallet, case : Nat, text : ShText, at : Nat]
\* What replaying the log can give.
ShState == [members : [Wallet -> ShMember], left : [Wallet -> ShMember], removed : [Wallet -> ShMember],
            given : [Wallet -> Nat], cases : Seq(ShCase), next : Nat]

\* A wallet is a member, has left, or was removed, never two of these.
OnePlace(s) ==
    \A w \in Wallet : /\ s.members[w] # Outside => s.left[w] = Outside /\ s.removed[w] = Outside
                      /\ s.left[w] # Outside => s.removed[w] = Outside
\* The number of a wallet, wherever it stands.
Id(s, w) == IF s.members[w] # Outside THEN s.members[w].number
            ELSE IF s.left[w] # Outside THEN s.left[w].number ELSE s.removed[w].number
\* Numbers given out lie below the next one.
Counted(s) ==
    \A w \in Wallet : /\ s.members[w] # Outside => s.members[w].number # 0
                      /\ s.left[w] # Outside => s.left[w].number # 0
                      /\ s.removed[w] # Outside => s.removed[w].number # 0
\* No two wallets have one number.
Numbered(s) ==
    /\ \A w \in Wallet : Id(s, w) < s.next
    /\ \A w, v \in Wallet : w # v /\ Id(s, w) # 0 => Id(s, w) # Id(s, v)
\* Vouches a wallet may give.
Limit(w) == IF w = Moderator THEN ModInvites ELSE Vouches
\* Nobody gave more vouches than it has.
GivenBounded(s) == \A w \in Wallet : s.given[w] <= Limit(w)
\* No two members share a nickname.
NicksDiffer(s) ==
    \A w, v \in Wallet : w # v /\ s.members[w].nick # NoNick => s.members[w].nick # s.members[v].nick
\* What every replayed state satisfies.
StateInv(s) == s \in ShState /\ s.next # 0 /\ OnePlace(s) /\ Counted(s) /\ Numbered(s) /\ GivenBounded(s) /\ NicksDiffer(s)

\* The empty place is one, without number or nickname.
LEMMA OutsideTyped == Outside \in ShMember /\ Outside.number = 0 /\ Outside.nick = NoNick
BY ShelterAssumption DEF Outside, ShMember

\* A state that keeps every number keeps them apart and counted.
LEMMA SameIds ==
    ASSUME NEW s \in ShState, NEW t \in ShState, Numbered(s), t.next = s.next,
           \A w \in Wallet : Id(t, w) = Id(s, w)
    PROVE  Numbered(t)
BY DEF Numbered, Id

\* Letting a wallet in, by invitation or vouch, keeps the rules.
LEMMA LetInKeeps ==
    ASSUME NEW s, NEW r \in ShRecord, StateInv(s), s.members[r.subject] = Outside, s.removed[r.subject] = Outside,
           s.given[r.signer] < Limit(r.signer)
    PROVE  StateInv(LetIn(s, r))
<1> DEFINE m == [number |-> s.next, via |-> r.signer, nick |-> NoNick]
<1>1. PICK t : t = LetIn(s, r)
  OBVIOUS
<1>2. s \in ShState /\ OnePlace(s) /\ Counted(s) /\ Numbered(s) /\ GivenBounded(s) /\ NicksDiffer(s) /\ s.next # 0
  BY DEF StateInv
<1>3. r.signer \in Wallet /\ r.subject \in Wallet
  BY DEF ShRecord
<1>4. m \in ShMember /\ m # Outside /\ m.number = s.next /\ m.nick = NoNick
  BY <1>2, <1>3 DEF ShMember, ShState, Outside
<1>5. /\ t.members = [s.members EXCEPT ![r.subject] = m]
      /\ t.left = [s.left EXCEPT ![r.subject] = Outside]
      /\ t.removed = s.removed /\ t.cases = s.cases /\ t.next = s.next + 1
      /\ t.given = [s.given EXCEPT ![r.signer] = s.given[r.signer] + 1]
      /\ t = [members |-> t.members, left |-> t.left, removed |-> t.removed, given |-> t.given, cases |-> t.cases, next |-> t.next]
  BY <1>1, <1>2 DEF LetIn, ShState
<1>6. t \in ShState
  <2>1. /\ t.members \in [Wallet -> ShMember] /\ t.left \in [Wallet -> ShMember] /\ t.removed \in [Wallet -> ShMember]
        /\ t.given \in [Wallet -> Nat] /\ t.cases \in Seq(ShCase) /\ t.next \in Nat
    BY <1>2, <1>3, <1>4, <1>5, OutsideTyped DEF ShState
  <2> QED BY <2>1, <1>5 DEF ShState
<1> HIDE DEF m
<1>7. \A w \in Wallet : /\ t.members[w] = IF w = r.subject THEN m ELSE s.members[w]
                        /\ t.left[w] = IF w = r.subject THEN Outside ELSE s.left[w]
                        /\ t.removed[w] = s.removed[w]
                        /\ t.given[w] = IF w = r.signer THEN s.given[w] + 1 ELSE s.given[w]
                        /\ s.given[w] \in Nat
  BY <1>2, <1>3, <1>5 DEF ShState
<1>8. OnePlace(t)
  BY <1>2, <1>4, <1>7 DEF OnePlace
<1>9. Counted(t)
  BY <1>2, <1>4, <1>7 DEF Counted
<1>10. Numbered(t)
  <2>1. Id(t, r.subject) = s.next
    BY <1>3, <1>4, <1>7 DEF Id
  <2>2. \A w \in Wallet : w # r.subject => Id(t, w) = Id(s, w)
    BY <1>7 DEF Id
  <2>3. \A w \in Wallet : Id(s, w) \in Nat /\ s.next \in Nat
    BY <1>2 DEF Id, ShState, ShMember
  <2> QED BY <2>1, <2>2, <2>3, <1>2, <1>3, <1>5 DEF Numbered
<1>11. GivenBounded(t)
  <2>1. \A w \in Wallet : Limit(w) \in Nat
    BY ShelterAssumption DEF Limit
  <2> QED BY <2>1, <1>2, <1>7 DEF GivenBounded
<1>12. NicksDiffer(t)
  BY <1>2, <1>4, <1>7 DEF NicksDiffer
<1> QED BY <1>1, <1>2, <1>5, <1>6, <1>8, <1>9, <1>10, <1>11, <1>12 DEF StateInv, ShState

\* OnePlace at one wallet.
OneAt(t, w) == /\ t.members[w] # Outside => t.left[w] = Outside /\ t.removed[w] = Outside
               /\ t.left[w] # Outside => t.removed[w] = Outside
\* A wallet in the log has a number.
PositiveAt(t, w) == /\ t.members[w] # Outside => t.members[w].number # 0
                    /\ t.left[w] # Outside => t.left[w].number # 0
                    /\ t.removed[w] # Outside => t.removed[w].number # 0
\* Nobody else has the nickname a wallet has now.
NickFree(s, t, w) == t.members[w].nick = NoNick \/ \A v \in Wallet : v # w => s.members[v].nick # t.members[w].nick

\* Two states agree on every wallet but one.
SameElse(s, t, w0) ==
    \A w \in Wallet : w # w0 => /\ t.members[w] = s.members[w] /\ t.left[w] = s.left[w]
                                 /\ t.removed[w] = s.removed[w]

\* A record that changes one wallet and keeps its number keeps the rules.
LEMMA ChangeOne ==
    ASSUME NEW s, StateInv(s), NEW w0 \in Wallet, NEW t \in ShState, t.next = s.next, t.given = s.given,
           SameElse(s, t, w0),
           OneAt(t, w0), PositiveAt(t, w0), Id(t, w0) = Id(s, w0), NickFree(s, t, w0)
    PROVE  StateInv(t)
<1>1. s \in ShState /\ OnePlace(s) /\ Counted(s) /\ Numbered(s) /\ GivenBounded(s) /\ NicksDiffer(s) /\ s.next # 0
  BY DEF StateInv
<1>2. OnePlace(t)
  BY <1>1 DEF OnePlace, OneAt, SameElse
<1>3. Counted(t)
  BY <1>1 DEF Counted, PositiveAt, SameElse
<1>4. \A w \in Wallet : Id(t, w) = Id(s, w)
  BY DEF Id, SameElse
<1>5. Numbered(t)
  BY <1>1, <1>4, SameIds
<1>6. GivenBounded(t)
  BY <1>1 DEF GivenBounded
<1>7. NicksDiffer(t)
  BY <1>1 DEF NicksDiffer, NickFree, SameElse
<1> QED BY <1>1, <1>2, <1>3, <1>5, <1>6, <1>7 DEF StateInv

\* A withdrawal keeps the rules.
LEMMA WithdrawKeeps ==
    ASSUME NEW s, StateInv(s), NEW w0 \in Wallet, s.members[w0] # Outside
    PROVE  StateInv([s EXCEPT !.left[w0] = s.members[w0], !.members[w0] = Outside])
<1>1. PICK t : t = [s EXCEPT !.left[w0] = s.members[w0], !.members[w0] = Outside]
  OBVIOUS
<1>2. s \in ShState /\ OnePlace(s) /\ Counted(s)
  BY DEF StateInv
<1>3. /\ t.members = [s.members EXCEPT ![w0] = Outside]
      /\ t.left = [s.left EXCEPT ![w0] = s.members[w0]]
      /\ t.removed = s.removed /\ t.cases = s.cases /\ t.next = s.next /\ t.given = s.given
      /\ t = [members |-> t.members, left |-> t.left, removed |-> t.removed, given |-> t.given, cases |-> t.cases, next |-> t.next]
  BY <1>1, <1>2 DEF ShState
<1>4. t \in ShState
  BY <1>2, <1>3, OutsideTyped DEF ShState
<1>5. SameElse(s, t, w0)
  BY <1>2, <1>3 DEF ShState, SameElse
<1>6. t.members[w0] = Outside /\ t.left[w0] = s.members[w0] /\ t.removed[w0] = s.removed[w0]
  BY <1>2, <1>3 DEF ShState
<1>7. OneAt(t, w0)
  BY <1>2, <1>6 DEF OneAt, OnePlace
<1>8. PositiveAt(t, w0)
  BY <1>2, <1>6 DEF PositiveAt, Counted
<1>9. Id(t, w0) = Id(s, w0)
  BY <1>6 DEF Id
<1>10. NickFree(s, t, w0)
  BY <1>6, OutsideTyped DEF NickFree
<1>11. StateInv(t)
  BY <1>3, <1>4, <1>5, <1>7, <1>8, <1>9, <1>10, ChangeOne
<1> QED BY <1>1, <1>11

\* A nickname nobody holds keeps the rules.
LEMMA NicknameKeeps ==
    ASSUME NEW s, StateInv(s), NEW w0 \in Wallet, s.members[w0] # Outside, NEW n \in Nicknames,
           \A w \in Wallet \ {w0} : s.members[w].nick # n
    PROVE  StateInv([s EXCEPT !.members[w0].nick = n])
<1>1. PICK t : t = [s EXCEPT !.members[w0].nick = n]
  OBVIOUS
<1>2. s \in ShState /\ OnePlace(s) /\ Counted(s)
  BY DEF StateInv
<1>a. PICK m : m = [s.members[w0] EXCEPT !.nick = n]
  OBVIOUS
<1>b. s.members[w0] \in ShMember
  BY <1>2 DEF ShState
<1>c. m \in ShMember /\ m.number = s.members[w0].number /\ m.nick = n
  BY <1>a, <1>b DEF ShMember
<1>d. m # Outside
  BY <1>c, <1>2, OutsideTyped DEF Counted
<1>3. /\ t.members = [s.members EXCEPT ![w0] = m]
      /\ t.left = s.left
      /\ t.removed = s.removed /\ t.cases = s.cases /\ t.next = s.next /\ t.given = s.given
      /\ t = [members |-> t.members, left |-> t.left, removed |-> t.removed, given |-> t.given, cases |-> t.cases, next |-> t.next]
  BY <1>1, <1>2, <1>a DEF ShState
<1>4. t \in ShState
  BY <1>2, <1>3, <1>c DEF ShState
<1>5. SameElse(s, t, w0)
  BY <1>2, <1>3 DEF ShState, SameElse
<1>6. t.members[w0] = m /\ t.left[w0] = s.left[w0] /\ t.removed[w0] = s.removed[w0]
  BY <1>2, <1>3 DEF ShState
<1>7. OneAt(t, w0)
  BY <1>2, <1>6 DEF OneAt, OnePlace
<1>8. PositiveAt(t, w0)
  BY <1>2, <1>6, <1>c DEF PositiveAt, Counted
<1>9. Id(t, w0) = Id(s, w0)
  BY <1>6, <1>c, <1>d DEF Id
<1>10. NickFree(s, t, w0)
  BY <1>6, <1>c DEF NickFree
<1>11. StateInv(t)
  BY <1>3, <1>4, <1>5, <1>7, <1>8, <1>9, <1>10, ChangeOne
<1> QED BY <1>1, <1>11

\* A case against a member keeps the rules.
LEMMA CaseKeeps ==
    ASSUME NEW s, StateInv(s), NEW r \in ShRecord, s.members[r.subject] # Outside \/ s.left[r.subject] # Outside,
           r.action = "case"
    PROVE  StateInv(Apply(s, r))
<1> DEFINE w0 == r.subject
           was == s.members[w0] # Outside
           m == IF was THEN s.members[w0] ELSE s.left[w0]
           c == [subject |-> w0, voucher |-> m.via, at |-> r.at, was |-> was, appeal |-> "open"]
<1>1. PICK t : t = Apply(s, r)
  OBVIOUS
<1>2. s \in ShState /\ OnePlace(s) /\ Counted(s)
  BY DEF StateInv
<1>w. w0 \in Wallet /\ r.at \in Nat
  BY DEF ShRecord
<1>c. m \in ShMember /\ m # Outside
  BY <1>2, <1>w DEF ShState
<1>d. m.via \in Wallet
  BY <1>c DEF ShMember
<1>e. c \in ShCase
  BY <1>d, <1>w DEF ShCase
<1>3. /\ t.members = [s.members EXCEPT ![w0] = Outside]
      /\ t.left = [s.left EXCEPT ![w0] = IF was THEN s.left[w0] ELSE Outside]
      /\ t.removed = [s.removed EXCEPT ![w0] = m] /\ t.cases = Append(s.cases, c) /\ t.next = s.next /\ t.given = s.given
      /\ t = [members |-> t.members, left |-> t.left, removed |-> t.removed, given |-> t.given, cases |-> t.cases, next |-> t.next]
  BY <1>1, <1>2 DEF ShState, Apply, In
<1> HIDE DEF m, c
<1>4. t \in ShState
  <2>1. s.left[w0] \in ShMember
    BY <1>2, <1>w DEF ShState
  <2>2. Append(s.cases, c) \in Seq(ShCase)
    BY <1>2, <1>e DEF ShState
  <2>3. /\ t.members \in [Wallet -> ShMember] /\ t.left \in [Wallet -> ShMember] /\ t.removed \in [Wallet -> ShMember]
        /\ t.given \in [Wallet -> Nat] /\ t.cases \in Seq(ShCase) /\ t.next \in Nat
    <3>1. (IF was THEN s.left[w0] ELSE Outside) \in ShMember
      BY <2>1, OutsideTyped
    <3>2. t.left \in [Wallet -> ShMember]
      BY <3>1, <1>2, <1>3 DEF ShState
    <3>3. t.members \in [Wallet -> ShMember]
      BY <1>2, <1>3, OutsideTyped DEF ShState
    <3>4. t.removed \in [Wallet -> ShMember]
      <4>1. s.removed \in [Wallet -> ShMember] /\ t.removed = [s.removed EXCEPT ![w0] = m] /\ m \in ShMember
        BY <1>2, <1>3, <1>c DEF ShState
      <4> QED BY <4>1
    <3> QED BY <2>2, <3>2, <3>3, <3>4, <1>2, <1>3 DEF ShState
  <2> QED BY <2>3, <1>3 DEF ShState
<1>5. SameElse(s, t, w0)
  BY <1>2, <1>3 DEF ShState, SameElse
<1>6. t.members[w0] = Outside /\ t.left[w0] = (IF was THEN s.left[w0] ELSE Outside) /\ t.removed[w0] = m
  BY <1>2, <1>3, <1>w DEF ShState
<1>61. t.left[w0] = Outside
  BY <1>6, <1>2, <1>w DEF OnePlace
<1>62. m = IF was THEN s.members[w0] ELSE s.left[w0]
  BY DEF m
<1>7. OneAt(t, w0)
  BY <1>6, <1>61 DEF OneAt
<1>8. PositiveAt(t, w0)
  BY <1>2, <1>6, <1>61, <1>62, <1>w DEF PositiveAt, Counted
<1>9. Id(t, w0) = Id(s, w0)
  BY <1>6, <1>61, <1>62 DEF Id
<1>10. NickFree(s, t, w0)
  BY <1>6, OutsideTyped DEF NickFree
<1>11. StateInv(t)
  BY <1>3, <1>4, <1>5, <1>7, <1>8, <1>9, <1>10, <1>w, ChangeOne
<1> QED BY <1>1, <1>11

\* Restoring a member after a won appeal keeps the rules.
LEMMA RestoreKeeps ==
    ASSUME NEW s, StateInv(s), NEW i \in DOMAIN s.cases
    PROVE  StateInv(Restore(s, i))
<1> DEFINE w0 == s.cases[i].subject
           old == s.removed[w0]
           taken == old.nick # NoNick /\ \E w \in Wallet : s.members[w].nick = old.nick
           m == IF taken THEN [old EXCEPT !.nick = NoNick] ELSE old
<1>2. s \in ShState /\ OnePlace(s) /\ Counted(s)
  BY DEF StateInv
<1>w. w0 \in Wallet /\ s.cases[i].was \in BOOLEAN
  <2>1. s.cases[i] \in ShCase
    BY <1>2 DEF ShState
  <2> QED BY <2>1 DEF ShCase
<1>1. CASE old = Outside
  BY <1>1 DEF Restore
<1>3. CASE old # Outside
  <2>1. old \in ShMember
    BY <1>2, <1>w DEF ShState
  <2>2. m \in ShMember /\ m.number = old.number
    BY <2>1 DEF ShMember
  <2>3. m.nick = NoNick \/ \A v \in Wallet : s.members[v].nick # m.nick
    BY <2>1 DEF ShMember
  <2>4. old.number # 0
    BY <1>2, <1>3, <1>w DEF Counted
  <2>5. m # Outside
    BY <2>2, <2>4, OutsideTyped
  <2>6. s.members[w0] = Outside /\ s.left[w0] = Outside
    BY <1>2, <1>3, <1>w DEF OnePlace
  <2>7. Id(s, w0) = old.number
    BY <2>6 DEF Id
  <2>8. CASE s.cases[i].was
    <3>1. PICK t : t = [s EXCEPT !.removed[w0] = Outside, !.members[w0] = m]
      OBVIOUS
    <3>2. t = Restore(s, i)
      BY <3>1, <2>8, <1>3 DEF Restore
    <3> HIDE DEF m
    <3>3. /\ t.members = [s.members EXCEPT ![w0] = m]
          /\ t.removed = [s.removed EXCEPT ![w0] = Outside]
          /\ t.left = s.left /\ t.cases = s.cases /\ t.next = s.next /\ t.given = s.given
          /\ t = [members |-> t.members, left |-> t.left, removed |-> t.removed, given |-> t.given, cases |-> t.cases, next |-> t.next]
      BY <3>1, <1>2 DEF ShState
    <3>4. t \in ShState
      BY <1>2, <3>3, <2>2, OutsideTyped DEF ShState
    <3>5. SameElse(s, t, w0)
      BY <1>2, <3>3 DEF ShState, SameElse
    <3>6. t.members[w0] = m /\ t.left[w0] = Outside /\ t.removed[w0] = Outside
      BY <1>2, <3>3, <1>w, <2>6 DEF ShState
    <3>7. OneAt(t, w0)
      BY <3>6 DEF OneAt
    <3>8. PositiveAt(t, w0)
      BY <2>2, <2>4, <3>6 DEF PositiveAt
    <3>9. Id(t, w0) = Id(s, w0)
      BY <3>6, <2>2, <2>5, <2>7 DEF Id
    <3>10. NickFree(s, t, w0)
      BY <3>6, <2>3 DEF NickFree
    <3>11. StateInv(t)
      BY <3>3, <3>4, <3>5, <3>7, <3>8, <3>9, <3>10, <1>w, ChangeOne
    <3> QED BY <3>2, <3>11
  <2>9. CASE ~s.cases[i].was
    <3>1. PICK t : t = [s EXCEPT !.removed[w0] = Outside, !.left[w0] = m]
      OBVIOUS
    <3>2. t = Restore(s, i)
      BY <3>1, <2>9, <1>3 DEF Restore
    <3> HIDE DEF m
    <3>3. /\ t.left = [s.left EXCEPT ![w0] = m]
          /\ t.removed = [s.removed EXCEPT ![w0] = Outside]
          /\ t.members = s.members /\ t.cases = s.cases /\ t.next = s.next /\ t.given = s.given
          /\ t = [members |-> t.members, left |-> t.left, removed |-> t.removed, given |-> t.given, cases |-> t.cases, next |-> t.next]
      BY <3>1, <1>2 DEF ShState
    <3>4. t \in ShState
      BY <1>2, <3>3, <2>2, OutsideTyped DEF ShState
    <3>5. SameElse(s, t, w0)
      BY <1>2, <3>3 DEF ShState, SameElse
    <3>6. t.left[w0] = m /\ t.members[w0] = Outside /\ t.removed[w0] = Outside
      BY <1>2, <3>3, <1>w, <2>6 DEF ShState
    <3>7. OneAt(t, w0)
      BY <3>6 DEF OneAt
    <3>8. PositiveAt(t, w0)
      BY <2>2, <2>4, <3>6 DEF PositiveAt
    <3>9. Id(t, w0) = Id(s, w0)
      BY <3>6, <2>2, <2>5, <2>7 DEF Id
    <3>10. NickFree(s, t, w0)
      BY <3>6, OutsideTyped DEF NickFree
    <3>11. StateInv(t)
      BY <3>3, <3>4, <3>5, <3>7, <3>8, <3>9, <3>10, <1>w, ChangeOne
    <3> QED BY <3>2, <3>11
  <2> QED BY <2>8, <2>9
<1> QED BY <1>1, <1>3

\* The decision of an appeal keeps the rules.
LEMMA AppealKeeps ==
    ASSUME NEW s, StateInv(s), NEW r \in ShRecord, r.case \in DOMAIN s.cases, r.text \in {"overturn", "keep"},
           r.action = "appeal"
    PROVE  StateInv(Apply(s, r))
<1> DEFINE i == r.case
<1>1. PICK u : u = [s EXCEPT !.cases[i].appeal = r.text]
  OBVIOUS
<1>2. s \in ShState /\ OnePlace(s) /\ Counted(s)
  BY DEF StateInv
<1>3. PICK c : c = [s.cases[i] EXCEPT !.appeal = r.text]
  OBVIOUS
<1>4. s.cases[i] \in ShCase
  BY <1>2 DEF ShState
<1>5. c \in ShCase
  BY <1>3, <1>4 DEF ShCase
<1>6. /\ u.cases = [s.cases EXCEPT ![i] = c] /\ u.members = s.members /\ u.left = s.left /\ u.removed = s.removed
      /\ u.given = s.given /\ u.next = s.next
      /\ u = [members |-> u.members, left |-> u.left, removed |-> u.removed, given |-> u.given, cases |-> u.cases, next |-> u.next]
  BY <1>1, <1>2, <1>3 DEF ShState
<1>7. u.cases \in Seq(ShCase) /\ DOMAIN u.cases = DOMAIN s.cases
  BY <1>2, <1>5, <1>6 DEF ShState
<1>8. u \in ShState
  BY <1>2, <1>6, <1>7 DEF ShState
<1>9. StateInv(u)
  BY <1>6, <1>8 DEF StateInv, OnePlace, Counted, Numbered, Id, GivenBounded, NicksDiffer
<1>10. StateInv(Restore(u, i))
  BY <1>7, <1>9, RestoreKeeps
<1>11. Apply(s, r) = IF r.text = "overturn" THEN Restore(u, i) ELSE u
  BY <1>1 DEF Apply
<1> QED BY <1>9, <1>10, <1>11

\* What is stored of records: an appeal names a verdict.
Texted(r) == r.action = "appeal" => r.text \in {"overturn", "keep"}

\* Each record, accepted or ignored, keeps the rules.
LEMMA ApplyKeeps ==
    ASSUME NEW s, StateInv(s), NEW r \in ShRecord, Texted(r), Allowed(s, r)
    PROVE  StateInv(Apply(s, r))
<1>2. s \in ShState
  BY DEF StateInv
<1>3. r.signer \in Wallet /\ r.subject \in Wallet /\ r.action \in {"invite", "vouch", "withdraw", "nickname", "case", "appeal"}
  BY DEF ShRecord
<1>4. ASSUME VouchesLeft(s, r.signer) > 0 PROVE s.given[r.signer] < Limit(r.signer)
  <2>1. Limit(r.signer) \in Nat /\ s.given[r.signer] \in Nat
    BY <1>2, <1>3, ShelterAssumption DEF Limit, ShState
  <2>2. ~(s.given[r.signer] >= Limit(r.signer))
    BY <1>4 DEF VouchesLeft, Limit
  <2> QED BY <2>1, <2>2
<1>5. CASE r.action \in {"invite", "vouch"}
  <2>1. s.members[r.subject] = Outside /\ s.removed[r.subject] = Outside /\ VouchesLeft(s, r.signer) > 0
    BY <1>5 DEF Allowed, In
  <2>2. Apply(s, r) = LetIn(s, r)
    BY <1>5 DEF Apply
  <2> QED BY <2>1, <2>2, <1>4, LetInKeeps
<1>6. CASE r.action = "withdraw"
  <2>1. s.members[r.subject] # Outside
    BY <1>6 DEF Allowed, In
  <2>2. Apply(s, r) = [s EXCEPT !.left[r.subject] = s.members[r.subject], !.members[r.subject] = Outside]
    BY <1>6 DEF Apply
  <2> QED BY <2>1, <2>2, <1>3, WithdrawKeeps
<1>7. CASE r.action = "nickname"
  <2>1. /\ s.members[r.subject] # Outside /\ r.text \in Nicknames
        /\ \A w \in Wallet \ {r.subject} : s.members[w].nick # r.text
    BY <1>7 DEF Allowed, In
  <2>2. Apply(s, r) = [s EXCEPT !.members[r.subject].nick = r.text]
    BY <1>7 DEF Apply
  <2> QED BY <2>1, <2>2, <1>3, NicknameKeeps
<1>8. CASE r.action = "case"
  <2>1. s.members[r.subject] # Outside \/ s.left[r.subject] # Outside
    BY <1>8 DEF Allowed, In
  <2> QED BY <2>1, <1>8, CaseKeeps
<1>9. CASE r.action = "appeal"
  <2>1. r.case \in DOMAIN s.cases
    BY <1>9 DEF Allowed
  <2> QED BY <2>1, <1>9, AppealKeeps DEF Texted
<1> QED BY <1>3, <1>5, <1>6, <1>7, <1>8, <1>9

\* The empty log satisfies the rules.
LEMMA NewStateKeeps == StateInv(NewState)
<1> DEFINE out == [w \in Wallet |-> Outside]
           first == [Outside EXCEPT !.number = 1]
<1>1. first \in ShMember /\ first.number = 1 /\ first.nick = NoNick /\ first # Outside
  BY OutsideTyped, ShelterAssumption DEF ShMember, Outside
<1>2. PICK s : s = NewState
  OBVIOUS
<1> HIDE DEF first
<1>3. /\ s.members = [w \in Wallet |-> IF w = Moderator THEN first ELSE Outside]
      /\ s.left = out /\ s.removed = out /\ s.given = [w \in Wallet |-> 0] /\ s.cases = <<>> /\ s.next = 2
      /\ s = [members |-> s.members, left |-> s.left, removed |-> s.removed, given |-> s.given, cases |-> s.cases, next |-> s.next]
  BY <1>2 DEF NewState, first
<1>4. s \in ShState
  <2>1. s.members \in [Wallet -> ShMember] /\ s.left \in [Wallet -> ShMember] /\ s.given \in [Wallet -> Nat]
    BY <1>1, <1>3, OutsideTyped
  <2>2. s.cases \in Seq(ShCase)
    BY <1>3
  <2>3. s.removed \in [Wallet -> ShMember] /\ s.next \in Nat
    BY <1>3, OutsideTyped
  <2> HIDE DEF out
  <2> QED BY <2>1, <2>2, <2>3, <1>3 DEF ShState
<1>5. \A w \in Wallet : /\ s.members[w] = IF w = Moderator THEN first ELSE Outside
                        /\ s.left[w] = Outside /\ s.removed[w] = Outside /\ s.given[w] = 0
  BY <1>3
<1>6. OnePlace(s)
  BY <1>5 DEF OnePlace
<1>7. Counted(s)
  BY <1>1, <1>5 DEF Counted
<1>8. Numbered(s)
  <2>1. \A w \in Wallet : Id(s, w) = IF w = Moderator THEN 1 ELSE 0
    BY <1>1, <1>5, OutsideTyped DEF Id
  <2> QED BY <2>1, <1>3 DEF Numbered
<1>9. GivenBounded(s)
  BY <1>5, ShelterAssumption DEF GivenBounded, Limit
<1>10. NicksDiffer(s)
  BY <1>1, <1>5, OutsideTyped DEF NicksDiffer
<1> QED BY <1>2, <1>3, <1>4, <1>6, <1>7, <1>8, <1>9, <1>10 DEF StateInv

\* f gives the state after each prefix of the log.
IsReplay(f, log) ==
    f = [n \in 0..Len(log) |-> IF n = 0 THEN NewState
                               ELSE IF Allowed(f[n - 1], log[n]) THEN Apply(f[n - 1], log[n]) ELSE f[n - 1]]

\* Replaying any log gives a state that satisfies the rules.
LEMMA ReplayKeeps ==
    ASSUME NEW log \in Seq(ShRecord), \A i \in 1..Len(log) : Texted(log[i])
    PROVE  StateInv(Replay(log))
<1> DEFINE S == {s \in ShState : StateInv(s)}
           Next1(n, s) == IF Allowed(s, log[n]) THEN Apply(s, log[n]) ELSE s
           step == [n \in 1..Len(log) |-> [s \in S |-> Next1(n, s)]]
<1>1. Replay(log) = (CHOOSE f : IsReplay(f, log))[Len(log)]
  BY DEF Replay, IsReplay
<1>2. ASSUME NEW n \in 1..Len(log), NEW s \in S PROVE Next1(n, s) \in S
  <2>1. log[n] \in ShRecord /\ Texted(log[n]) /\ StateInv(s)
    OBVIOUS
  <2>2. StateInv(Next1(n, s))
    BY <2>1, ApplyKeeps
  <2>3. Next1(n, s) \in ShState
    BY <2>2 DEF StateInv
  <2> QED BY <2>2, <2>3
<1>3. NewState \in S
  BY NewStateKeeps DEF StateInv
<1>4. step \in [1..Len(log) -> [S -> S]]
  BY <1>2
<1>5. Len(log) \in Nat
  OBVIOUS
<1> HIDE DEF S
<1>6. PICK f \in [0..Len(log) -> S] : RunFrom(f, NewState, step, Len(log))
  <2> HIDE DEF step
  <2> QED BY <1>3, <1>4, <1>5, RunExists
<1>7. IsReplay(f, log)
  <2>1. \A n \in 1..Len(log) : n - 1 \in 0..Len(log) /\ f[n - 1] \in S
    BY <1>5, <1>6
  <2>2. ASSUME NEW n \in 0..Len(log)
        PROVE  f[n] = IF n = 0 THEN NewState
                      ELSE IF Allowed(f[n - 1], log[n]) THEN Apply(f[n - 1], log[n]) ELSE f[n - 1]
    <3>1. CASE n = 0
      BY <3>1, <1>6 DEF RunFrom
    <3>2. CASE n # 0
      <4>1. n \in 1..Len(log)
        BY <3>2, <1>5
      <4>2. f[n] = step[n][f[n - 1]]
        BY <4>1, <1>6 DEF RunFrom
      <4>3. f[n] = Next1(n, f[n - 1])
        BY <4>1, <4>2, <2>1
      <4> QED BY <4>3, <3>2
    <3> QED BY <3>1, <3>2
  <2> QED BY <2>2, <1>6 DEF IsReplay
<1>8. PICK g : g = CHOOSE h : IsReplay(h, log)
  OBVIOUS
<1>9. IsReplay(g, log)
  BY <1>7, <1>8
<1>10. g[0] = NewState /\ \A n \in 1..Len(log) : g[n] = Next1(n, g[n - 1])
  BY <1>9, <1>5 DEF IsReplay
<1> DEFINE N == {n \in Nat : n <= Len(log) => g[n] \in S}
<1>11. 0 \in N
  BY <1>3, <1>10
<1>12. ASSUME NEW n \in N PROVE n + 1 \in N
  <2>1. SUFFICES ASSUME n + 1 <= Len(log) PROVE g[n + 1] \in S
    OBVIOUS
  <2>2. g[n] \in S /\ n + 1 \in 1..Len(log) /\ (n + 1) - 1 = n
    BY <2>1, <1>5
  <2>3. g[n + 1] = Next1(n + 1, g[n])
    BY <2>2, <1>10
  <2> HIDE DEF Next1
  <2> QED BY <2>2, <2>3, <1>2
<1>13. N \subseteq Nat
  OBVIOUS
<1>14. N = Nat
  <2> HIDE DEF N
  <2> QED BY <1>11, <1>12, <1>13, NatSetInduction
<1>15. g[Len(log)] \in S
  BY <1>14, <1>5
<1> QED BY <1>1, <1>8, <1>15 DEF S

-----------------------------------------------------------------------------
(* The Shelter: the board and its keys.                                      *)

\* A fast posting key: holder, time and the losses counted when it was given.
PostingKey == [w : Wallet, at : Nat, losses : Nat]
\* What the board keeps of the anonymous group.
BoardStates == [leaves : SUBSET Joined, roots : Seq(SUBSET Joined), lastLoss : Nat, losses : Nat,
            fastKeys : SUBSET PostingKey, sealed : [KeyHolders -> Nat]]
\* The roots kept are few, and of groups within the leaves of now.
RootsOf(b) == Len(b.roots) <= MaxRoots /\ \A i \in 1..Len(b.roots) : b.roots[i] \subseteq b.leaves
\* A key of the losses of now belongs to a leaf.
KeysOf(b) == \A k \in b.fastKeys : k.losses <= b.losses /\ (k.losses = b.losses => k.w \in b.leaves)
\* What the board satisfies between two refreshes.
BoardInv(b) == b \in BoardStates /\ RootsOf(b) /\ KeysOf(b)
\* A send under way that has seen every loss comes from a leaf.
SendInv(b, d) == d.busy => d.w \in Wallet /\ d.losses \in Nat /\ d.losses <= b.losses /\ (d.losses = b.losses => d.w \in b.leaves)

\* Keeping the last roots keeps few of them, all of them old ones.
LEMMA LastRootsBound ==
    ASSUME NEW q \in Seq(SUBSET Joined)
    PROVE  /\ LastRoots(q) \in Seq(SUBSET Joined) /\ Len(LastRoots(q)) <= MaxRoots
           /\ \A i \in 1..Len(LastRoots(q)) : \E j \in 1..Len(q) : LastRoots(q)[i] = q[j]
<1> DEFINE S == {1, Len(q) + 1 - MaxRoots}
<1>0. MaxRoots \in Nat /\ Len(q) \in Nat
  BY ShelterAssumption
<1>1. Max(S) \in S /\ \A x \in S : x <= Max(S)
  <2>1. \E x \in S : \A y \in S : y <= x
    BY <1>0
  <2> HIDE DEF S
  <2> QED BY <2>1 DEF Max
<1>2. PICK a : a = Max(S)
  OBVIOUS
<1>3. a \in Int /\ a >= 1 /\ a >= Len(q) + 1 - MaxRoots /\ a <= Len(q) + 1
  BY <1>0, <1>1, <1>2
<1>4. LastRoots(q) = SubSeq(q, a, Len(q))
  BY <1>2 DEF LastRoots
<1>5. PICK p : p = SubSeq(q, a, Len(q))
  OBVIOUS
<1>6. Len(p) = Len(q) + 1 - a /\ \A i \in 1..Len(p) : p[i] = q[a + i - 1]
  BY <1>0, <1>3, <1>5
<1>7. p \in Seq(SUBSET Joined)
  BY <1>0, <1>3, <1>5, <1>6
<1>8. \A i \in 1..Len(p) : a + i - 1 \in 1..Len(q)
  BY <1>0, <1>3, <1>6
<1>9. Len(p) <= MaxRoots
  BY <1>0, <1>3, <1>6
<1>10. ASSUME NEW i \in 1..Len(p) PROVE \E j \in 1..Len(q) : p[i] = q[j]
  <2>1. a + i - 1 \in 1..Len(q) /\ p[i] = q[a + i - 1]
    BY <1>6, <1>8
  <2> QED BY <2>1
<1>11. LastRoots(q) = p
  BY <1>4, <1>5
<1> QED BY <1>7, <1>9, <1>10, <1>11

\* Only those who joined the group are eligible.
LEMMA EligibleJoined == ASSUME NEW s, NEW t PROVE AnonEligible(s, t) \subseteq Joined
BY DEF AnonEligible

\* A refresh keeps the board's rules: a loss empties roots and keys.
LEMMA RefreshKeeps ==
    ASSUME NEW b, BoardInv(b), NEW s, NEW t \in Nat, NEW c, c = RefreshRoots(b, s, t)
    PROVE  /\ BoardInv(c) /\ c.leaves = AnonEligible(s, t) /\ c.sealed = b.sealed
           /\ b.losses <= c.losses /\ (c.losses = b.losses => b.leaves \subseteq c.leaves)
<1> DEFINE set == AnonEligible(s, t)
           lost == b.leaves \ set # {}
           kept == IF lost THEN <<>> ELSE b.roots
           roots == IF Contains(kept, set) THEN kept ELSE Append(kept, set)
<1>1. set \in SUBSET Joined
  BY EligibleJoined
<1>2. b \in BoardStates /\ RootsOf(b) /\ KeysOf(b)
  BY DEF BoardInv
<1>3. /\ c.leaves = set
      /\ c.roots = IF Cardinality(set) < AnonMin THEN <<>> ELSE LastRoots(roots)
      /\ c.lastLoss = (IF lost THEN t ELSE b.lastLoss)
      /\ c.losses = (IF lost THEN b.losses + 1 ELSE b.losses)
      /\ c.fastKeys = (IF lost THEN {} ELSE b.fastKeys)
      /\ c.sealed = b.sealed
      /\ c = [leaves |-> c.leaves, roots |-> c.roots, lastLoss |-> c.lastLoss, losses |-> c.losses,
              fastKeys |-> c.fastKeys, sealed |-> c.sealed]
  BY <1>2 DEF RefreshRoots, BoardStates
<1> HIDE DEF set
<1>4. kept \in Seq(SUBSET Joined) /\ \A i \in 1..Len(kept) : kept[i] \subseteq set
  BY <1>2 DEF BoardStates, RootsOf
<1> HIDE DEF kept
<1>5. roots \in Seq(SUBSET Joined) /\ \A i \in 1..Len(roots) : roots[i] \subseteq set
  <2>1. Append(kept, set) \in Seq(SUBSET Joined) /\ Len(Append(kept, set)) = Len(kept) + 1
        /\ \A i \in 1..Len(kept) + 1 : Append(kept, set)[i] = IF i = Len(kept) + 1 THEN set ELSE kept[i]
    BY <1>1, <1>4
  <2>2. \A i \in 1..Len(Append(kept, set)) : Append(kept, set)[i] \subseteq set
    BY <1>4, <2>1
  <2> QED BY <1>4, <2>1, <2>2
<1> HIDE DEF roots
<1>6. c.roots \in Seq(SUBSET Joined) /\ Len(c.roots) <= MaxRoots /\ \A i \in 1..Len(c.roots) : c.roots[i] \subseteq set
  <2>1. CASE Cardinality(set) < AnonMin
    BY <2>1, <1>3, ShelterAssumption
  <2>2. CASE ~(Cardinality(set) < AnonMin)
    <3>1. c.roots = LastRoots(roots)
      BY <2>2, <1>3
    <3> QED BY <3>1, <1>5, LastRootsBound
  <2> QED BY <2>1, <2>2
<1>7. RootsOf(c)
  BY <1>3, <1>6 DEF RootsOf
<1>8. b.losses \in Nat /\ b.fastKeys \subseteq PostingKey /\ b.lastLoss \in Nat /\ b.sealed \in [KeyHolders -> Nat]
  BY <1>2 DEF BoardStates
<1>9. c \in BoardStates
  <2>1. c.leaves \in SUBSET Joined /\ c.lastLoss \in Nat /\ c.losses \in Nat /\ c.fastKeys \in SUBSET PostingKey
    BY <1>1, <1>3, <1>8
  <2> QED BY <2>1, <1>3, <1>6, <1>8 DEF BoardStates
<1>10. \A k \in b.fastKeys : k.losses \in Nat
  BY <1>8 DEF PostingKey
<1>11. CASE lost
  <2>1. c.leaves = set /\ c.losses = b.losses + 1 /\ c.fastKeys = {} /\ c.sealed = b.sealed
    BY <1>3, <1>11
  <2>2. KeysOf(c)
    BY <2>1 DEF KeysOf
  <2> QED BY <2>1, <2>2, <1>7, <1>8, <1>9 DEF BoardInv, set
<1>12. CASE ~lost
  <2>1. c.leaves = set /\ b.leaves \subseteq set /\ c.losses = b.losses /\ c.fastKeys = b.fastKeys
    BY <1>3, <1>12
  <2>2. KeysOf(c)
    BY <2>1, <1>2 DEF KeysOf
  <2> QED BY <2>1, <2>2, <1>3, <1>7, <1>8, <1>9 DEF BoardInv, set
<1> QED BY <1>11, <1>12

\* The inductive invariant of the Shelter.
ShelterInv ==
    /\ StateInv(sh) /\ sclock \in 1..MaxShelterTime /\ sending.busy \in BOOLEAN
    /\ BoardInv(board) /\ SendInv(board, sending)
    /\ AnonPostsAreMembers

\* The Shelter starts within its invariant, whatever log it starts from.
LEMMA ShelterInitInv == ShelterInit => ShelterInv
<1> SUFFICES ASSUME ShelterInit PROVE ShelterInv
  OBVIOUS
<1> DEFINE log == [i \in DOMAIN StartLog |->
                    Record(StartLog[i][1], StartLog[i][2], StartLog[i][3], 0, StartLog[i][4], 0)]
           none == [leaves |-> {}, roots |-> <<>>, lastLoss |-> 0, losses |-> 0,
                    fastKeys |-> {}, sealed |-> [w \in KeyHolders |-> 0]]
<1>1. log \in Seq(ShRecord) /\ \A i \in 1..Len(log) : Texted(log[i])
  <2>1. PICK n \in Nat : DOMAIN StartLog = 1..n
    BY ShelterAssumption
  <2>2. ASSUME NEW i \in 1..n PROVE log[i] \in ShRecord /\ log[i].action # "appeal"
    <3>1. StartLog[i] \in {"invite", "vouch", "withdraw", "nickname", "case"} \X Wallet \X Wallet \X STRING
      BY <2>1, ShelterAssumption
    <3> QED BY <3>1, <2>1 DEF ShRecord, ShText, Record
  <2> HIDE DEF log
  <2>3. DOMAIN log = 1..n /\ log = [i \in 1..n |-> log[i]]
    BY <2>1 DEF log
  <2>4. log \in Seq(ShRecord) /\ Len(log) = n
    BY <2>2, <2>3
  <2> QED BY <2>2, <2>4 DEF Texted
<1>2. StateInv(sh)
  <2>1. sh = Replay(log)
    BY DEF ShelterInit
  <2> HIDE DEF log
  <2> QED BY <1>1, <2>1, ReplayKeeps
<1>3. PICK b : b = none
  OBVIOUS
<1>4. BoardInv(b)
  <2>1. /\ b.leaves = {} /\ b.roots = <<>> /\ b.lastLoss = 0 /\ b.losses = 0 /\ b.fastKeys = {}
        /\ b.sealed = [w \in KeyHolders |-> 0]
    BY <1>3
  <2>2. b \in BoardStates
    BY <1>3 DEF BoardStates
  <2>3. RootsOf(b) /\ KeysOf(b)
    BY <2>1, ShelterAssumption DEF RootsOf, KeysOf
  <2> QED BY <2>2, <2>3 DEF BoardInv
<1>5. board = RefreshRoots(b, sh, sclock) /\ sclock = 1 /\ sending = NoSend /\ posted = {}
  BY <1>3 DEF ShelterInit
<1>6. BoardInv(board)
  BY <1>4, <1>5, RefreshKeeps
<1>7. sclock \in 1..MaxShelterTime /\ sending.busy = FALSE
  BY <1>5, ShelterAssumption DEF NoSend
<1>8. SendInv(board, sending)
  BY <1>7 DEF SendInv
<1> QED BY <1>2, <1>5, <1>6, <1>7, <1>8 DEF ShelterInv, AnonPostsAreMembers

\* The parts of the invariant.
LEMMA ShelterFacts ==
    ASSUME ShelterInv
    PROVE  /\ StateInv(sh) /\ sclock \in Nat /\ sclock >= 1 /\ sclock <= MaxShelterTime /\ BoardInv(board)
           /\ SendInv(board, sending) /\ AnonPostsAreMembers /\ sending.busy \in BOOLEAN
BY ShelterAssumption DEF ShelterInv

\* One submitted record keeps the invariant.
LEMMA SubmitStep ==
    ASSUME ShelterInv, NEW r \in ShRecord, Texted(r), Submit(r)
    PROVE  ShelterInv'
<1>1. StateInv(sh')
  BY ApplyKeeps, ShelterFacts DEF Submit, FreshRecord
<1> QED BY <1>1 DEF ShelterInv, Submit, AnonPostsAreMembers

\* So does any record of the ones enumerated.
LEMMA SubmitAnyStep == ASSUME ShelterInv, SubmitAny PROVE ShelterInv'
<1>1. ASSUME NEW action \in {"invite", "vouch", "withdraw", "nickname", "case", "appeal"}, NEW w \in Wallet, NEW v \in Wallet,
             NEW i \in Nat, NEW d \in ShText, NEW at \in Nat, action = "appeal" => d \in {"overturn", "keep"},
             Submit(Record(action, w, v, i, d, at))
      PROVE  ShelterInv'
  <2>1. PICK r : r = Record(action, w, v, i, d, at)
    OBVIOUS
  <2>2. r \in ShRecord /\ Texted(r)
    BY <1>1, <2>1 DEF ShRecord, Record, Texted
  <2> QED BY <1>1, <2>1, <2>2, SubmitStep
<1>2. PICK at \in InSkew(sclock), w \in Wallet, v \in Wallet :
        \/ Submit(Record("invite", w, v, 0, "-", at)) \/ Submit(Record("vouch", w, v, 0, "-", at))
        \/ w = v /\ Submit(Record("withdraw", w, w, 0, "-", at))
        \/ w = v /\ \E n \in Nicknames : Submit(Record("nickname", w, w, 0, n, at))
        \/ Submit(Record("case", w, v, 0, "-", at))
        \/ w = v /\ \E i \in DOMAIN sh.cases, d \in {"overturn", "keep"} :
                Submit(Record("appeal", w, w, i, d, at))
  BY DEF SubmitAny
<1>3. at \in Nat
  BY ShelterFacts, ShelterAssumption DEF InSkew
<1>5. DOMAIN sh.cases \subseteq Nat
  BY ShelterFacts DEF StateInv, ShState
<1>4. "-" \in ShText /\ "overturn" \in ShText /\ "keep" \in ShText /\ Nicknames \subseteq ShText
  BY DEF ShText
<1>6. CASE Submit(Record("invite", w, v, 0, "-", at))
  BY <1>1, <1>3, <1>4, <1>6
<1>7. CASE Submit(Record("vouch", w, v, 0, "-", at))
  BY <1>1, <1>3, <1>4, <1>7
<1>8. CASE Submit(Record("withdraw", w, w, 0, "-", at))
  BY <1>1, <1>3, <1>4, <1>8
<1>9. CASE \E n \in Nicknames : Submit(Record("nickname", w, w, 0, n, at))
  BY <1>1, <1>3, <1>4, <1>9
<1>10. CASE Submit(Record("case", w, v, 0, "-", at))
  BY <1>1, <1>3, <1>4, <1>10
<1>11. CASE \E i \in DOMAIN sh.cases, d \in {"overturn", "keep"} : Submit(Record("appeal", w, w, i, d, at))
  <2>1. PICK i \in DOMAIN sh.cases, d \in {"overturn", "keep"} : Submit(Record("appeal", w, w, i, d, at))
    BY <1>11
  <2>2. i \in Nat /\ d \in ShText
    BY <1>4, <1>5
  <2> QED BY <2>1, <2>2, <1>1, <1>3
<1> QED BY <1>2, <1>6, <1>7, <1>8, <1>9, <1>10, <1>11

\* A refresh of the board keeps the invariant.
LEMMA RefreshStep == ASSUME ShelterInv, Refresh PROVE ShelterInv'
<1>1. /\ BoardInv(board') /\ board'.leaves = AnonEligible(sh, sclock)
      /\ board.losses <= board'.losses /\ (board'.losses = board.losses => board.leaves \subseteq board'.leaves)
  BY ShelterFacts, RefreshKeeps DEF Refresh
<1>2. board.losses \in Nat /\ board'.losses \in Nat
  BY <1>1, ShelterFacts DEF BoardInv, BoardStates
<1>3. SendInv(board', sending)
  BY <1>1, <1>2, ShelterFacts DEF SendInv
<1> QED BY <1>1, <1>3, ShelterFacts DEF ShelterInv, Refresh, AnonPostsAreMembers

\* The check that starts a send keeps the invariant.
LEMMA SendCheckStep ==
    ASSUME ShelterInv, NEW w \in Wallet, NEW set, ShelterSendCheck(w, set)
    PROVE  ShelterInv'
<1>1. PICK b : b = RefreshRoots(board, sh, sclock)
  OBVIOUS
<1>2. BoardInv(b) /\ b.leaves = AnonEligible(sh, sclock)
  BY <1>1, ShelterFacts, RefreshKeeps
<1>3. /\ w \in set /\ Contains(b.roots, set) /\ board' = b
      /\ sending' = [w |-> w, busy |-> TRUE, losses |-> b.losses]
      /\ posted' = posted \cup {[ok |-> w \in AnonEligible(sh, sclock), raced |-> FALSE]}
      /\ sclock' = sclock /\ sh' = sh
  BY <1>1 DEF ShelterSendCheck
<1>4. set \subseteq b.leaves
  BY <1>2, <1>3 DEF Contains, BoardInv, RootsOf
<1>5. w \in AnonEligible(sh, sclock)
  BY <1>2, <1>3, <1>4
<1>6. sending'.busy = TRUE /\ sending'.w = w /\ sending'.losses = b.losses
  BY <1>3
<1>7. b.losses \in Nat
  BY <1>2 DEF BoardInv, BoardStates
<1>8. SendInv(board', sending')
  BY <1>2, <1>3, <1>5, <1>6, <1>7 DEF SendInv
<1>9. AnonPostsAreMembers'
  <2>1. PICK p : p = [ok |-> w \in AnonEligible(sh, sclock), raced |-> FALSE]
    OBVIOUS
  <2>2. p.ok
    BY <2>1, <1>5
  <2> QED BY <2>1, <2>2, <1>3, ShelterFacts DEF AnonPostsAreMembers
<1> QED BY <1>2, <1>3, <1>6, <1>8, <1>9, ShelterFacts DEF ShelterInv

\* The verdict that ends a send keeps the invariant.
LEMMA VerdictStep == ASSUME ShelterInv, ShelterSendVerdict PROVE ShelterInv'
<1> DEFINE k0 == [w |-> sending.w, at |-> sclock, losses |-> sending.losses]
<1>1. BoardInv(board) /\ sclock \in Nat
  BY ShelterFacts
<1>2. /\ sending.w \in Wallet /\ sending.losses \in Nat /\ sending.losses <= board.losses
      /\ (sending.losses = board.losses => sending.w \in board.leaves)
  BY ShelterFacts DEF SendInv, ShelterSendVerdict
<1>3. sending'.busy = FALSE
  BY DEF ShelterSendVerdict, NoSend
<1>4. BoardInv(board')
  <2>1. CASE board' = board
    BY <1>1, <2>1
  <2>2. CASE board' = [board EXCEPT !.fastKeys = @ \cup {k0}]
    <3>1. PICK c : c = board'
      OBVIOUS
    <3>2. board \in BoardStates /\ RootsOf(board) /\ KeysOf(board)
      BY <1>1 DEF BoardInv
    <3>3. /\ c.leaves = board.leaves /\ c.roots = board.roots /\ c.losses = board.losses /\ c.lastLoss = board.lastLoss
          /\ c.sealed = board.sealed /\ c.fastKeys = board.fastKeys \cup {k0}
          /\ c = [leaves |-> c.leaves, roots |-> c.roots, lastLoss |-> c.lastLoss, losses |-> c.losses,
                  fastKeys |-> c.fastKeys, sealed |-> c.sealed]
      BY <2>2, <3>1, <3>2 DEF BoardStates
    <3>4. k0 \in PostingKey /\ k0.losses = sending.losses /\ k0.w = sending.w
      BY <1>1, <1>2 DEF PostingKey
    <3> HIDE DEF k0
    <3>5. c \in BoardStates
      BY <3>2, <3>3, <3>4 DEF BoardStates
    <3>6. RootsOf(c)
      BY <3>2, <3>3 DEF RootsOf
    <3>7. KeysOf(c)
      BY <3>2, <3>3, <3>4, <1>2 DEF KeysOf
    <3> QED BY <3>1, <3>5, <3>6, <3>7 DEF BoardInv
  <2> QED BY <2>1, <2>2 DEF ShelterSendVerdict
<1>5. SendInv(board', sending')
  BY <1>3 DEF SendInv
<1> QED BY <1>3, <1>4, <1>5, ShelterFacts DEF ShelterInv, ShelterSendVerdict, AnonPostsAreMembers

\* A fast post keeps the invariant.
LEMMA FastPostStep == ASSUME ShelterInv, NEW k, ShelterFastPost(k) PROVE ShelterInv'
<1>1. PICK b : b = RefreshRoots(board, sh, sclock)
  OBVIOUS
<1>2. BoardInv(b) /\ b.leaves = AnonEligible(sh, sclock)
  BY <1>1, ShelterFacts, RefreshKeeps
<1>3. /\ k \in b.fastKeys /\ board' = b
      /\ posted' = posted \cup {[ok |-> k.w \in AnonEligible(sh, sclock), raced |-> k.losses # b.losses]}
      /\ sclock' = sclock /\ sh' = sh /\ sending' = sending /\ ~sending.busy
  BY <1>1 DEF ShelterFastPost
<1>4. k.losses = b.losses => k.w \in AnonEligible(sh, sclock)
  BY <1>2, <1>3 DEF BoardInv, KeysOf
<1>5. PICK p : p = [ok |-> k.w \in AnonEligible(sh, sclock), raced |-> k.losses # b.losses]
  OBVIOUS
<1>6. p.ok \/ p.raced
  BY <1>4, <1>5
<1>7. AnonPostsAreMembers'
  BY <1>3, <1>5, <1>6, ShelterFacts DEF AnonPostsAreMembers
<1>8. SendInv(board', sending')
  BY <1>3 DEF SendInv
<1> QED BY <1>2, <1>3, <1>7, <1>8, ShelterFacts DEF ShelterInv

\* Handing out a fast key keeps the invariant.
LEMMA HandKeyStep ==
    ASSUME ShelterInv, NEW from, NEW to \in KeyHolders, NEW at \in Nat, HandKey(from, to, at)
    PROVE  ShelterInv'
<1>1. PICK c : c = board'
  OBVIOUS
<1>2. board \in BoardStates /\ RootsOf(board) /\ KeysOf(board)
  BY ShelterFacts DEF BoardInv
<1>3. /\ c.leaves = board.leaves /\ c.roots = board.roots /\ c.losses = board.losses /\ c.lastLoss = board.lastLoss
      /\ c.sealed = [board.sealed EXCEPT ![to] = at] /\ c.fastKeys = board.fastKeys
      /\ c = [leaves |-> c.leaves, roots |-> c.roots, lastLoss |-> c.lastLoss, losses |-> c.losses,
              fastKeys |-> c.fastKeys, sealed |-> c.sealed]
  BY <1>1, <1>2 DEF BoardStates, HandKey
<1>4. BoardInv(c)
  BY <1>2, <1>3 DEF BoardInv, BoardStates, RootsOf, KeysOf
<1>5. SendInv(c, sending)
  BY <1>3, ShelterFacts DEF SendInv
<1> QED BY <1>1, <1>4, <1>5, ShelterFacts DEF ShelterInv, HandKey, AnonPostsAreMembers

\* Every step keeps the invariant.
LEMMA ShelterStepInv == ShelterInv /\ [ShelterNext]_shelterVars => ShelterInv'
<1> SUFFICES ASSUME ShelterInv, [ShelterNext]_shelterVars PROVE ShelterInv'
  OBVIOUS
<1>1. CASE SubmitAny
  BY <1>1, SubmitAnyStep
<1>2. CASE Refresh
  BY <1>2, RefreshStep
<1>3. CASE ShelterSendVerdict
  BY <1>3, VerdictStep
<1>4. CASE ShelterTick
  BY <1>4, ShelterFacts, ShelterAssumption DEF ShelterInv, ShelterTick, AnonPostsAreMembers
<1>5. CASE \E w \in Wallet : \E set \in Range(board.roots) \cup {AnonEligible(sh, sclock)} : ShelterSendCheck(w, set)
  BY <1>5, SendCheckStep
<1>6. CASE \E k \in board.fastKeys : ShelterFastPost(k)
  BY <1>6, FastPostStep
<1>7. CASE \E from \in Wallet, to \in KeyHolders : \E at \in InSkew(sclock) : HandKey(from, to, at)
  <2>1. InSkew(sclock) \subseteq Nat
    BY ShelterFacts, ShelterAssumption DEF InSkew
  <2> QED BY <1>7, <2>1, HandKeyStep
<1>8. CASE UNCHANGED shelterVars
  BY <1>8 DEF ShelterInv, shelterVars, AnonPostsAreMembers
<1> QED BY <1>1, <1>2, <1>3, <1>4, <1>5, <1>6, <1>7, <1>8 DEF ShelterNext

\* The invariant implies the rules.
LEMMA ShelterInvRules == ShelterInv => ShelterRules
<1> SUFFICES ASSUME ShelterInv PROVE ShelterRules
  OBVIOUS
<1> DEFINE P == {"members", "left", "removed"}
<1>1. sh \in ShState /\ OnePlace(sh) /\ Counted(sh) /\ Numbered(sh) /\ GivenBounded(sh) /\ NicksDiffer(sh)
  BY ShelterFacts DEF StateInv
<1>2. ASSUME NEW w \in Wallet PROVE Cardinality({p \in P : sh[p][w] # Outside}) <= 1
  <2> DEFINE A == {p \in P : sh[p][w] # Outside}
  <2>1. \A p, q \in A : p = q
    BY <1>1 DEF OnePlace
  <2>2. A = {} \/ \E p \in A : A = {p}
    BY <2>1
  <2> HIDE DEF A
  <2>3. Cardinality(A) <= 1
    BY <2>2, FS_EmptySet, FS_Singleton
  <2> QED BY <2>3 DEF A
<1>3. ASSUME NEW p \in P, NEW w \in Wallet, sh[p][w] # Outside PROVE sh[p][w].number = Id(sh, w) /\ Id(sh, w) # 0
  BY <1>1, <1>3 DEF Id, OnePlace, Counted
<1>4. ASSUME NEW p \in P, NEW w \in Wallet, sh[p][w] = Outside PROVE sh[p][w].number = 0
  BY <1>4, OutsideTyped
<1>5. ASSUME NEW p \in P, NEW q \in P, NEW w \in Wallet, NEW v \in Wallet,
             sh[p][w].number = sh[q][v].number, sh[p][w] # Outside
      PROVE  w = v
  <2>1. Id(sh, w) # 0 /\ sh[p][w].number = Id(sh, w)
    BY <1>3, <1>5
  <2>2. sh[q][v] # Outside
    BY <1>4, <1>5, <2>1
  <2>3. Id(sh, w) = Id(sh, v)
    BY <1>3, <1>5, <2>1, <2>2
  <2> QED BY <1>1, <2>1, <2>3 DEF Numbered
<1>6. ShelterTypeOK
  <2>1. \A w \in Wallet : sh.given[w] <= IF w = Moderator THEN ModInvites ELSE Vouches
    BY <1>1 DEF GivenBounded, Limit
  <2>2. Len(board.roots) <= MaxRoots /\ Range(board.roots) \subseteq SUBSET Joined
    BY ShelterFacts DEF BoardInv, BoardStates, RootsOf, Range
  <2> QED BY <1>2, <1>5, <2>1, <2>2 DEF ShelterTypeOK, ShelterInv
<1>7. NicknamesDistinct
  BY <1>1 DEF NicksDiffer, NicknamesDistinct
<1> QED BY <1>6, <1>7, ShelterFacts DEF ShelterRules

\* Whatever is written to the log, replay keeps every wallet in one place and its number
\* its own, vouches within their limit and nicknames apart; an anonymous post comes from
\* a current, unsuspended member, but for one sent or a key registered across a loss
\* (tet-core tmail/shelter.rs, tmail/store.rs), for all constants and any starting log.
THEOREM ShelterIsSound == ShelterSpec => []ShelterRules
BY ShelterInitInv, ShelterStepInv, ShelterInvRules, PTL DEF ShelterSpec

\* A step changes the membership only with a record not used before.
LEMMA OneRecordStep == [ShelterNext]_shelterVars => (sh' # sh => used' # used)
<1> SUFFICES ASSUME [ShelterNext]_shelterVars, sh' # sh PROVE used' # used
  OBVIOUS
<1>1. SubmitAny
  BY DEF ShelterNext, shelterVars, Refresh, ShelterSendVerdict, ShelterTick, ShelterSendCheck, ShelterFastPost, HandKey
<1>2. PICK r : Submit(r)
  BY <1>1, Zenon DEF SubmitAny
<1> QED BY <1>2 DEF Submit, FreshRecord

\* The membership changes only when a record not used before is accepted, so a replayed
\* record changes nothing.
THEOREM OneChangeARecord == ShelterSpec => OneRecordOneChange
BY OneRecordStep, PTL DEF ShelterSpec, OneRecordOneChange

-----------------------------------------------------------------------------
(* Sites.                                                                    *)

\* Setting a function to zero on a part takes the part's sum off the whole.
LEMMA SumZeroed ==
    ASSUME NEW S, IsFiniteSet(S), NEW T \in SUBSET S, NEW f, NEW g, \A x \in S : f[x] \in Int,
           \A x \in S : g[x] = IF x \in T THEN 0 ELSE f[x]
    PROVE  SumFunctionOnSet(g, S) = SumFunctionOnSet(f, S) - SumFunctionOnSet(f, T)
<1> DEFINE P == {U \in SUBSET S : SumFunctionOnSet(g, U) = SumFunctionOnSet(f, U) - SumFunctionOnSet(f, U \cap T)}
<1>0. \A x \in S : g[x] \in Int
  OBVIOUS
<1>1. {} \in P
  <2>1. {} \cap T = {}
    OBVIOUS
  <2> QED BY <2>1, SumEmpty
<1>2. ASSUME NEW U \in SUBSET S, U # {}, \A x \in U : U \ {x} \in P PROVE U \in P
  <2>1. PICK x \in U : TRUE
    BY <1>2
  <2>2. PICK V : V = U \ {x}
    OBVIOUS
  <2>3. V \in P
    BY <1>2, <2>2
  <2>4. PICK W : W = U \cap T
    OBVIOUS
  <2>5. IsFiniteSet(U) /\ IsFiniteSet(V) /\ IsFiniteSet(W) /\ IsFiniteSet(V \cap T)
    <3>1. U \in SUBSET S /\ V \in SUBSET S /\ W \in SUBSET S /\ V \cap T \in SUBSET S
      BY <2>2, <2>4
    <3> QED BY <3>1, FS_Subset
  <2>6. SumFunctionOnSet(f, U) = f[x] + SumFunctionOnSet(f, V)
    BY <2>2, <2>5, SumRemove
  <2>7. SumFunctionOnSet(g, U) = g[x] + SumFunctionOnSet(g, V)
    BY <2>2, <2>5, <1>0, SumRemove
  <2>8. SumFunctionOnSet(g, V) = SumFunctionOnSet(f, V) - SumFunctionOnSet(f, V \cap T)
    BY <2>3
  <2>9. /\ SumFunctionOnSet(f, V) \in Int /\ SumFunctionOnSet(f, V \cap T) \in Int /\ SumFunctionOnSet(g, V) \in Int
    BY <2>2, <2>5, <1>0, SumInt
  <2>10. CASE x \in T
    <3>1. V \cap T = W \ {x} /\ x \in W
      BY <2>2, <2>4, <2>10
    <3>2. W \subseteq S
      BY <2>4
    <3>3. SumFunctionOnSet(f, W) = f[x] + SumFunctionOnSet(f, W \ {x})
      BY <3>1, <3>2, <2>5, SumRemove
    <3>4. SumFunctionOnSet(f, W) = f[x] + SumFunctionOnSet(f, V \cap T)
      BY <3>1, <3>3
    <3>5. g[x] = 0 /\ f[x] \in Int
      BY <2>10
    <3>6. SumFunctionOnSet(g, U) = SumFunctionOnSet(f, U) - SumFunctionOnSet(f, W)
      BY <2>6, <2>7, <2>8, <2>9, <3>4, <3>5
    <3> QED BY <3>6, <2>4
  <2>11. CASE x \notin T
    <3>1. V \cap T = W
      BY <2>2, <2>4, <2>11
    <3>2. SumFunctionOnSet(f, W) = SumFunctionOnSet(f, V \cap T)
      BY <3>1
    <3>5. g[x] = f[x] /\ f[x] \in Int
      BY <2>11
    <3>6. SumFunctionOnSet(g, U) = SumFunctionOnSet(f, U) - SumFunctionOnSet(f, W)
      BY <2>6, <2>7, <2>8, <2>9, <3>2, <3>5
    <3> QED BY <3>6, <2>4
  <2> QED BY <2>10, <2>11
<1>3. P \in SUBSET (SUBSET S)
  OBVIOUS
<1>4. P = SUBSET S
  <2> HIDE DEF P
  <2> QED BY <1>1, <1>2, <1>3, FiniteInduction
<1>5. S \in P /\ S \cap T = T
  BY <1>4
<1> QED BY <1>5

\* A site's head.
SiteHead == [chain : Seq(Body), bytes : Nat, at : Nat]
\* A stored edit.
SiteEdit == [prev : Seq(Body), body : Body \cup {"-"}]
\* The trees of the site store.
SiteStates == [edits : [Site -> [0..SiteMaxEdits - 1 -> SiteEdit]], heads : [Site -> SiteHead],
               total : Nat, keyed : BOOLEAN]
\* Edits past the handler's checks.
EditCalls == [site : Site, seq : Nat, prev : Seq(Body), body : Body, at : Nat]

\* A site's edits are there up to its head, each naming the one before.
Chained(st, s) ==
    \A i \in 1..Len(st.heads[s].chain) :
        st.edits[s][i - 1] = [prev |-> SubSeq(st.heads[s].chain, 1, i - 1), body |-> st.heads[s].chain[i]]
\* That, for every live site.
LiveChained(st) == \A s \in Site : LiveHead(st, s) => Chained(st, s)
\* No site is over its size.
BytesBounded(st) == \A s \in Site : st.heads[s].bytes <= SiteMaxBytes
\* The byte total is the sum of the heads up to slack, and under the cap.
TotalWithin(st, slack) ==
    /\ st.total <= SumFunctionOnSet(Bytes(st), Site) + slack
    /\ SumFunctionOnSet(Bytes(st), Site) <= st.total + slack
    /\ st.total <= SitesTotalCap
\* What the site store satisfies between the writes of an append too.
SiteInv(st) == st \in SiteStates /\ LiveChained(st) /\ BytesBounded(st)

\* The assumptions on the constants of sites.
LEMMA RecConst ==
    /\ IsFiniteSet(Site) /\ SiteMaxBytes \in Nat /\ SitesTotalCap \in Nat /\ SiteMaxEdits \in Nat /\ SiteTtl \in Nat
    /\ MaxRecTime \in Nat /\ PruneGap \in Nat
    /\ \A b \in Body : BodySize[b] \in Nat
BY RecordsAssumption

\* The absent head is one, of no bytes.
LEMMA NoHeadTyped == NoHead \in SiteHead /\ NoHead.bytes = 0 /\ NoHead.chain = <<>> /\ NoHead.at = 0
BY DEF NoHead, SiteHead

\* The absent edit is one.
LEMMA NoEditTyped == NoEdit \in SiteEdit
BY DEF NoEdit, SiteEdit

\* Bytes and their sums are natural numbers.
LEMMA BytesNat ==
    ASSUME NEW st \in SiteStates
    PROVE  /\ \A s \in Site : Bytes(st)[s] = st.heads[s].bytes /\ Bytes(st)[s] \in Nat /\ Bytes(st)[s] \in Int
           /\ \A T \in SUBSET Site : SumFunctionOnSet(Bytes(st), T) \in Nat
<1>1. \A s \in Site : Bytes(st)[s] = st.heads[s].bytes /\ Bytes(st)[s] \in Nat
  BY DEF Bytes, SiteStates, SiteHead
<1>2. ASSUME NEW T \in SUBSET Site PROVE SumFunctionOnSet(Bytes(st), T) \in Nat
  <2>1. IsFiniteSet(T)
    BY FS_Subset, RecConst
  <2> QED BY <2>1, <1>1, SumNat
<1> QED BY <1>1, <1>2

\* Dropping the edits of a site that is not live keeps the store sound.
LEMMA DropEditsKeeps ==
    ASSUME NEW st, SiteInv(st), NEW s \in Site, ~LiveHead(st, s), NEW t, t = DropEdits(st, s)
    PROVE  /\ SiteInv(t) /\ t.heads = st.heads /\ t.total = st.total /\ t.keyed = st.keyed
           /\ Bytes(t) = Bytes(st)
<1>1. st \in SiteStates
  BY DEF SiteInv
<1>2. PICK e : e = [q \in DOMAIN st.edits[s] |-> NoEdit]
  OBVIOUS
<1>3. DOMAIN st.edits[s] = 0..SiteMaxEdits - 1
  BY <1>1 DEF SiteStates
<1>4. e \in [0..SiteMaxEdits - 1 -> SiteEdit]
  BY <1>2, <1>3, NoEditTyped
<1>5. /\ t.edits = [st.edits EXCEPT ![s] = e] /\ t.heads = st.heads /\ t.total = st.total /\ t.keyed = st.keyed
      /\ t = [edits |-> t.edits, heads |-> t.heads, total |-> t.total, keyed |-> t.keyed]
  BY <1>1, <1>2 DEF DropEdits, SiteStates
<1>6. t \in SiteStates
  BY <1>1, <1>4, <1>5 DEF SiteStates
<1>7. \A v \in Site : v # s => t.edits[v] = st.edits[v]
  BY <1>1, <1>5 DEF SiteStates
<1>8. \A v \in Site : LiveHead(t, v) <=> LiveHead(st, v)
  BY <1>5 DEF LiveHead, HasHead, SiteExpired
<1>9. LiveChained(t)
  BY <1>5, <1>7, <1>8 DEF SiteInv, LiveChained, Chained
<1>10. BytesBounded(t) /\ Bytes(t) = Bytes(st)
  BY <1>5 DEF SiteInv, BytesBounded, Bytes
<1> QED BY <1>5, <1>6, <1>9, <1>10 DEF SiteInv

\* Removing sites keeps the store sound and the total as exact as it was.
LEMMA RemoveSitesKeeps ==
    ASSUME NEW st, SiteInv(st), NEW lost \in SUBSET Site, NEW t, t = RemoveSites(st, lost)
    PROVE  /\ SiteInv(t)
           /\ \A s \in Site : t.heads[s] = IF s \in lost THEN NoHead ELSE st.heads[s]
           /\ \A k \in Nat : TotalWithin(st, k) => TotalWithin(t, k)
<1>1. st \in SiteStates
  BY DEF SiteInv
<1>2. PICK B : B = SumFunctionOnSet(Bytes(st), lost)
  OBVIOUS
<1>3. /\ t.edits = [s \in Site |-> IF s \in lost THEN DropEdits(st, s).edits[s] ELSE st.edits[s]]
      /\ t.heads = [s \in Site |-> IF s \in lost THEN NoHead ELSE st.heads[s]]
      /\ t.total = Monus(st.total, B) /\ t.keyed = (st.keyed \/ lost # {})
      /\ t = [edits |-> t.edits, heads |-> t.heads, total |-> t.total, keyed |-> t.keyed]
  BY <1>2 DEF RemoveSites
<1>4. ASSUME NEW s \in Site PROVE DropEdits(st, s).edits[s] \in [0..SiteMaxEdits - 1 -> SiteEdit]
  <2>1. PICK e : e = [q \in DOMAIN st.edits[s] |-> NoEdit]
    OBVIOUS
  <2>2. DOMAIN st.edits[s] = 0..SiteMaxEdits - 1
    BY <1>1 DEF SiteStates
  <2>3. e \in [0..SiteMaxEdits - 1 -> SiteEdit]
    BY <2>1, <2>2, NoEditTyped
  <2>4. DropEdits(st, s).edits[s] = e
    BY <1>1, <2>1 DEF DropEdits, SiteStates
  <2> QED BY <2>3, <2>4
<1>5. \A s \in Site : t.heads[s] = (IF s \in lost THEN NoHead ELSE st.heads[s]) /\ (s \notin lost => t.edits[s] = st.edits[s])
  BY <1>3
<1>6. B \in Nat /\ st.total \in Nat /\ t.total \in Nat
  BY <1>1, <1>2, <1>3, BytesNat DEF SiteStates, Monus
<1>7. t \in SiteStates
  <2>1. t.edits \in [Site -> [0..SiteMaxEdits - 1 -> SiteEdit]]
    <3>1. \A s \in Site : st.edits[s] \in [0..SiteMaxEdits - 1 -> SiteEdit]
      BY <1>1 DEF SiteStates
    <3> QED BY <1>3, <1>4, <3>1
  <2>2. t.heads \in [Site -> SiteHead] /\ t.keyed \in BOOLEAN
    BY <1>1, <1>3, NoHeadTyped DEF SiteStates
  <2> QED BY <2>1, <2>2, <1>3, <1>6 DEF SiteStates
<1>8. LiveChained(t)
  <2> SUFFICES ASSUME NEW s \in Site, LiveHead(t, s) PROVE Chained(t, s)
    BY DEF LiveChained
  <2>1. s \notin lost
    BY <1>5 DEF LiveHead, HasHead
  <2>2. LiveHead(st, s)
    BY <1>5, <2>1 DEF LiveHead, HasHead, SiteExpired
  <2>3. Chained(st, s)
    BY <2>2 DEF SiteInv, LiveChained
  <2>4. t.heads[s] = st.heads[s] /\ t.edits[s] = st.edits[s]
    BY <1>5, <2>1
  <2> QED BY <2>3, <2>4 DEF Chained
<1>9. BytesBounded(t)
  BY <1>5, NoHeadTyped, RecConst DEF SiteInv, BytesBounded
<1>10. SumFunctionOnSet(Bytes(t), Site) = SumFunctionOnSet(Bytes(st), Site) - B
  <2>1. \A s \in Site : Bytes(t)[s] = IF s \in lost THEN 0 ELSE Bytes(st)[s]
    BY <1>1, <1>5, <1>7, BytesNat, NoHeadTyped
  <2>2. \A s \in Site : Bytes(st)[s] \in Int
    BY <1>1, BytesNat
  <2> QED BY <2>1, <2>2, <1>2, RecConst, SumZeroed
<1>11. \A k \in Nat : TotalWithin(st, k) => TotalWithin(t, k)
  <2>1. PICK m : m = SumFunctionOnSet(Bytes(st), Site)
    OBVIOUS
  <2>2. PICK n : n = SumFunctionOnSet(Bytes(t), Site)
    OBVIOUS
  <2>3. m \in Nat /\ n \in Nat /\ n = m - B
    BY <1>1, <1>7, <1>10, <2>1, <2>2, BytesNat
  <2> QED BY <2>1, <2>2, <2>3, <1>3, <1>6, RecConst DEF TotalWithin, Monus
<1> QED BY <1>5, <1>7, <1>8, <1>9, <1>11 DEF SiteInv

\* A larger slack is a weaker bound.
LEMMA WithinMore ==
    ASSUME NEW st \in SiteStates, NEW k \in Nat, NEW m \in Nat, TotalWithin(st, k), k <= m
    PROVE  TotalWithin(st, m)
<1>1. PICK n : n = SumFunctionOnSet(Bytes(st), Site)
  OBVIOUS
<1>2. n \in Nat /\ st.total \in Nat
  BY <1>1, BytesNat DEF SiteStates
<1> QED BY <1>1, <1>2 DEF TotalWithin

\* A site not touched stays whole.
LEMMA ChainedSame ==
    ASSUME NEW st, NEW t, NEW v, t.heads[v] = st.heads[v], t.edits[v] = st.edits[v], Chained(st, v)
    PROVE  Chained(t, v)
BY DEF Chained

\* A site is whole if its row of edits spells its chain.
LEMMA ChainedIs ==
    ASSUME NEW st, NEW v, NEW c, NEW row, st.heads[v].chain = c, st.edits[v] = row,
           \A i \in 1..Len(c) : row[i - 1] = [prev |-> SubSeq(c, 1, i - 1), body |-> c[i]]
    PROVE  Chained(st, v)
BY DEF Chained

\* A head dropped without its bytes costs the total one site's bytes at most.
LEMMA DropHeadKeeps ==
    ASSUME NEW st, SiteInv(st), NEW s \in Site, NEW t, t = DropHead(st, s)
    PROVE  SiteInv(t) /\ \A k \in Nat : TotalWithin(st, k) => TotalWithin(t, k + SiteMaxBytes)
<1>1. st \in SiteStates
  BY DEF SiteInv
<1>2. /\ t.heads = [st.heads EXCEPT ![s] = NoHead] /\ t.edits = st.edits /\ t.total = st.total /\ t.keyed = st.keyed
      /\ t = [edits |-> t.edits, heads |-> t.heads, total |-> t.total, keyed |-> t.keyed]
  BY <1>1 DEF DropHead, SiteStates
<1>3. t \in SiteStates
  BY <1>1, <1>2, NoHeadTyped DEF SiteStates
<1>4. \A v \in Site : t.heads[v] = IF v = s THEN NoHead ELSE st.heads[v]
  BY <1>1, <1>2 DEF SiteStates
<1>5. LiveChained(t)
  <2> SUFFICES ASSUME NEW v \in Site, LiveHead(t, v) PROVE Chained(t, v)
    BY DEF LiveChained
  <2>1. v # s
    BY <1>4 DEF LiveHead, HasHead
  <2>2. LiveHead(st, v)
    BY <1>4, <2>1 DEF LiveHead, HasHead, SiteExpired
  <2>3. Chained(st, v) /\ t.heads[v] = st.heads[v] /\ t.edits[v] = st.edits[v]
    BY <1>2, <1>4, <2>1, <2>2 DEF SiteInv, LiveChained
  <2> QED BY <2>3, ChainedSame
<1>6. BytesBounded(t)
  BY <1>4, NoHeadTyped, RecConst DEF SiteInv, BytesBounded
<1>7. SumFunctionOnSet(Bytes(t), Site) = SumFunctionOnSet(Bytes(st), Site) - Bytes(st)[s] + Bytes(t)[s]
  <2>1. \A v \in Site : Bytes(st)[v] \in Int /\ Bytes(t)[v] \in Int
    BY <1>1, <1>3, BytesNat
  <2>2. \A v \in Site : v # s => Bytes(t)[v] = Bytes(st)[v]
    BY <1>1, <1>3, <1>4, BytesNat
  <2> QED BY <2>1, <2>2, RecConst, SumChange
<1>8. \A k \in Nat : TotalWithin(st, k) => TotalWithin(t, k + SiteMaxBytes)
  <2>1. PICK m : m = SumFunctionOnSet(Bytes(st), Site)
    OBVIOUS
  <2>2. PICK n : n = SumFunctionOnSet(Bytes(t), Site)
    OBVIOUS
  <2>3. PICK b : b = Bytes(st)[s]
    OBVIOUS
  <2>4. b \in Nat /\ b <= SiteMaxBytes /\ Bytes(t)[s] = 0
    BY <1>1, <1>3, <1>4, <2>3, BytesNat, NoHeadTyped DEF SiteInv, BytesBounded
  <2>5. m \in Nat /\ n \in Nat /\ n = m - b /\ st.total \in Nat /\ t.total = st.total
    BY <1>1, <1>2, <1>3, <1>7, <2>1, <2>2, <2>3, <2>4, BytesNat DEF SiteStates
  <2> QED BY <2>1, <2>2, <2>4, <2>5, RecConst DEF TotalWithin
<1> QED BY <1>3, <1>5, <1>6, <1>8 DEF SiteInv

\* st can take the edit e: e extends the site's chain, which is whole, and fits.
Takes(st, e) == Chained(st, e.site) /\ Extends(st, e) /\ ~SiteFull(st, e)

\* What an edit the store takes looks like.
LEMMA EditFacts ==
    ASSUME NEW st \in SiteStates, NEW e \in EditCalls, Takes(st, e)
    PROVE  /\ e.site \in Site /\ e.body \in Body /\ e.prev \in Seq(Body) /\ e.seq \in 0..SiteMaxEdits - 1
           /\ st.heads[e.site].chain = e.prev /\ e.seq = Len(e.prev) /\ BodySize[e.body] \in Nat
           /\ st.heads[e.site].bytes \in Nat /\ st.heads[e.site].bytes + BodySize[e.body] <= SiteMaxBytes
<1>1. e.site \in Site /\ e.body \in Body /\ e.prev \in Seq(Body) /\ e.seq \in Nat
  BY DEF EditCalls
<1>2. st.heads[e.site] \in SiteHead
  BY <1>1 DEF SiteStates
<1>3. st.heads[e.site].bytes \in Nat
  BY <1>2 DEF SiteHead
<1> QED BY <1>1, <1>3, RecConst DEF Takes, Extends, SiteFull

\* Writing the edit, before the head says so, keeps the store sound.
LEMMA InsertEditKeeps ==
    ASSUME NEW st, SiteInv(st), NEW e \in EditCalls, Takes(st, e), NEW t, t = InsertEdit(st, e)
    PROVE  /\ SiteInv(t) /\ Takes(t, e) /\ t.heads = st.heads /\ t.total = st.total /\ Bytes(t) = Bytes(st)
           /\ t.edits[e.site][e.seq] = [prev |-> e.prev, body |-> e.body]
<1>1. st \in SiteStates
  BY DEF SiteInv
<1>2. /\ e.site \in Site /\ e.body \in Body /\ e.prev \in Seq(Body) /\ e.seq \in 0..SiteMaxEdits - 1
      /\ st.heads[e.site].chain = e.prev /\ e.seq = Len(e.prev)
  BY <1>1, EditFacts
<1>3. PICK x : x = [prev |-> e.prev, body |-> e.body]
  OBVIOUS
<1>4. x \in SiteEdit
  BY <1>2, <1>3 DEF SiteEdit
<1>5. PICK row : row = [st.edits[e.site] EXCEPT ![e.seq] = x]
  OBVIOUS
<1>6. st.edits[e.site] \in [0..SiteMaxEdits - 1 -> SiteEdit]
  BY <1>1, <1>2 DEF SiteStates
<1>7. row \in [0..SiteMaxEdits - 1 -> SiteEdit] /\ row[e.seq] = x /\ \A q \in 0..SiteMaxEdits - 1 : q # e.seq => row[q] = st.edits[e.site][q]
  BY <1>2, <1>4, <1>5, <1>6
<1>8. /\ t.edits = [st.edits EXCEPT ![e.site] = row] /\ t.heads = st.heads /\ t.total = st.total /\ t.keyed = st.keyed
      /\ t = [edits |-> t.edits, heads |-> t.heads, total |-> t.total, keyed |-> t.keyed]
  BY <1>1, <1>3, <1>5 DEF InsertEdit, SiteStates
<1>9. t \in SiteStates
  BY <1>1, <1>7, <1>8 DEF SiteStates
<1>10. t.edits[e.site] = row /\ \A v \in Site : v # e.site => t.edits[v] = st.edits[v]
  BY <1>1, <1>2, <1>8 DEF SiteStates
<1>11. Chained(t, e.site)
  <2> SUFFICES ASSUME NEW i \in 1..Len(e.prev)
               PROVE  row[i - 1] = [prev |-> SubSeq(e.prev, 1, i - 1), body |-> e.prev[i]]
    <3>1. t.heads[e.site].chain = e.prev /\ t.edits[e.site] = row
      BY <1>2, <1>8, <1>10
    <3> QED BY <3>1, ChainedIs
  <2>1. i - 1 \in 0..SiteMaxEdits - 1 /\ i - 1 # e.seq
    BY <1>2, RecConst
  <2>2. row[i - 1] = st.edits[e.site][i - 1]
    BY <2>1, <1>7
  <2> QED BY <2>2, <1>2 DEF Takes, Chained
<1>12. \A v \in Site : LiveHead(t, v) <=> LiveHead(st, v)
  BY <1>8 DEF LiveHead, HasHead, SiteExpired
<1>13. LiveChained(t)
  <2> SUFFICES ASSUME NEW v \in Site, LiveHead(t, v), v # e.site PROVE Chained(t, v)
    BY <1>11 DEF LiveChained
  <2>1. Chained(st, v) /\ t.heads[v] = st.heads[v] /\ t.edits[v] = st.edits[v]
    BY <1>8, <1>10, <1>12 DEF SiteInv, LiveChained
  <2> QED BY <2>1, ChainedSame
<1>14. BytesBounded(t) /\ Bytes(t) = Bytes(st)
  BY <1>8 DEF SiteInv, BytesBounded, Bytes
<1>15. Takes(t, e)
  BY <1>8, <1>11 DEF Takes, Extends, SiteFull
<1>16. t.edits[e.site][e.seq] = x
  BY <1>7, <1>10
<1> QED BY <1>3, <1>8, <1>9, <1>13, <1>14, <1>15, <1>16 DEF SiteInv

\* Writing the head then keeps it sound, and adds the edit's bytes to the sum.
LEMMA InsertHeadKeeps ==
    ASSUME NEW st, SiteInv(st), NEW e \in EditCalls, Takes(st, e), rclock \in Nat, NEW t, t = InsertHead(st, e),
           st.edits[e.site][e.seq] = [prev |-> e.prev, body |-> e.body]
    PROVE  /\ SiteInv(t) /\ t.total = st.total /\ t.keyed = st.keyed
           /\ SumFunctionOnSet(Bytes(t), Site) = SumFunctionOnSet(Bytes(st), Site) + BodySize[e.body]
<1>1. st \in SiteStates
  BY DEF SiteInv
<1>2. /\ e.site \in Site /\ e.body \in Body /\ e.prev \in Seq(Body) /\ e.seq \in 0..SiteMaxEdits - 1
      /\ st.heads[e.site].chain = e.prev /\ e.seq = Len(e.prev) /\ BodySize[e.body] \in Nat
      /\ st.heads[e.site].bytes \in Nat /\ st.heads[e.site].bytes + BodySize[e.body] <= SiteMaxBytes
  BY <1>1, EditFacts
<1>3. PICK c : c = Append(e.prev, e.body)
  OBVIOUS
<1>4. /\ c \in Seq(Body) /\ Len(c) = Len(e.prev) + 1
      /\ \A i \in 1..Len(e.prev) : c[i] = e.prev[i]
      /\ c[Len(e.prev) + 1] = e.body
  BY <1>2, <1>3
<1>5. PICK h : h = [chain |-> c, bytes |-> st.heads[e.site].bytes + BodySize[e.body], at |-> rclock]
  OBVIOUS
<1>6. h \in SiteHead /\ h.chain = c /\ h.bytes = st.heads[e.site].bytes + BodySize[e.body]
  BY <1>2, <1>4, <1>5 DEF SiteHead
<1>7. /\ t.heads = [st.heads EXCEPT ![e.site] = h] /\ t.edits = st.edits /\ t.total = st.total /\ t.keyed = st.keyed
      /\ t = [edits |-> t.edits, heads |-> t.heads, total |-> t.total, keyed |-> t.keyed]
  BY <1>1, <1>3, <1>5 DEF InsertHead, SiteStates
<1>8. t \in SiteStates
  BY <1>1, <1>6, <1>7 DEF SiteStates
<1>9. t.heads[e.site] = h /\ \A v \in Site : v # e.site => t.heads[v] = st.heads[v]
  BY <1>1, <1>2, <1>7 DEF SiteStates
<1>10. Chained(t, e.site)
  <2>0. PICK row : row = st.edits[e.site]
    OBVIOUS
  <2> SUFFICES ASSUME NEW i \in 1..Len(c)
               PROVE  row[i - 1] = [prev |-> SubSeq(c, 1, i - 1), body |-> c[i]]
    <3>1. t.heads[e.site].chain = c /\ t.edits[e.site] = row
      BY <1>6, <1>7, <1>9, <2>0
    <3> QED BY <3>1, ChainedIs
  <2>1. CASE i \in 1..Len(e.prev)
    <3>1. st.edits[e.site][i - 1] = [prev |-> SubSeq(e.prev, 1, i - 1), body |-> e.prev[i]]
      BY <2>1, <1>2 DEF Takes, Chained
    <3>2. SubSeq(c, 1, i - 1) = SubSeq(e.prev, 1, i - 1)
      BY <2>1, <1>2, <1>4
    <3> QED BY <3>1, <3>2, <2>0, <2>1, <1>4
  <2>2. CASE i = Len(e.prev) + 1
    <3>1. SubSeq(c, 1, Len(e.prev)) = e.prev
      BY <1>2, <1>4
    <3>2. i - 1 = Len(e.prev) /\ c[i] = e.body
      BY <2>2, <1>2, <1>4
    <3> QED BY <3>1, <3>2, <2>0, <1>2
  <2> QED BY <2>1, <2>2, <1>2, <1>4
<1>11. LiveChained(t)
  <2> SUFFICES ASSUME NEW v \in Site, LiveHead(t, v), v # e.site PROVE Chained(t, v)
    BY <1>10 DEF LiveChained
  <2>1. LiveHead(st, v)
    BY <1>9 DEF LiveHead, HasHead, SiteExpired
  <2>2. Chained(st, v) /\ t.heads[v] = st.heads[v] /\ t.edits[v] = st.edits[v]
    BY <1>7, <1>9, <2>1 DEF SiteInv, LiveChained
  <2> QED BY <2>2, ChainedSame
<1>12. BytesBounded(t)
  BY <1>2, <1>6, <1>9 DEF SiteInv, BytesBounded
<1>13. SumFunctionOnSet(Bytes(t), Site) = SumFunctionOnSet(Bytes(st), Site) - Bytes(st)[e.site] + Bytes(t)[e.site]
  <2>1. \A v \in Site : Bytes(st)[v] \in Int /\ Bytes(t)[v] \in Int
    BY <1>1, <1>8, BytesNat
  <2>2. \A v \in Site : v # e.site => Bytes(t)[v] = Bytes(st)[v]
    BY <1>1, <1>8, <1>9, BytesNat
  <2>3. PICK w0 \in Site : w0 = e.site
    BY <1>2
  <2>4. \A v \in Site : v # w0 => Bytes(t)[v] = Bytes(st)[v]
    BY <2>2, <2>3
  <2>5. SumFunctionOnSet(Bytes(t), Site) = SumFunctionOnSet(Bytes(st), Site) - Bytes(st)[w0] + Bytes(t)[w0]
    BY <2>1, <2>4, RecConst, SumChange
  <2> QED BY <2>3, <2>5
<1>14. SumFunctionOnSet(Bytes(t), Site) = SumFunctionOnSet(Bytes(st), Site) + BodySize[e.body]
  <2>1. Bytes(t)[e.site] = Bytes(st)[e.site] + BodySize[e.body] /\ Bytes(st)[e.site] \in Nat
    BY <1>1, <1>2, <1>6, <1>8, <1>9, BytesNat
  <2>2. SumFunctionOnSet(Bytes(st), Site) \in Nat
    BY <1>1, BytesNat
  <2> QED BY <2>1, <2>2, <1>2, <1>13
<1> QED BY <1>7, <1>8, <1>11, <1>12, <1>14 DEF SiteInv

\* An expired site removed first keeps the store sound.
LEMMA StartedKeeps ==
    ASSUME NEW e \in EditCalls, SiteInv(sites)
    PROVE  /\ SiteInv(Started(e)) /\ ~SiteExpired(Started(e), e.site)
           /\ \A k \in Nat : TotalWithin(sites, k) => TotalWithin(Started(e), k)
<1>1. e.site \in Site
  BY DEF EditCalls
<1>2. CASE SiteExpired(sites, e.site)
  <2>1. PICK t : t = RemoveSites(sites, {e.site})
    OBVIOUS
  <2>2. Started(e) = t
    BY <1>2, <2>1 DEF Started
  <2>3. {e.site} \in SUBSET Site
    BY <1>1
  <2>4. /\ SiteInv(t) /\ \A s \in Site : t.heads[s] = IF s \in {e.site} THEN NoHead ELSE sites.heads[s]
        /\ \A k \in Nat : TotalWithin(sites, k) => TotalWithin(t, k)
    BY <2>1, <2>3, RemoveSitesKeeps
  <2>5. ~SiteExpired(t, e.site)
    BY <2>4, <1>1 DEF SiteExpired, HasHead
  <2> QED BY <2>2, <2>4, <2>5
<1>3. CASE ~SiteExpired(sites, e.site)
  BY <1>3 DEF Started
<1> QED BY <1>2, <1>3

\* A site that has not expired is whole.
LEMMA WholeIfNotExpired ==
    ASSUME NEW st, SiteInv(st), NEW s \in Site, ~SiteExpired(st, s)
    PROVE  Chained(st, s)
<1>1. CASE HasHead(st, s)
  BY <1>1 DEF SiteInv, LiveChained, LiveHead
<1>2. CASE ~HasHead(st, s)
  BY <1>2, NoHeadTyped DEF HasHead, Chained
<1> QED BY <1>1, <1>2

\* So does the pruning on the way, and what the edit extends is not pruned.
LEMMA ReadyKeeps ==
    ASSUME NEW e \in EditCalls, SiteInv(sites)
    PROVE  /\ SiteInv(Ready(e)) /\ (Admits(e) => Takes(Ready(e), e))
           /\ \A k \in Nat : TotalWithin(sites, k) => TotalWithin(Ready(e), k)
<1>0. PICK st : st = Started(e)
  OBVIOUS
<1>1. SiteInv(st) /\ ~SiteExpired(st, e.site) /\ \A k \in Nat : TotalWithin(sites, k) => TotalWithin(st, k)
  BY <1>0, StartedKeeps
<1>2. e.site \in Site
  BY DEF EditCalls
<1>3. Admits(e) => Takes(st, e)
  BY <1>0, <1>1, <1>2, WholeIfNotExpired DEF Admits, Takes
<1>4. CASE Prunes(e)
  <2>1. PICK t : t = RemoveSites(st, ExpiredSites(st))
    OBVIOUS
  <2>2. Ready(e) = t
    BY <1>0, <1>4, <2>1 DEF Ready, PruneExpiredSites
  <2>3. ExpiredSites(st) \in SUBSET Site /\ e.site \notin ExpiredSites(st)
    BY <1>1 DEF ExpiredSites
  <2>4. /\ SiteInv(t) /\ \A s \in Site : t.heads[s] = IF s \in ExpiredSites(st) THEN NoHead ELSE st.heads[s]
        /\ \A k \in Nat : TotalWithin(st, k) => TotalWithin(t, k)
    BY <1>1, <2>1, <2>3, RemoveSitesKeeps
  <2>5. t.heads[e.site] = st.heads[e.site]
    BY <1>2, <2>3, <2>4
  <2>6. ~SiteExpired(t, e.site)
    BY <1>1, <2>5 DEF SiteExpired, HasHead
  <2>7. Chained(t, e.site)
    BY <1>2, <2>4, <2>6, WholeIfNotExpired
  <2>8. Admits(e) => Takes(t, e)
    BY <1>3, <2>5, <2>7 DEF Takes, Extends, SiteFull
  <2> QED BY <1>1, <2>2, <2>4, <2>8
<1>5. CASE ~Prunes(e)
  BY <1>0, <1>1, <1>3, <1>5 DEF Ready
<1> QED BY <1>4, <1>5

\* The three writes together keep the total as exact as it was.
LEMMA CountedAppend ==
    ASSUME NEW st, SiteInv(st), NEW e \in EditCalls, Takes(st, e), rclock \in Nat, ~Over(st, e),
           NEW t, t = CountEdit(InsertHead(InsertEdit(st, e), e), e)
    PROVE  SiteInv(t) /\ \A k \in Nat : TotalWithin(st, k) => TotalWithin(t, k)
<1>1. PICK a : a = InsertEdit(st, e)
  OBVIOUS
<1>2. /\ SiteInv(a) /\ Takes(a, e) /\ a.heads = st.heads /\ a.total = st.total /\ Bytes(a) = Bytes(st)
      /\ a.edits[e.site][e.seq] = [prev |-> e.prev, body |-> e.body]
  BY <1>1, InsertEditKeeps
<1>3. PICK b : b = InsertHead(a, e)
  OBVIOUS
<1>4. /\ SiteInv(b) /\ b.total = a.total
      /\ SumFunctionOnSet(Bytes(b), Site) = SumFunctionOnSet(Bytes(a), Site) + BodySize[e.body]
  BY <1>2, <1>3, InsertHeadKeeps
<1>5. b \in SiteStates /\ st \in SiteStates /\ a \in SiteStates
  BY <1>2, <1>4 DEF SiteInv
<1>6. t = CountEdit(b, e)
  BY <1>1, <1>3
<1>7. BodySize[e.body] \in Nat /\ b.total \in Nat
  BY <1>5, EditFacts DEF SiteStates
<1>8. /\ t.edits = b.edits /\ t.heads = b.heads /\ t.total = b.total + BodySize[e.body] /\ t.keyed = TRUE
      /\ t = [edits |-> t.edits, heads |-> t.heads, total |-> t.total, keyed |-> t.keyed]
  BY <1>5, <1>6 DEF CountEdit, SiteStates
<1>9. t \in SiteStates
  <2>1. t.edits \in [Site -> [0..SiteMaxEdits - 1 -> SiteEdit]] /\ t.heads \in [Site -> SiteHead]
    BY <1>5, <1>8 DEF SiteStates
  <2>2. t.total \in Nat
    BY <1>7, <1>8
  <2>3. t.keyed \in BOOLEAN
    BY <1>8, Zenon
  <2> QED BY <2>1, <2>2, <2>3, <1>8 DEF SiteStates
<1>10. \A v \in Site : LiveHead(t, v) <=> LiveHead(b, v)
  BY <1>8 DEF LiveHead, HasHead, SiteExpired
<1>11. LiveChained(t)
  <2> SUFFICES ASSUME NEW v \in Site, LiveHead(t, v) PROVE Chained(t, v)
    BY DEF LiveChained
  <2>1. Chained(b, v) /\ t.heads[v] = b.heads[v] /\ t.edits[v] = b.edits[v]
    BY <1>4, <1>8, <1>10 DEF SiteInv, LiveChained
  <2> QED BY <2>1, ChainedSame
<1>12. BytesBounded(t) /\ Bytes(t) = Bytes(b)
  BY <1>4, <1>8 DEF SiteInv, BytesBounded, Bytes
<1>13. st.total + BodySize[e.body] <= SitesTotalCap
  BY <1>5, <1>7, <1>4, <1>2, RecConst DEF Over
<1>14. \A k \in Nat : TotalWithin(st, k) => TotalWithin(t, k)
  <2>1. PICK m : m = SumFunctionOnSet(Bytes(st), Site)
    OBVIOUS
  <2>2. PICK n : n = SumFunctionOnSet(Bytes(t), Site)
    OBVIOUS
  <2>3. m \in Nat
    BY <1>5, <2>1, BytesNat
  <2>4. n = m + BodySize[e.body] /\ t.total = st.total + BodySize[e.body] /\ st.total \in Nat
    BY <1>2, <1>4, <1>5, <1>8, <1>12, <2>1, <2>2 DEF SiteStates
  <2> QED BY <2>1, <2>2, <2>3, <2>4, <1>7, <1>13 DEF TotalWithin
<1> QED BY <1>9, <1>11, <1>12, <1>14 DEF SiteInv

\* append keeps the site store sound, refused or not.
LEMMA AppendSites ==
    ASSUME NEW e \in EditCalls, SiteInv(sites), rclock \in Nat, EditAppend(e)
    PROVE  SiteInv(sites') /\ \A k \in Nat : TotalWithin(sites, k) => TotalWithin(sites', k)
<1>0. PICK st : st = Ready(e)
  OBVIOUS
<1>1. SiteInv(st) /\ (Admits(e) => Takes(st, e)) /\ \A k \in Nat : TotalWithin(sites, k) => TotalWithin(st, k)
  BY <1>0, ReadyKeeps
<1>2. CASE sites' = sites
  BY <1>2
<1>3. CASE Admits(e) /\ ~Over(st, e) /\ sites' = CountEdit(InsertHead(InsertEdit(st, e), e), e)
  <2>1. PICK t : t = sites'
    OBVIOUS
  <2>2. SiteInv(t) /\ \A k \in Nat : TotalWithin(st, k) => TotalWithin(t, k)
    BY <1>1, <1>3, <2>1, CountedAppend
  <2> QED BY <1>1, <2>1, <2>2
<1>4. CASE sites' = st
  BY <1>1, <1>4
<1> QED BY <1>0, <1>2, <1>3, <1>4 DEF EditAppend

\* A crash inside a removal costs one site's bytes at most.
LEMMA TornRemovalKeeps ==
    ASSUME NEW st, SiteInv(st), NEW s \in Site, ~LiveHead(st, s), NEW t \in TornRemoval(st, s)
    PROVE  SiteInv(t) /\ \A k \in Nat : TotalWithin(st, k) => TotalWithin(t, k + SiteMaxBytes)
<1>1. PICK d : d = DropEdits(st, s)
  OBVIOUS
<1>2. SiteInv(d) /\ d.heads = st.heads /\ d.total = st.total /\ Bytes(d) = Bytes(st)
  BY <1>1, DropEditsKeeps
<1>3. \A k \in Nat : TotalWithin(st, k) => TotalWithin(d, k)
  BY <1>2 DEF TotalWithin
<1>4. d \in SiteStates
  BY <1>2 DEF SiteInv
<1>5. CASE t = d
  <2>1. \A k \in Nat : TotalWithin(d, k) => TotalWithin(d, k + SiteMaxBytes)
    <3> SUFFICES ASSUME NEW k \in Nat, TotalWithin(d, k) PROVE TotalWithin(d, k + SiteMaxBytes)
      OBVIOUS
    <3>1. k + SiteMaxBytes \in Nat /\ k <= k + SiteMaxBytes
      BY RecConst
    <3> QED BY <3>1, <1>4, WithinMore
  <2> QED BY <1>2, <1>3, <1>5, <2>1
<1>6. CASE t = DropHead(d, s)
  BY <1>2, <1>3, <1>6, DropHeadKeeps
<1> QED BY <1>1, <1>5, <1>6 DEF TornRemoval

\* So does a crash anywhere in append.
LEMMA CrashSites ==
    ASSUME NEW e \in EditCalls, SiteInv(sites), rclock \in Nat, EditCrash(e)
    PROVE  SiteInv(sites') /\ \A k \in Nat : TotalWithin(sites, k) => TotalWithin(sites', k + SiteMaxBytes)
<1>0. e.site \in Site
  BY DEF EditCalls
<1>1. CASE SiteExpired(sites, e.site) /\ sites' \in TornRemoval(sites, e.site)
  <2>1. ~LiveHead(sites, e.site)
    BY <1>1 DEF LiveHead
  <2> QED BY <1>0, <1>1, <2>1, TornRemovalKeeps
<1>2. CASE sites' \in TornPrune(e)
  <2>0. PICK st : st = Started(e)
    OBVIOUS
  <2>1. SiteInv(st) /\ \A k \in Nat : TotalWithin(sites, k) => TotalWithin(st, k)
    BY <2>0, StartedKeeps
  <2>2. PICK done \in SUBSET ExpiredSites(st) : \E s \in ExpiredSites(st) \ done : sites' \in TornRemoval(RemoveSites(st, done), s)
    BY <1>2, <2>0 DEF TornPrune
  <2>3. PICK s \in ExpiredSites(st) \ done : sites' \in TornRemoval(RemoveSites(st, done), s)
    BY <2>2
  <2>4. PICK r : r = RemoveSites(st, done)
    OBVIOUS
  <2>5. done \in SUBSET Site /\ s \in Site /\ SiteExpired(st, s) /\ s \notin done
    BY <2>2, <2>3 DEF ExpiredSites
  <2>6. /\ SiteInv(r) /\ \A v \in Site : r.heads[v] = IF v \in done THEN NoHead ELSE st.heads[v]
        /\ \A k \in Nat : TotalWithin(st, k) => TotalWithin(r, k)
    BY <2>1, <2>4, <2>5, RemoveSitesKeeps
  <2>7. r.heads[s] = st.heads[s]
    BY <2>5, <2>6
  <2>8. ~LiveHead(r, s)
    BY <2>5, <2>7 DEF LiveHead, SiteExpired, HasHead
  <2>9. SiteInv(sites') /\ \A k \in Nat : TotalWithin(r, k) => TotalWithin(sites', k + SiteMaxBytes)
    BY <2>3, <2>4, <2>5, <2>6, <2>8, TornRemovalKeeps
  <2> QED BY <2>1, <2>6, <2>9
<1>3. CASE sites' \in TornAppend(e)
  <2>0. PICK st : st = Ready(e)
    OBVIOUS
  <2>1. SiteInv(st) /\ (Admits(e) => Takes(st, e)) /\ \A k \in Nat : TotalWithin(sites, k) => TotalWithin(st, k)
    BY <2>0, ReadyKeeps
  <2>2. Takes(st, e)
    BY <1>3, <2>0, <2>1 DEF TornAppend
  <2>3. PICK a : a = InsertEdit(st, e)
    OBVIOUS
  <2>4. /\ SiteInv(a) /\ Takes(a, e) /\ a.total = st.total /\ Bytes(a) = Bytes(st)
        /\ a.edits[e.site][e.seq] = [prev |-> e.prev, body |-> e.body]
    BY <2>1, <2>2, <2>3, InsertEditKeeps
  <2>5. \A k \in Nat : TotalWithin(st, k) => TotalWithin(a, k)
    BY <2>4 DEF TotalWithin
  <2>6. a \in SiteStates
    BY <2>4 DEF SiteInv
  <2>7. CASE sites' = a
    <3>1. \A k \in Nat : TotalWithin(a, k) => TotalWithin(a, k + SiteMaxBytes)
      <4> SUFFICES ASSUME NEW k \in Nat, TotalWithin(a, k) PROVE TotalWithin(a, k + SiteMaxBytes)
        OBVIOUS
      <4>1. k + SiteMaxBytes \in Nat /\ k <= k + SiteMaxBytes
        BY RecConst
      <4> QED BY <4>1, <2>6, WithinMore
    <3> QED BY <2>1, <2>4, <2>5, <2>7, <3>1
  <2>8. CASE sites' = InsertHead(a, e)
    <3>1. PICK b : b = InsertHead(a, e)
      OBVIOUS
    <3>2. /\ SiteInv(b) /\ b.total = a.total
          /\ SumFunctionOnSet(Bytes(b), Site) = SumFunctionOnSet(Bytes(a), Site) + BodySize[e.body]
      BY <2>4, <3>1, InsertHeadKeeps
    <3>3. PICK m : m = SumFunctionOnSet(Bytes(a), Site)
      OBVIOUS
    <3>4. m \in Nat /\ a.total \in Nat
      BY <2>6, <3>3, BytesNat DEF SiteStates
    <3>5. BodySize[e.body] \in Nat /\ BodySize[e.body] <= SiteMaxBytes
      BY <2>4, <2>6, EditFacts, RecConst
    <3>6. \A k \in Nat : TotalWithin(a, k) => TotalWithin(b, k + SiteMaxBytes)
      BY <3>2, <3>3, <3>4, <3>5, RecConst DEF TotalWithin
    <3> QED BY <2>1, <2>5, <2>8, <3>1, <3>2, <3>6
  <2> QED BY <1>3, <2>0, <2>3, <2>7, <2>8 DEF TornAppend
<1> QED BY <1>1, <1>2, <1>3 DEF EditCrash

-----------------------------------------------------------------------------
(* Sites, listings and markings together.                                    *)

\* The days there are.
Days == 0..DayOf(MaxRecTime)
\* Listings by member and day.
DayCounts == [Lister -> [Days -> Nat]]
\* Listings past the handler's checks.
ListCalls == [site : Site, member : Lister, at : 0..MaxRecTime]
\* The trees of the signature registry.
MarkTrees == [written : [Mark -> 0..6], at : [Mark -> 0..MaxRecTime], anchor : [Mark -> 0..MaxHeight]]
\* Publications under way.
SigCallsOk == [mark : Mark, anchor : BOOLEAN, stage : {"publish", "read", "set"}, height : 0..MaxHeight]
\* The history.
Histories == [listings : DayCounts, anchors : [Mark -> SUBSET (1..MaxHeight)], crashes : Nat, stamps : Nat]

\* The site store, its lock's clock and the edits under way.
SitesInv ==
    /\ SiteInv(sites) /\ TotalWithin(sites, recHist.crashes * SiteMaxBytes)
    /\ editing \subseteq EditCalls /\ lastPrune \in 0..MaxRecTime
\* The day's count is within the cap, and behind what was listed by a crash each.
ListsInv ==
    /\ members \subseteq Lister /\ listing \subseteq ListCalls /\ DOMAIN listed = {"book", "daily"}
    /\ listed.daily \in DayCounts
    /\ \A m \in Lister, d \in Days : /\ listed.daily[m][d] <= ListCap
                                     /\ recHist.listings[m][d] <= listed.daily[m][d] + recHist.crashes
\* Records a signer's index knows.
InSigner(m, w) == {r \in Mark : m.written[r] >= 4 /\ MarkSigner[r] = w}
\* Records stored but not yet in their signer's index.
Partial(m) == {r \in Mark : m.written[r] \in 1..3}
\* Records: earliest anchors, quotas, and one record out of its index per crash.
MarksInv ==
    /\ marks \in MarkTrees /\ stamp \in [Mark -> 0..MaxHeight] /\ sigCalls \subseteq SigCallsOk
    /\ \A c \in sigCalls : c.stage = "set" => c.height # 0
    /\ AnchorIsEarliest
    /\ \A w \in Range(MarkSigner) : Cardinality(InSigner(marks, w)) <= MarksPerSigner
    /\ Cardinality(Partial(marks)) <= recHist.crashes
\* The inductive invariant of sites, listings and records.
RecInv == rclock \in 1..MaxRecTime /\ recHist \in Histories /\ hidden \subseteq Hideable /\ SitesInv /\ ListsInv /\ MarksInv

\* The assumptions on the constants of listings and records.
LEMMA RecConst2 ==
    /\ IsFiniteSet(Mark) /\ ListCap \in Nat /\ MarksPerSigner \in Nat /\ MaxHeight \in Nat /\ ListDay \in Nat \ {0}
    /\ SearchMax \in Nat \ {0} /\ DOMAIN MarkSigner = Mark
BY RecordsAssumption

\* Every time has its day.
LEMMA DayIn == ASSUME NEW t \in 0..MaxRecTime PROVE DayOf(t) \in Days
<1>1. t \div ListDay \in Nat /\ MaxRecTime \div ListDay \in Nat /\ t \div ListDay <= MaxRecTime \div ListDay
  BY RecConst, RecConst2, DivMono
<1> QED BY <1>1 DEF DayOf, Days

\* These sets of records are finite.
LEMMA MarksFinite ==
    ASSUME NEW m, NEW w
    PROVE  /\ IsFiniteSet(InSigner(m, w)) /\ IsFiniteSet(Partial(m))
           /\ Cardinality(InSigner(m, w)) \in Nat /\ Cardinality(Partial(m)) \in Nat
<1>1. InSigner(m, w) \in SUBSET Mark /\ Partial(m) \in SUBSET Mark
  BY DEF InSigner, Partial
<1> QED BY <1>1, RecConst2, FS_Subset, FS_CardinalityType

\* One crash more is one site's bytes of slack more.
LEMMA SlackGrows ==
    ASSUME NEW c \in Nat
    PROVE  (c + 1) * SiteMaxBytes = c * SiteMaxBytes + SiteMaxBytes /\ c * SiteMaxBytes \in Nat
BY RecConst, ProductNext

\* A crash elsewhere leaves the total within the larger slack.
LEMMA CrashOnlySites ==
    ASSUME SiteInv(sites), TotalWithin(sites, recHist.crashes * SiteMaxBytes), recHist.crashes \in Nat
    PROVE  TotalWithin(sites, (recHist.crashes + 1) * SiteMaxBytes)
<1>1. PICK a : a = recHist.crashes * SiteMaxBytes
  OBVIOUS
<1>2. PICK b : b = (recHist.crashes + 1) * SiteMaxBytes
  OBVIOUS
<1>3. a \in Nat /\ b = a + SiteMaxBytes
  BY <1>1, <1>2, SlackGrows
<1>4. b \in Nat /\ a <= b /\ sites \in SiteStates
  BY <1>3, RecConst DEF SiteInv
<1>5. TotalWithin(sites, a)
  BY <1>1
<1> QED BY <1>2, <1>3, <1>4, <1>5, WithinMore

\* While time stands still, what holds of the new store holds in the new state.
LEMMA SiteInvNow ==
    ASSUME rclock' = rclock, SiteInv(sites')
    PROVE  SiteInv(sites)'
<1>1. \A s \in Site : LiveHead(sites, s)' <=> LiveHead(sites', s)
  BY DEF LiveHead, HasHead, SiteExpired
<1>2. LiveChained(sites)'
  BY <1>1 DEF SiteInv, LiveChained, Chained
<1> QED BY <1>2 DEF SiteInv, BytesBounded

\* What a crash leaves of the site store's own steps.
LEMMA SitesCrash ==
    ASSUME RecInv, rclock' = rclock, sites' = sites, recHist'.crashes = recHist.crashes + 1, lastPrune' = 0, editing' = {}
    PROVE  SitesInv'
<1>1. recHist.crashes \in Nat
  BY DEF RecInv, Histories
<1>2. TotalWithin(sites, (recHist.crashes + 1) * SiteMaxBytes)
  BY <1>1, CrashOnlySites DEF RecInv, SitesInv
<1>3. SiteInv(sites)
  BY DEF RecInv, SitesInv
<1>4. TotalWithin(sites', recHist'.crashes * SiteMaxBytes)
  BY <1>2
<1>5. SiteInv(sites') /\ editing' \subseteq EditCalls /\ lastPrune' \in 0..MaxRecTime
  BY <1>3, RecConst
<1>6. SiteInv(sites)'
  BY <1>5, SiteInvNow
<1>7. TotalWithin(sites, recHist.crashes * SiteMaxBytes)'
  BY <1>4 DEF TotalWithin, Bytes
<1> QED BY <1>5, <1>6, <1>7 DEF SitesInv

\* The parts of the invariant.
LEMMA RecFacts ==
    ASSUME RecInv
    PROVE  /\ rclock \in Nat /\ rclock \in 0..MaxRecTime /\ rclock \in 1..MaxRecTime /\ recHist.crashes \in Nat /\ recHist.stamps \in Nat
           /\ recHist \in Histories /\ SitesInv /\ ListsInv /\ MarksInv
           /\ recHist.listings \in DayCounts /\ recHist.anchors \in [Mark -> SUBSET (1..MaxHeight)]
           /\ DOMAIN recHist = {"listings", "anchors", "crashes", "stamps"}
<1>1. rclock \in Nat /\ rclock \in 0..MaxRecTime
  BY RecConst DEF RecInv
<1> QED BY <1>1 DEF RecInv, Histories

\* A step that leaves the site store alone keeps what is said of it.
LEMMA SitesFrame ==
    ASSUME SitesInv, rclock' = rclock, sites' = sites, recHist'.crashes = recHist.crashes, editing' \subseteq EditCalls,
           lastPrune' = lastPrune
    PROVE  SitesInv'
<1>1. SiteInv(sites)'
  <2>1. SiteInv(sites')
    BY DEF SitesInv
  <2> QED BY <2>1, SiteInvNow
<1>2. TotalWithin(sites, recHist.crashes * SiteMaxBytes)'
  BY DEF SitesInv, TotalWithin, Bytes
<1> QED BY <1>1, <1>2 DEF SitesInv

\* A step that leaves the listings alone keeps what is said of them.
LEMMA ListsFrame ==
    ASSUME ListsInv, listed' = listed, members' \subseteq Lister, listing' \subseteq ListCalls,
           recHist \in Histories, recHist'.listings = recHist.listings, recHist'.crashes \in Nat, recHist.crashes <= recHist'.crashes
    PROVE  ListsInv'
<1>1. \A m \in Lister, d \in Days : listed.daily[m][d] \in Nat /\ recHist.listings[m][d] \in Nat
  BY DEF ListsInv, DayCounts, Histories
<1>2. recHist.crashes \in Nat
  BY DEF Histories
<1>3. \A m \in Lister, d \in Days : /\ listed.daily[m][d]' <= ListCap
                                    /\ recHist'.listings[m][d] <= listed'.daily[m][d] + recHist'.crashes
  BY <1>1, <1>2 DEF ListsInv
<1> QED BY <1>3 DEF ListsInv, DayCounts

\* A step that leaves the records alone keeps what is said of them.
LEMMA MarksFrame ==
    ASSUME MarksInv, marks' = marks, stamp' \in [Mark -> 0..MaxHeight], sigCalls' \subseteq SigCallsOk,
           \A c \in sigCalls' : c.stage = "set" => c.height # 0,
           recHist'.anchors = recHist.anchors, recHist'.crashes \in Nat, recHist.crashes \in Nat, recHist.crashes <= recHist'.crashes
    PROVE  MarksInv'
<1>1. Cardinality(Partial(marks)) \in Nat
  BY MarksFinite
<1>2. AnchorIsEarliest'
  BY DEF MarksInv, AnchorIsEarliest
<1>3. Cardinality(Partial(marks))' <= recHist'.crashes
  BY <1>1 DEF MarksInv, Partial
<1>4. \A w \in Range(MarkSigner) : Cardinality(InSigner(marks, w))' <= MarksPerSigner
  BY DEF MarksInv, InSigner
<1> QED BY <1>2, <1>3, <1>4 DEF MarksInv

\* A step that only adds a call, moves the operator's list, or a member.
LEMMA QuietStep ==
    ASSUME RecInv, rclock' = rclock, sites' = sites, lastPrune' = lastPrune, recHist' = recHist, listed' = listed, marks' = marks,
           stamp' = stamp, hidden' \subseteq Hideable, editing' \subseteq EditCalls, members' \subseteq Lister,
           listing' \subseteq ListCalls, sigCalls' \subseteq SigCallsOk, \A c \in sigCalls' : c.stage = "set" => c.height # 0
    PROVE  RecInv'
<1>1. SitesInv'
  BY RecFacts, SitesFrame
<1>2. ListsInv'
  BY RecFacts, ListsFrame
<1>3. MarksInv'
  <2>1. stamp' \in [Mark -> 0..MaxHeight] /\ recHist.crashes <= recHist'.crashes
    BY RecFacts DEF MarksInv
  <2> QED BY <2>1, RecFacts, MarksFrame
<1> QED BY <1>1, <1>2, <1>3 DEF RecInv

\* Requests under way have their types.
LEMMA CallsTyped ==
    ASSUME RecInv
    PROVE  /\ editing \subseteq EditCalls /\ listing \subseteq ListCalls /\ sigCalls \subseteq SigCallsOk /\ hidden \subseteq Hideable
           /\ members \subseteq Lister /\ \A c \in sigCalls : c.stage = "set" => c.height # 0
BY DEF RecInv, SitesInv, ListsInv, MarksInv

\* post_site_edit's checks keep the invariant.
LEMMA EditCheckStep ==
    ASSUME RecInv, NEW s \in Site, NEW q \in 0..SiteMaxEdits, NEW p \in [1..q -> Body], NEW b \in Body, EditCheck(s, q, p, b)
    PROVE  RecInv'
<1>1. p \in Seq(Body) /\ q \in Nat /\ rclock \in Nat
  BY RecConst, RecFacts
<1>2. [site |-> s, seq |-> q, prev |-> p, body |-> b, at |-> rclock] \in EditCalls
  BY <1>1 DEF EditCalls
<1>3. editing' \subseteq EditCalls
  BY <1>2, CallsTyped DEF EditCheck
<1> QED BY <1>3, CallsTyped, QuietStep DEF EditCheck, listVars, sigVars

\* append keeps the invariant.
LEMMA EditAppendStep == ASSUME RecInv, NEW e \in editing, EditAppend(e) PROVE RecInv'
<1>1. e \in EditCalls /\ rclock \in Nat /\ SiteInv(sites) /\ recHist.crashes \in Nat
  BY CallsTyped, RecFacts DEF SitesInv
<1>2. SiteInv(sites') /\ \A k \in Nat : TotalWithin(sites, k) => TotalWithin(sites', k)
  BY <1>1, AppendSites
<1>3. /\ rclock' = rclock /\ listing' = listing /\ listed' = listed /\ members' = members /\ marks' = marks
      /\ sigCalls' = sigCalls /\ stamp' = stamp /\ hidden' = hidden /\ recHist' = recHist /\ editing' \subseteq editing
      /\ lastPrune' \in {lastPrune, rclock}
  BY DEF EditAppend, listVars, sigVars
<1>4. SitesInv'
  <2>1. SiteInv(sites)'
    BY <1>2, <1>3, SiteInvNow
  <2>2. TotalWithin(sites, recHist.crashes * SiteMaxBytes)
    BY RecFacts DEF SitesInv
  <2>3. TotalWithin(sites', recHist.crashes * SiteMaxBytes)
    BY <1>1, <1>2, <2>2, SlackGrows
  <2>4. TotalWithin(sites, recHist.crashes * SiteMaxBytes)'
    BY <1>3, <2>3 DEF TotalWithin, Bytes
  <2>5. lastPrune' \in 0..MaxRecTime
    BY <1>3, RecFacts DEF SitesInv
  <2> QED BY <1>3, <2>1, <2>4, <2>5, CallsTyped DEF SitesInv
<1>5. ListsInv'
  BY <1>3, RecFacts, CallsTyped, ListsFrame
<1>6. MarksInv'
  <2>1. stamp' \in [Mark -> 0..MaxHeight] /\ recHist.crashes <= recHist'.crashes
    BY <1>3, RecFacts DEF MarksInv
  <2> QED BY <2>1, <1>3, RecFacts, CallsTyped, MarksFrame
<1> QED BY <1>3, <1>4, <1>5, <1>6 DEF RecInv

\* A crash is counted and changes no other history.
LEMMA CrashHistory ==
    ASSUME RecInv, recHist' = [recHist EXCEPT !.crashes = @ + 1]
    PROVE  /\ recHist' \in Histories /\ recHist'.crashes = recHist.crashes + 1 /\ recHist'.crashes \in Nat
           /\ recHist.crashes <= recHist'.crashes
           /\ recHist'.listings = recHist.listings /\ recHist'.anchors = recHist.anchors
<1>1. recHist \in Histories /\ recHist.crashes \in Nat
  BY RecFacts
<1>2. /\ recHist'.crashes = recHist.crashes + 1 /\ recHist'.listings = recHist.listings /\ recHist'.anchors = recHist.anchors
      /\ recHist'.stamps = recHist.stamps
      /\ recHist' = [listings |-> recHist'.listings, anchors |-> recHist'.anchors, crashes |-> recHist'.crashes, stamps |-> recHist'.stamps]
  BY <1>1 DEF Histories
<1> QED BY <1>1, <1>2 DEF Histories

\* A crash inside append keeps the invariant.
LEMMA EditCrashStep == ASSUME RecInv, NEW e \in editing, EditCrash(e) PROVE RecInv'
<1>1. e \in EditCalls /\ rclock \in Nat /\ SiteInv(sites) /\ recHist.crashes \in Nat
  BY CallsTyped, RecFacts DEF SitesInv
<1>2. SiteInv(sites') /\ \A k \in Nat : TotalWithin(sites, k) => TotalWithin(sites', k + SiteMaxBytes)
  BY <1>1, CrashSites
<1>3. /\ rclock' = rclock /\ listing' = {} /\ listed' = listed /\ members' = members /\ marks' = marks
      /\ sigCalls' = {} /\ stamp' = stamp /\ hidden' = hidden /\ editing' = {} /\ lastPrune' = 0
      /\ recHist' = [recHist EXCEPT !.crashes = @ + 1]
  BY DEF EditCrash
<1>h. /\ recHist' \in Histories /\ recHist'.crashes = recHist.crashes + 1 /\ recHist'.crashes \in Nat
      /\ recHist.crashes <= recHist'.crashes
      /\ recHist'.listings = recHist.listings /\ recHist'.anchors = recHist.anchors
  BY <1>3, CrashHistory
<1>4. SitesInv'
  <2>1. SiteInv(sites)'
    BY <1>2, <1>3, SiteInvNow
  <2>2. TotalWithin(sites, recHist.crashes * SiteMaxBytes)
    BY RecFacts DEF SitesInv
  <2>3. TotalWithin(sites', recHist.crashes * SiteMaxBytes + SiteMaxBytes)
    BY <1>1, <1>2, <2>2, SlackGrows
  <2>4. TotalWithin(sites', recHist'.crashes * SiteMaxBytes)
    <3>1. recHist'.crashes * SiteMaxBytes = recHist.crashes * SiteMaxBytes + SiteMaxBytes
      BY <1>1, <1>h, SlackGrows
    <3> QED BY <2>3, <3>1
  <2>5. TotalWithin(sites, recHist.crashes * SiteMaxBytes)'
    BY <2>4 DEF TotalWithin, Bytes
  <2>6. lastPrune' \in 0..MaxRecTime /\ editing' \subseteq EditCalls
    BY <1>3, RecConst
  <2> QED BY <2>1, <2>5, <2>6 DEF SitesInv
<1>5. ListsInv'
  <2>1. members' \subseteq Lister /\ listing' \subseteq ListCalls
    BY <1>3, CallsTyped
  <2> QED BY <1>3, <1>h, <2>1, RecFacts, ListsFrame
<1>6. MarksInv'
  <2>1. stamp' \in [Mark -> 0..MaxHeight] /\ sigCalls' \subseteq SigCallsOk /\ \A c \in sigCalls' : c.stage = "set" => c.height # 0
    BY <1>3, RecFacts DEF MarksInv
  <2> QED BY <2>1, <1>1, <1>3, <1>h, RecFacts, MarksFrame
<1> QED BY <1>3, <1>h, <1>4, <1>5, <1>6 DEF RecInv

\* post_search_list's checks keep the invariant.
LEMMA ListCheckStep == ASSUME RecInv, NEW s \in Site, NEW m \in Lister, ListCheck(s, m) PROVE RecInv'
<1>1. rclock \in 0..MaxRecTime
  BY RecFacts
<1>2. [site |-> s, member |-> m, at |-> rclock] \in ListCalls
  BY <1>1 DEF ListCalls
<1>3. listing' \subseteq ListCalls
  BY <1>2, CallsTyped DEF ListCheck
<1> QED BY <1>3, CallsTyped, QuietStep DEF ListCheck, siteVars, sigVars

\* A member that leaves keeps the invariant.
LEMMA LeaveStep == ASSUME RecInv, NEW m, LeaveShelter(m) PROVE RecInv'
<1>1. members' \subseteq Lister
  BY CallsTyped DEF LeaveShelter
<1> QED BY <1>1, CallsTyped, QuietStep DEF LeaveShelter, siteVars, sigVars

\* Changing one day's count of one member changes that alone.
LEMMA BumpCount ==
    ASSUME NEW f \in DayCounts, NEW m \in Lister, NEW d \in Days, NEW n \in Nat
    PROVE  /\ [f EXCEPT ![m][d] = n] \in DayCounts
           /\ \A x \in Lister, y \in Days : [f EXCEPT ![m][d] = n][x][y] = IF x = m /\ y = d THEN n ELSE f[x][y]
<1>1. PICK row : row = [f[m] EXCEPT ![d] = n]
  OBVIOUS
<1>2. f[m] \in [Days -> Nat]
  BY DEF DayCounts
<1>3. row \in [Days -> Nat] /\ \A y \in Days : row[y] = IF y = d THEN n ELSE f[m][y]
  BY <1>1, <1>2
<1>4. PICK g : g = [f EXCEPT ![m] = row]
  OBVIOUS
<1>5. g = [f EXCEPT ![m][d] = n]
  BY <1>1, <1>4
<1>6. g \in DayCounts /\ \A x \in Lister : g[x] = IF x = m THEN row ELSE f[x]
  BY <1>3, <1>4 DEF DayCounts
<1> QED BY <1>3, <1>5, <1>6

\* A listing written, refused or torn by a crash keeps what is said of listings.
LEMMA ListWriteLists ==
    ASSUME RecInv, NEW l \in listing, NEW dies \in BOOLEAN, ListWrite(l, dies)
    PROVE  /\ ListsInv' /\ recHist' \in Histories /\ recHist'.anchors = recHist.anchors
           /\ recHist'.crashes = IF dies THEN recHist.crashes + 1 ELSE recHist.crashes
<1> DEFINE d0 == DayOf(l.at)
           m0 == l.member
<1>1. l \in ListCalls
  BY CallsTyped
<1>2. m0 \in Lister /\ l.at \in 0..MaxRecTime /\ l.site \in Site
  BY <1>1 DEF ListCalls
<1>3. d0 \in Days
  BY <1>2, DayIn
<1> HIDE DEF d0, m0
<1>4. /\ recHist \in Histories /\ recHist.crashes \in Nat /\ recHist.listings \in DayCounts /\ listed.daily \in DayCounts
      /\ DOMAIN listed = {"book", "daily"}
  BY RecFacts DEF ListsInv
<1>5. PICK n : n = IF UnderCap(l) THEN recHist.listings[m0][d0] + 1 ELSE recHist.listings[m0][d0]
  OBVIOUS
<1>6. \A x \in Lister, y \in Days : recHist.listings[x][y] \in Nat /\ listed.daily[x][y] \in Nat
  BY <1>4 DEF DayCounts
<1>7. n \in Nat
  BY <1>2, <1>3, <1>5, <1>6
<1>8. PICK g : g = [recHist.listings EXCEPT ![m0][d0] = n]
  OBVIOUS
<1>9. g \in DayCounts /\ \A x \in Lister, y \in Days : g[x][y] = IF x = m0 /\ y = d0 THEN n ELSE recHist.listings[x][y]
  BY <1>2, <1>3, <1>4, <1>7, <1>8, BumpCount
<1>10. /\ recHist'.listings = g /\ recHist'.anchors = recHist.anchors /\ recHist'.stamps = recHist.stamps
       /\ recHist'.crashes = (IF dies THEN recHist.crashes + 1 ELSE recHist.crashes)
       /\ recHist' = [listings |-> recHist'.listings, anchors |-> recHist'.anchors, crashes |-> recHist'.crashes, stamps |-> recHist'.stamps]
  BY <1>4, <1>5, <1>8 DEF ListWrite, Histories, d0, m0
<1>11. recHist' \in Histories
  <2>1. recHist'.crashes \in Nat
    BY <1>4, <1>10
  <2> QED BY <1>4, <1>9, <1>10, <2>1 DEF Histories
<1>12. PICK c : c = IF UnderCap(l) /\ ~dies THEN listed.daily[m0][d0] + 1 ELSE listed.daily[m0][d0]
  OBVIOUS
<1>13. c \in Nat
  BY <1>2, <1>3, <1>6, <1>12
<1>14. UnderCap(l) <=> listed.daily[m0][d0] < ListCap
  BY DEF UnderCap, UsedToday, m0, d0
<1>15. /\ listed'.daily \in DayCounts /\ DOMAIN listed' = {"book", "daily"}
       /\ \A x \in Lister, y \in Days : listed'.daily[x][y] = IF x = m0 /\ y = d0 THEN c ELSE listed.daily[x][y]
  <2>1. PICK put : put = PutListing(l)
    OBVIOUS
  <2>2. put.daily = listed.daily /\ DOMAIN put = {"book", "daily"}
    BY <1>4, <2>1 DEF PutListing
  <2>3. CASE ~UnderCap(l)
    BY <2>3, <1>4, <1>12 DEF ListWrite
  <2>4. CASE UnderCap(l) /\ dies
    BY <2>1, <2>2, <2>4, <1>4, <1>12 DEF ListWrite
  <2>5. CASE UnderCap(l) /\ ~dies
    <3>1. listed' = CountListing(put, l)
      BY <2>1, <2>5 DEF ListWrite
    <3>2. listed'.daily = [listed.daily EXCEPT ![m0][d0] = c] /\ DOMAIN listed' = {"book", "daily"}
      BY <3>1, <2>2, <2>5, <1>12 DEF CountListing, m0, d0
    <3> QED BY <3>2, <1>2, <1>3, <1>4, <1>13, BumpCount
  <2> QED BY <2>3, <2>4, <2>5
<1>16. \A x \in Lister, y \in Days : /\ listed'.daily[x][y] <= ListCap
                                     /\ recHist'.listings[x][y] <= listed'.daily[x][y] + recHist'.crashes
  <2> SUFFICES ASSUME NEW x \in Lister, NEW y \in Days
               PROVE  /\ listed'.daily[x][y] <= ListCap
                      /\ recHist'.listings[x][y] <= listed'.daily[x][y] + recHist'.crashes
    OBVIOUS
  <2>1. listed.daily[x][y] <= ListCap /\ recHist.listings[x][y] <= listed.daily[x][y] + recHist.crashes
    BY RecFacts DEF ListsInv
  <2>2. listed.daily[x][y] \in Nat /\ recHist.listings[x][y] \in Nat /\ ListCap \in Nat
    BY <1>6, RecConst2
  <2>3. CASE x = m0 /\ y = d0
    <3>1. listed'.daily[x][y] = c /\ recHist'.listings[x][y] = n
      BY <2>3, <1>9, <1>10, <1>15
    <3>2. c = (IF UnderCap(l) /\ ~dies THEN listed.daily[x][y] + 1 ELSE listed.daily[x][y])
      BY <2>3, <1>12
    <3>3. n = (IF UnderCap(l) THEN recHist.listings[x][y] + 1 ELSE recHist.listings[x][y])
      BY <2>3, <1>5
    <3>4. UnderCap(l) <=> listed.daily[x][y] < ListCap
      BY <2>3, <1>14
    <3>5. recHist'.crashes = (IF dies THEN recHist.crashes + 1 ELSE recHist.crashes) /\ (dies => UnderCap(l))
      BY <1>10 DEF ListWrite
    <3> QED BY <3>1, <3>2, <3>3, <3>4, <3>5, <2>1, <2>2, <1>4
  <2>4. CASE ~(x = m0 /\ y = d0)
    <3>1. listed'.daily[x][y] = listed.daily[x][y] /\ recHist'.listings[x][y] = recHist.listings[x][y]
      BY <2>4, <1>9, <1>10, <1>15
    <3> QED BY <3>1, <2>1, <2>2, <1>4, <1>10
  <2> QED BY <2>3, <2>4
<1>17. members' \subseteq Lister /\ listing' \subseteq ListCalls
  BY CallsTyped DEF ListWrite
<1> QED BY <1>10, <1>11, <1>15, <1>16, <1>17 DEF ListsInv

\* SearchStore::list keeps the invariant.
LEMMA ListWriteStep ==
    ASSUME RecInv, NEW l \in listing, NEW dies \in BOOLEAN, ListWrite(l, dies)
    PROVE  RecInv'
<1>1. /\ ListsInv' /\ recHist' \in Histories /\ recHist'.anchors = recHist.anchors
      /\ recHist'.crashes = IF dies THEN recHist.crashes + 1 ELSE recHist.crashes
  BY ListWriteLists
<1>2. /\ rclock' = rclock /\ sites' = sites /\ marks' = marks /\ stamp' = stamp /\ hidden' = hidden
  BY DEF ListWrite
<1>3. recHist.crashes \in Nat /\ recHist'.crashes \in Nat /\ recHist.crashes <= recHist'.crashes
  BY <1>1, RecFacts
<1>4. sigCalls' \subseteq sigCalls /\ editing' \subseteq editing
  BY DEF ListWrite
<1>5. SitesInv'
  <2>1. CASE dies
    BY <2>1, <1>1, <1>2, SitesCrash DEF ListWrite
  <2>2. CASE ~dies
    BY <2>2, <1>1, <1>2, <1>4, CallsTyped, RecFacts, SitesFrame DEF ListWrite
  <2> QED BY <2>1, <2>2
<1>6. MarksInv'
  <2>1. stamp' \in [Mark -> 0..MaxHeight] /\ sigCalls' \subseteq SigCallsOk /\ \A c \in sigCalls' : c.stage = "set" => c.height # 0
    BY <1>2, <1>4, CallsTyped, RecFacts DEF MarksInv
  <2> QED BY <2>1, <1>1, <1>2, <1>3, RecFacts, MarksFrame
<1> QED BY <1>1, <1>2, <1>5, <1>6 DEF RecInv

\* post_sigs_publish's checks keep the invariant.
LEMMA SigCheckStep == ASSUME RecInv, NEW r \in Mark, NEW anchor \in BOOLEAN, SigCheck(r, anchor) PROVE RecInv'
<1>0. PICK c : c = [mark |-> r, anchor |-> anchor, stage |-> "publish", height |-> 0]
  OBVIOUS
<1>1. c \in SigCallsOk /\ c.stage # "set"
  BY <1>0, RecConst2 DEF SigCallsOk
<1>2. sigCalls' = sigCalls \cup {c}
  BY <1>0 DEF SigCheck
<1>3. sigCalls' \subseteq SigCallsOk /\ \A x \in sigCalls' : x.stage = "set" => x.height # 0
  BY <1>1, <1>2, CallsTyped
<1> QED BY <1>3, CallsTyped, QuietStep DEF SigCheck, siteVars, listVars

\* A publication that moves on keeps its type.
LEMMA AdvanceTyped ==
    ASSUME RecInv, NEW c \in sigCalls, NEW stage \in {"publish", "read", "set"}, NEW h \in 0..MaxHeight,
           stage = "set" => h # 0
    PROVE  /\ Advance(c, stage, h) \subseteq SigCallsOk
           /\ \A x \in Advance(c, stage, h) : x.stage = "set" => x.height # 0
<1>1. c \in SigCallsOk
  BY CallsTyped
<1>2. PICK e : e = [c EXCEPT !.stage = stage, !.height = h]
  OBVIOUS
<1>3. e \in SigCallsOk /\ e.stage = stage /\ e.height = h
  BY <1>1, <1>2 DEF SigCallsOk
<1>4. Advance(c, stage, h) = (sigCalls \ {c}) \cup {e}
  BY <1>2 DEF Advance
<1> QED BY <1>3, <1>4, CallsTyped

\* Reading the anchor keeps the invariant.
LEMMA AnchorReadStep == ASSUME RecInv, NEW c \in sigCalls, AnchorRead(c) PROVE RecInv'
<1>1. c.mark \in Mark
  BY CallsTyped DEF SigCallsOk
<1>2. stamp[c.mark] \in 0..MaxHeight
  BY <1>1, RecFacts DEF MarksInv
<1>3. sigCalls' \subseteq SigCallsOk /\ \A x \in sigCalls' : x.stage = "set" => x.height # 0
  <2>1. CASE stamp[c.mark] = 0
    BY <2>1, CallsTyped DEF AnchorRead
  <2>2. CASE stamp[c.mark] # 0
    <3>1. sigCalls' = Advance(c, "set", stamp[c.mark])
      BY <2>2 DEF AnchorRead
    <3> QED BY <3>1, <2>2, <1>2, AdvanceTyped
  <2> QED BY <2>1, <2>2
<1> QED BY <1>3, CallsTyped, QuietStep DEF AnchorRead, siteVars, listVars

\* k of the writes of a record that is not there yet.
LEMMA WriteMark ==
    ASSUME RecInv, NEW r \in Mark, NEW k \in 1..6, ~KnownMark(r), Fits(r),
           NEW t, t = [marks EXCEPT !.written[r] = k, !.at[r] = rclock]
    PROVE  /\ t \in MarkTrees /\ t.anchor = marks.anchor
           /\ \A w \in Range(MarkSigner) : Cardinality(InSigner(t, w)) <= MarksPerSigner
           /\ Cardinality(Partial(t)) <= Cardinality(Partial(marks)) + (IF k <= 3 THEN 1 ELSE 0)
<1>1. marks \in MarkTrees /\ rclock \in 0..MaxRecTime
  BY RecFacts DEF MarksInv
<1>2. /\ t.written = [marks.written EXCEPT ![r] = k] /\ t.at = [marks.at EXCEPT ![r] = rclock] /\ t.anchor = marks.anchor
      /\ t = [written |-> t.written, at |-> t.at, anchor |-> t.anchor]
  BY <1>1 DEF MarkTrees
<1>3. t \in MarkTrees
  BY <1>1, <1>2 DEF MarkTrees
<1>4. \A q \in Mark : t.written[q] = (IF q = r THEN k ELSE marks.written[q]) /\ marks.written[q] \in 0..6
  BY <1>1, <1>2 DEF MarkTrees
<1>5. marks.written[r] = 0
  BY <1>4 DEF KnownMark
<1>6. ASSUME NEW w \in Range(MarkSigner) PROVE Cardinality(InSigner(t, w)) <= MarksPerSigner
  <2>0. Cardinality(InSigner(marks, w)) <= MarksPerSigner /\ MarksPerSigner \in Nat
    BY RecFacts, RecConst2 DEF MarksInv
  <2>1. CASE k >= 4 /\ MarkSigner[r] = w
    <3>1. InSigner(t, w) = InSigner(marks, w) \cup {r} /\ r \notin InSigner(marks, w)
      BY <1>4, <1>5, <2>1 DEF InSigner
    <3>2. PICK A : A = InSigner(marks, w)
      OBVIOUS
    <3>3. IsFiniteSet(A) /\ Cardinality(A) \in Nat
      BY <3>2, MarksFinite
    <3>4. SignerCount(w) = Cardinality(A)
      BY <3>2 DEF SignerCount, InSignerIndex, InSigner
    <3>5. Cardinality(A) < MarksPerSigner
      BY <3>4, <2>1 DEF Fits
    <3>6. Cardinality(A \cup {r}) = Cardinality(A) + 1
      BY <3>1, <3>2, <3>3, FS_AddElement
    <3> QED BY <3>1, <3>2, <3>3, <3>5, <3>6, <2>0
  <2>2. CASE ~(k >= 4 /\ MarkSigner[r] = w)
    <3>1. InSigner(t, w) = InSigner(marks, w)
      BY <1>4, <1>5, <2>2 DEF InSigner
    <3> QED BY <3>1, <2>0
  <2> QED BY <2>1, <2>2
<1>7. Cardinality(Partial(t)) <= Cardinality(Partial(marks)) + (IF k <= 3 THEN 1 ELSE 0)
  <2>0. IsFiniteSet(Partial(marks)) /\ Cardinality(Partial(marks)) \in Nat
    BY MarksFinite
  <2>1. CASE k <= 3
    <3>1. Partial(t) = Partial(marks) \cup {r} /\ r \notin Partial(marks)
      BY <1>4, <1>5, <2>1 DEF Partial
    <3>2. Cardinality(Partial(marks) \cup {r}) = Cardinality(Partial(marks)) + 1
      BY <2>0, <3>1, FS_AddElement
    <3>3. PICK a : a = Cardinality(Partial(marks))
      OBVIOUS
    <3>4. Cardinality(Partial(t)) = a + 1 /\ a \in Nat
      BY <2>0, <3>1, <3>2, <3>3
    <3>5. (IF k <= 3 THEN 1 ELSE 0) = 1
      BY <2>1
    <3>6. a + 1 <= a + 1
      BY <3>4
    <3> QED BY <3>3, <3>4, <3>5, <3>6
  <2>2. CASE ~(k <= 3)
    <3>1. Partial(t) = Partial(marks)
      BY <1>4, <1>5, <2>2 DEF Partial
    <3> QED BY <2>0, <2>2, <3>1
  <2> QED BY <2>1, <2>2
<1> QED BY <1>2, <1>3, <1>6, <1>7

\* Writing a record, whole or in part, keeps what is said of records.
LEMMA MarksChange ==
    ASSUME RecInv, NEW r \in Mark, NEW k \in 1..6, ~KnownMark(r), Fits(r),
           marks' = [marks EXCEPT !.written[r] = k, !.at[r] = rclock],
           stamp' = stamp, sigCalls' \subseteq SigCallsOk, \A c \in sigCalls' : c.stage = "set" => c.height # 0,
           recHist'.anchors = recHist.anchors, recHist'.crashes \in Nat,
           recHist.crashes + (IF k <= 3 THEN 1 ELSE 0) <= recHist'.crashes
    PROVE  MarksInv'
<1>1. PICK t : t = marks'
  OBVIOUS
<1>2. /\ t \in MarkTrees /\ t.anchor = marks.anchor
      /\ \A w \in Range(MarkSigner) : Cardinality(InSigner(t, w)) <= MarksPerSigner
      /\ Cardinality(Partial(t)) <= Cardinality(Partial(marks)) + (IF k <= 3 THEN 1 ELSE 0)
  BY <1>1, WriteMark
<1>3. AnchorIsEarliest'
  BY <1>1, <1>2, RecFacts DEF MarksInv, AnchorIsEarliest
<1>4. Cardinality(Partial(t)) <= recHist'.crashes
  <2>1. Cardinality(Partial(marks)) \in Nat /\ Cardinality(Partial(t)) \in Nat /\ recHist.crashes \in Nat
    BY MarksFinite, RecFacts
  <2>2. Cardinality(Partial(marks)) <= recHist.crashes
    BY RecFacts DEF MarksInv
  <2> QED BY <1>2, <2>1, <2>2
<1>5. (Cardinality(Partial(marks)) <= recHist.crashes)'
  BY <1>1, <1>4 DEF Partial
<1>6. (\A w \in Range(MarkSigner) : Cardinality(InSigner(marks, w)) <= MarksPerSigner)'
  BY <1>1, <1>2 DEF InSigner
<1>7. marks' \in MarkTrees /\ stamp' \in [Mark -> 0..MaxHeight]
  BY <1>1, <1>2, RecFacts DEF MarksInv
<1> QED BY <1>3, <1>5, <1>6, <1>7 DEF MarksInv

\* publish keeps the invariant.
LEMMA SigPublishStep == ASSUME RecInv, NEW c \in sigCalls, SigPublish(c) PROVE RecInv'
<1>1. c.mark \in Mark
  BY CallsTyped DEF SigCallsOk
<1>2. /\ rclock' = rclock /\ sites' = sites /\ lastPrune' = lastPrune /\ editing' = editing /\ listing' = listing
      /\ listed' = listed /\ members' = members /\ stamp' = stamp /\ hidden' = hidden /\ recHist' = recHist
  BY DEF SigPublish, siteVars, listVars
<1>3. sigCalls' \subseteq SigCallsOk /\ \A x \in sigCalls' : x.stage = "set" => x.height # 0
  <2>1. CASE sigCalls' = Advance(c, "read", 0)
    <3>1. 0 \in 0..MaxHeight
      BY RecConst2
    <3> QED BY <2>1, <3>1, AdvanceTyped
  <2>2. CASE sigCalls' = sigCalls \ {c}
    BY <2>2, CallsTyped
  <2> QED BY <2>1, <2>2 DEF SigPublish
<1>4. CASE marks' = marks
  BY <1>2, <1>3, <1>4, CallsTyped, QuietStep
<1>5. CASE marks' # marks
  <2>1. ~KnownMark(c.mark) /\ Fits(c.mark) /\ marks' = [marks EXCEPT !.written[c.mark] = 6, !.at[c.mark] = rclock]
    BY <1>5 DEF SigPublish
  <2>2. recHist'.crashes \in Nat /\ recHist.crashes + (IF 6 <= 3 THEN 1 ELSE 0) <= recHist'.crashes
        /\ recHist.crashes <= recHist'.crashes /\ 6 \in 1..6
    BY <1>2, RecFacts
  <2>3. MarksInv'
    BY <1>1, <1>2, <1>3, <2>1, <2>2, MarksChange
  <2>4. SitesInv'
    BY <1>2, CallsTyped, RecFacts, SitesFrame
  <2>5. ListsInv'
    BY <1>2, <2>2, CallsTyped, RecFacts, ListsFrame
  <2> QED BY <1>2, <2>3, <2>4, <2>5 DEF RecInv
<1> QED BY <1>4, <1>5

\* A crash among its writes keeps the invariant.
LEMMA SigCrashStep == ASSUME RecInv, NEW c \in sigCalls, NEW k \in 1..5, SigCrash(c, k) PROVE RecInv'
<1>1. c.mark \in Mark
  BY CallsTyped DEF SigCallsOk
<1>2. /\ rclock' = rclock /\ sites' = sites /\ lastPrune' = 0 /\ editing' = {} /\ listing' = {} /\ sigCalls' = {}
      /\ listed' = listed /\ members' = members /\ stamp' = stamp /\ hidden' = hidden
      /\ recHist' = [recHist EXCEPT !.crashes = @ + 1]
      /\ ~KnownMark(c.mark) /\ Fits(c.mark) /\ marks' = [marks EXCEPT !.written[c.mark] = k, !.at[c.mark] = rclock]
  BY DEF SigCrash
<1>3. /\ recHist' \in Histories /\ recHist'.crashes = recHist.crashes + 1 /\ recHist'.crashes \in Nat
      /\ recHist.crashes <= recHist'.crashes
      /\ recHist'.listings = recHist.listings /\ recHist'.anchors = recHist.anchors
  BY <1>2, CrashHistory
<1>4. MarksInv'
  <2>1. recHist.crashes + (IF k <= 3 THEN 1 ELSE 0) <= recHist'.crashes /\ k \in 1..6
    BY <1>3, RecFacts
  <2>2. sigCalls' \subseteq SigCallsOk /\ \A x \in sigCalls' : x.stage = "set" => x.height # 0
    BY <1>2
  <2> QED BY <1>1, <1>2, <1>3, <2>1, <2>2, MarksChange
<1>5. SitesInv'
  BY <1>2, <1>3, SitesCrash
<1>6. ListsInv'
  <2>1. members' \subseteq Lister /\ listing' \subseteq ListCalls
    BY <1>2, CallsTyped
  <2> QED BY <1>2, <1>3, <2>1, RecFacts, ListsFrame
<1> QED BY <1>2, <1>3, <1>4, <1>5, <1>6 DEF RecInv

\* The anchor kept is the least of the old ones and the new one.
LEMMA EarliestIsMin ==
    ASSUME NEW A \in SUBSET (1..MaxHeight), NEW h \in 1..MaxHeight, NEW old, old = IF A = {} THEN 0 ELSE Min(A)
    PROVE  EarliestAnchor(old, h) = Min(A \cup {h}) /\ EarliestAnchor(old, h) \in 0..MaxHeight
<1>1. PICK B : B = A \cup {h}
  OBVIOUS
<1>2. B \subseteq Nat /\ B # {} /\ A \subseteq Nat /\ h \in B /\ B \subseteq 1..MaxHeight
  BY <1>1, RecConst2
<1>3. Min(B) \in B /\ \A m \in B : Min(B) <= m
  BY <1>2, MinIsLeast
<1>4. CASE A = {}
  <2>1. Min(B) = h
    BY <1>1, <1>3, <1>4
  <2> QED BY <2>1, <1>1, <1>4, RecConst2 DEF EarliestAnchor
<1>5. CASE A # {}
  <2>1. old \in A /\ \A m \in A : old <= m
    BY <1>2, <1>5, MinIsLeast
  <2>2. old \in Nat /\ old # 0 /\ old \in B /\ h \in Nat /\ Min(B) \in Nat
    <3>1. old \in 1..MaxHeight
      BY <2>1
    <3>2. old \in Nat /\ old # 0
      BY <3>1, RecConst2
    <3>3. old \in B
      BY <2>1, <1>1
    <3>4. h \in Nat /\ Min(B) \in Nat
      BY <1>2, <1>3
    <3> QED BY <3>2, <3>3, <3>4
  <2>3. CASE old <= h
    <3>1. \A m \in B : old <= m
      BY <2>1, <2>3, <1>1
    <3>2. Min(B) = old
      BY <3>1, <1>3, <2>2
    <3> QED BY <3>2, <2>1, <2>2, <2>3, <1>1, RecConst2 DEF EarliestAnchor
  <2>4. CASE ~(old <= h)
    <3>1. \A m \in B : h <= m
      BY <2>1, <2>2, <2>4, <1>1, <1>2
    <3>2. Min(B) = h
      BY <3>1, <1>2, <1>3, <2>2
    <3> QED BY <3>2, <2>4, <1>1, RecConst2 DEF EarliestAnchor
  <2> QED BY <2>3, <2>4
<1> QED BY <1>4, <1>5

\* set_anchor keeps the invariant.
LEMMA SetAnchorStep == ASSUME RecInv, NEW c \in sigCalls, SetAnchor(c) PROVE RecInv'
<1>1. c \in SigCallsOk /\ c.height # 0
  BY CallsTyped DEF SetAnchor
<1>2. c.mark \in Mark /\ c.height \in 1..MaxHeight
  BY <1>1, RecConst2 DEF SigCallsOk
<1>3. /\ rclock' = rclock /\ sites' = sites /\ lastPrune' = lastPrune /\ editing' = editing /\ listing' = listing
      /\ listed' = listed /\ members' = members /\ stamp' = stamp /\ hidden' = hidden /\ sigCalls' = sigCalls \ {c}
  BY DEF SetAnchor, siteVars, listVars
<1>4. recHist \in Histories /\ marks \in MarkTrees
  BY RecFacts DEF MarksInv
<1>5. PICK A : A = recHist.anchors[c.mark]
  OBVIOUS
<1>6. A \in SUBSET (1..MaxHeight) /\ marks.anchor[c.mark] = IF A = {} THEN 0 ELSE Min(A)
  BY <1>2, <1>4, <1>5, RecFacts DEF Histories, MarksInv, AnchorIsEarliest
<1>7. PICK x : x = EarliestAnchor(marks.anchor[c.mark], c.height)
  OBVIOUS
<1>8. x = Min(A \cup {c.height}) /\ x \in 0..MaxHeight
  BY <1>2, <1>6, <1>7, EarliestIsMin
<1>9. /\ recHist'.anchors = [recHist.anchors EXCEPT ![c.mark] = A \cup {c.height}]
      /\ recHist'.listings = recHist.listings /\ recHist'.crashes = recHist.crashes /\ recHist'.stamps = recHist.stamps
      /\ recHist' = [listings |-> recHist'.listings, anchors |-> recHist'.anchors, crashes |-> recHist'.crashes, stamps |-> recHist'.stamps]
  BY <1>4, <1>5 DEF SetAnchor, Histories
<1>10. recHist' \in Histories
  <2>1. A \cup {c.height} \in SUBSET (1..MaxHeight)
    BY <1>2, <1>6
  <2> QED BY <2>1, <1>4, <1>9 DEF Histories
<1>11. /\ marks'.anchor = [marks.anchor EXCEPT ![c.mark] = x] /\ marks'.written = marks.written /\ marks'.at = marks.at
       /\ marks' = [written |-> marks'.written, at |-> marks'.at, anchor |-> marks'.anchor]
  BY <1>4, <1>7 DEF SetAnchor, MarkTrees
<1>12. marks' \in MarkTrees
  BY <1>4, <1>8, <1>11 DEF MarkTrees
<1>13. AnchorIsEarliest'
  <2> SUFFICES ASSUME NEW r \in Mark
               PROVE  marks'.anchor[r] = IF recHist'.anchors[r] = {} THEN 0 ELSE Min(recHist'.anchors[r])
    BY DEF AnchorIsEarliest
  <2>1. CASE r = c.mark
    <3>1. marks'.anchor[r] = x /\ recHist'.anchors[r] = A \cup {c.height}
      BY <1>2, <1>4, <1>9, <1>11, <2>1 DEF MarkTrees, Histories
    <3> QED BY <3>1, <1>8
  <2>2. CASE r # c.mark
    <3>1. marks'.anchor[r] = marks.anchor[r] /\ recHist'.anchors[r] = recHist.anchors[r]
      BY <1>4, <1>9, <1>11, <2>2 DEF MarkTrees, Histories
    <3> QED BY <3>1, RecFacts DEF MarksInv, AnchorIsEarliest
  <2> QED BY <2>1, <2>2
<1>14. MarksInv'
  <2>1. Partial(marks)' = Partial(marks) /\ \A w : InSigner(marks, w)' = InSigner(marks, w)
    BY <1>11 DEF Partial, InSigner
  <2>2. (Cardinality(Partial(marks)) <= recHist.crashes)'
    BY <2>1, <1>9, RecFacts DEF MarksInv
  <2>3. (\A w \in Range(MarkSigner) : Cardinality(InSigner(marks, w)) <= MarksPerSigner)'
    BY <2>1, RecFacts DEF MarksInv
  <2>4. stamp' \in [Mark -> 0..MaxHeight] /\ sigCalls' \subseteq SigCallsOk /\ \A y \in sigCalls' : y.stage = "set" => y.height # 0
    BY <1>3, CallsTyped, RecFacts DEF MarksInv
  <2> QED BY <1>12, <1>13, <2>2, <2>3, <2>4 DEF MarksInv
<1>15. SitesInv'
  BY <1>3, <1>9, CallsTyped, RecFacts, SitesFrame
<1>16. ListsInv'
  <2>1. recHist'.crashes \in Nat /\ recHist.crashes <= recHist'.crashes
    BY <1>9, RecFacts
  <2> QED BY <2>1, <1>3, <1>9, CallsTyped, RecFacts, ListsFrame
<1> QED BY <1>3, <1>10, <1>14, <1>15, <1>16 DEF RecInv

\* A stamp mined or reorganised away keeps the invariant.
LEMMA StampStep == ASSUME RecInv, NEW r \in Mark, NEW h \in 0..MaxHeight, Stamp(r, h) PROVE RecInv'
<1>1. /\ rclock' = rclock /\ sites' = sites /\ lastPrune' = lastPrune /\ editing' = editing /\ listing' = listing
      /\ listed' = listed /\ members' = members /\ marks' = marks /\ sigCalls' = sigCalls /\ hidden' = hidden
      /\ stamp' = [stamp EXCEPT ![r] = h] /\ recHist' = [recHist EXCEPT !.stamps = @ + 1]
  BY DEF Stamp, siteVars, listVars
<1>2. recHist \in Histories /\ recHist.stamps \in Nat /\ recHist.crashes \in Nat
  BY RecFacts
<1>3. /\ recHist'.stamps = recHist.stamps + 1 /\ recHist'.listings = recHist.listings
      /\ recHist'.anchors = recHist.anchors /\ recHist'.crashes = recHist.crashes
      /\ recHist' = [listings |-> recHist'.listings, anchors |-> recHist'.anchors, crashes |-> recHist'.crashes, stamps |-> recHist'.stamps]
  BY <1>1, <1>2 DEF Histories
<1>4. recHist' \in Histories
  <2>1. recHist'.stamps \in Nat
    BY <1>2, <1>3
  <2> QED BY <2>1, <1>2, <1>3 DEF Histories
<1>5. stamp' \in [Mark -> 0..MaxHeight]
  BY <1>1, RecFacts DEF MarksInv
<1>6. recHist'.crashes \in Nat /\ recHist.crashes <= recHist'.crashes
  BY <1>2, <1>3
<1>7. MarksInv'
  <2>1. MarksInv /\ sigCalls' \subseteq SigCallsOk /\ \A c \in sigCalls' : c.stage = "set" => c.height # 0
    BY <1>1, CallsTyped, RecFacts
  <2> QED BY <2>1, <1>1, <1>2, <1>3, <1>5, <1>6, MarksFrame
<1>8. SitesInv'
  BY <1>1, <1>3, CallsTyped, RecFacts, SitesFrame
<1>9. ListsInv'
  BY <1>1, <1>2, <1>3, <1>6, CallsTyped, RecFacts, ListsFrame
<1> QED BY <1>1, <1>4, <1>7, <1>8, <1>9 DEF RecInv

\* The operator's hiding keeps the invariant.
LEMMA HideStep == ASSUME RecInv, NEW w \in Hideable, Hide(w) \/ Unhide(w) PROVE RecInv'
<1>1. hidden' \subseteq Hideable
  BY CallsTyped DEF Hide, Unhide
<1> QED BY <1>1, CallsTyped, QuietStep DEF Hide, Unhide, siteVars, listVars, sigVars

\* Time keeps the invariant: it can only end a site's life.
LEMMA RecTickStep == ASSUME RecInv, RecTick PROVE RecInv'
<1>1. /\ rclock' = rclock + 1 /\ sites' = sites /\ lastPrune' = lastPrune /\ editing' = editing /\ listing' = listing
      /\ listed' = listed /\ members' = members /\ marks' = marks /\ sigCalls' = sigCalls /\ stamp' = stamp
      /\ hidden' = hidden /\ recHist' = recHist
  BY DEF RecTick, siteVars, listVars, sigVars
<1>2. rclock \in Nat /\ rclock' \in 1..MaxRecTime
  BY <1>1, RecFacts, RecConst DEF RecTick
<1>3. SitesInv'
  <2>1. SiteInv(sites) /\ sites \in SiteStates
    BY RecFacts DEF SitesInv, SiteInv
  <2>2. ASSUME NEW s \in Site, LiveHead(sites, s)' PROVE LiveHead(sites, s)
    <3>1. sites.heads[s].at \in Nat /\ SiteTtl \in Nat
      BY <2>1, RecConst DEF SiteStates, SiteHead
    <3> QED BY <3>1, <2>2, <1>1, <1>2 DEF LiveHead, HasHead, SiteExpired
  <2>3. LiveChained(sites)'
    BY <2>1, <2>2, <1>1 DEF SiteInv, LiveChained, Chained
  <2>4. SiteInv(sites)'
    BY <2>1, <2>3, <1>1 DEF SiteInv, BytesBounded
  <2>5. TotalWithin(sites, recHist.crashes * SiteMaxBytes)'
    BY <1>1, RecFacts DEF SitesInv, TotalWithin, Bytes
  <2> QED BY <2>4, <2>5, <1>1, RecFacts DEF SitesInv
<1>4. recHist'.crashes \in Nat /\ recHist.crashes <= recHist'.crashes
  BY <1>1, RecFacts
<1>5. MarksInv'
  <2>1. MarksInv /\ stamp' \in [Mark -> 0..MaxHeight] /\ sigCalls' \subseteq SigCallsOk /\ \A c \in sigCalls' : c.stage = "set" => c.height # 0
    BY <1>1, CallsTyped, RecFacts DEF MarksInv
  <2> QED BY <2>1, <1>1, <1>4, RecFacts, MarksFrame
<1>6. ListsInv'
  BY <1>1, <1>4, CallsTyped, RecFacts, ListsFrame
<1> QED BY <1>1, <1>2, <1>3, <1>5, <1>6, RecFacts, CallsTyped DEF RecInv

\* The stores start within the invariant.
LEMMA RecStart == RecInit => RecInv
<1> SUFFICES ASSUME RecInit PROVE RecInv
  OBVIOUS
<1>1. rclock \in 1..MaxRecTime /\ 0 \in 0..MaxRecTime
  BY RecordsAssumption DEF RecInit
<1>2. /\ recHist.listings = [m \in Lister |-> [d \in Days |-> 0]] /\ recHist.anchors = [r \in Mark |-> {}]
      /\ recHist.crashes = 0 /\ recHist.stamps = 0
      /\ recHist = [listings |-> recHist.listings, anchors |-> recHist.anchors, crashes |-> recHist.crashes, stamps |-> recHist.stamps]
  BY DEF RecInit, Days
<1>3. recHist \in Histories
  <2>1. [m \in Lister |-> [d \in Days |-> 0]] \in DayCounts
    BY DEF DayCounts
  <2>2. [r \in Mark |-> {}] \in [Mark -> SUBSET (1..MaxHeight)]
    OBVIOUS
  <2>3. recHist.crashes \in Nat /\ recHist.stamps \in Nat
    BY <1>2
  <2> QED BY <2>1, <2>2, <2>3, <1>2 DEF Histories
<1>4. SitesInv
  <2>1. /\ sites.edits = [s \in Site |-> [q \in 0..SiteMaxEdits - 1 |-> NoEdit]] /\ sites.heads = [s \in Site |-> NoHead]
        /\ sites.total = 0 /\ sites.keyed = FALSE
        /\ sites = [edits |-> sites.edits, heads |-> sites.heads, total |-> sites.total, keyed |-> sites.keyed]
    BY DEF RecInit
  <2>2. sites \in SiteStates
    <3>1. sites.edits \in [Site -> [0..SiteMaxEdits - 1 -> SiteEdit]]
      BY <2>1, NoEditTyped
    <3>2. sites.heads \in [Site -> SiteHead]
      BY <2>1, NoHeadTyped
    <3>3. sites.total \in Nat
      BY <2>1
    <3>4. sites.keyed \in BOOLEAN
      BY <2>1
    <3> QED BY <2>1, <3>1, <3>2, <3>3, <3>4 DEF SiteStates
  <2>3. \A s \in Site : sites.heads[s] = NoHead
    BY <2>1
  <2>4. LiveChained(sites)
    BY <2>3 DEF LiveChained, LiveHead, HasHead
  <2>5. BytesBounded(sites)
    BY <2>3, NoHeadTyped, RecConst DEF BytesBounded
  <2>6. \A s \in Site : Bytes(sites)[s] = 0
    BY <2>2, <2>3, NoHeadTyped, BytesNat
  <2>7. SumFunctionOnSet(Bytes(sites), Site) = 0
    BY <2>6, RecConst, SumZero
  <2>8. 0 * SiteMaxBytes = 0
    BY RecConst
  <2>9. TotalWithin(sites, recHist.crashes * SiteMaxBytes)
    BY <2>1, <2>7, <2>8, <1>2, RecConst DEF TotalWithin
  <2>10. editing = {} /\ lastPrune = 0
    BY DEF RecInit
  <2> QED BY <2>2, <2>4, <2>5, <2>9, <2>10, <1>1 DEF SitesInv, SiteInv
<1>5. ListsInv
  <2>1. members = Lister /\ listing = {} /\ listed.daily = [m \in Lister |-> [d \in Days |-> 0]] /\ DOMAIN listed = {"book", "daily"}
    BY DEF RecInit, Days
  <2>2. listed.daily \in DayCounts
    BY <2>1 DEF DayCounts
  <2>3. \A m \in Lister, d \in Days : listed.daily[m][d] = 0 /\ recHist.listings[m][d] = 0
    BY <2>1, <1>2
  <2> QED BY <2>1, <2>2, <2>3, <1>2, RecConst2 DEF ListsInv
<1>6. MarksInv
  <2>1. /\ marks.written = [r \in Mark |-> 0] /\ marks.at = [r \in Mark |-> 0] /\ marks.anchor = [r \in Mark |-> 0]
        /\ marks = [written |-> marks.written, at |-> marks.at, anchor |-> marks.anchor]
        /\ stamp = [r \in Mark |-> 0] /\ sigCalls = {}
    BY DEF RecInit
  <2>2. marks \in MarkTrees /\ stamp \in [Mark -> 0..MaxHeight]
    BY <2>1, <1>1, RecConst2 DEF MarkTrees
  <2>3. AnchorIsEarliest
    BY <2>1, <1>2 DEF AnchorIsEarliest
  <2>4. Partial(marks) = {} /\ \A w : InSigner(marks, w) = {}
    BY <2>1 DEF Partial, InSigner
  <2>5. Cardinality(Partial(marks)) = 0 /\ \A w : Cardinality(InSigner(marks, w)) = 0
    BY <2>4, FS_EmptySet
  <2> QED BY <2>1, <2>2, <2>3, <2>5, <1>2, RecConst2 DEF MarksInv
<1>7. hidden \subseteq Hideable
  BY DEF RecInit
<1> QED BY <1>1, <1>3, <1>4, <1>5, <1>6, <1>7 DEF RecInv

\* Every step keeps the invariant.
LEMMA RecStep == RecInv /\ [RecNext]_recVars => RecInv'
<1> SUFFICES ASSUME RecInv, [RecNext]_recVars PROVE RecInv'
  OBVIOUS
<1>1. CASE SiteNext
  BY <1>1, EditCheckStep, EditAppendStep, EditCrashStep DEF SiteNext
<1>2. CASE ListNext
  <2>1. TRUE \in BOOLEAN /\ FALSE \in BOOLEAN
    OBVIOUS
  <2> QED BY <1>2, <2>1, ListCheckStep, ListWriteStep, LeaveStep DEF ListNext
<1>3. CASE SigNext
  BY <1>3, SigCheckStep, SigPublishStep, AnchorReadStep, SetAnchorStep, SigCrashStep, StampStep DEF SigNext
<1>4. CASE \E w \in Hideable : Hide(w) \/ Unhide(w)
  BY <1>4, HideStep
<1>5. CASE RecTick
  BY <1>5, RecTickStep
<1>6. CASE UNCHANGED recVars
  BY <1>6, CallsTyped, QuietStep DEF recVars
<1> QED BY <1>1, <1>2, <1>3, <1>4, <1>5, <1>6 DEF RecNext

\* A signer has at most its quota and one record a crash.
LEMMA QuotaHolds ==
    ASSUME RecInv, NEW w \in Range(MarkSigner)
    PROVE  Cardinality({r \in Mark : KnownMark(r) /\ MarkSigner[r] = w}) <= MarksPerSigner + recHist.crashes
<1>1. PICK K : K = {r \in Mark : KnownMark(r) /\ MarkSigner[r] = w}
  OBVIOUS
<1>2. PICK A : A = InSigner(marks, w)
  OBVIOUS
<1>3. PICK B : B = Partial(marks)
  OBVIOUS
<1>4. IsFiniteSet(A) /\ IsFiniteSet(B) /\ Cardinality(A) \in Nat /\ Cardinality(B) \in Nat
  BY <1>2, <1>3, MarksFinite
<1>5. K \subseteq A \cup B
  <2>1. \A r \in Mark : marks.written[r] \in 0..6
    BY RecFacts DEF MarksInv, MarkTrees
  <2> QED BY <1>1, <1>2, <1>3, <2>1 DEF InSigner, Partial, KnownMark
<1>6. IsFiniteSet(A \cup B) /\ Cardinality(A \cup B) = Cardinality(A) + Cardinality(B) - Cardinality(A \cap B)
  BY <1>4, FS_Union
<1>7. Cardinality(A \cap B) \in Nat
  BY <1>4, FS_Intersection, FS_CardinalityType
<1>8. IsFiniteSet(K) /\ Cardinality(K) <= Cardinality(A \cup B) /\ Cardinality(K) \in Nat
  BY <1>5, <1>6, FS_Subset, FS_CardinalityType
<1>9. Cardinality(A) <= MarksPerSigner /\ Cardinality(B) <= recHist.crashes /\ recHist.crashes \in Nat /\ MarksPerSigner \in Nat
  BY <1>2, <1>3, RecFacts, RecConst2 DEF MarksInv
<1>10. PICK n : n = Cardinality(A \cup B)
  OBVIOUS
<1>11. n \in Nat
  BY <1>6, <1>10, FS_CardinalityType
<1> QED BY <1>1, <1>4, <1>6, <1>7, <1>8, <1>9, <1>10, <1>11

\* The invariant implies the promises.
LEMMA RecInvSound == RecInv => RecordsSound
<1> SUFFICES ASSUME RecInv PROVE RecordsSound
  OBVIOUS
<1>1. SitesInv /\ ListsInv /\ MarksInv /\ rclock \in 1..MaxRecTime /\ hidden \subseteq Hideable /\ recHist \in Histories
  BY DEF RecInv
<1>2. sites \in SiteStates /\ LiveChained(sites) /\ TotalWithin(sites, recHist.crashes * SiteMaxBytes)
  BY <1>1 DEF SitesInv, SiteInv
<1>3. RecTypeOK
  <2>1. sites.total \in Nat /\ sites.keyed \in BOOLEAN
    BY <1>2 DEF SiteStates
  <2>2. \A s \in Site : sites.heads[s].chain \in Seq(Body) /\ DOMAIN sites.edits[s] = 0..SiteMaxEdits - 1
    BY <1>2 DEF SiteStates, SiteHead
  <2> QED BY <2>1, <2>2, <1>1 DEF RecTypeOK, SitesInv, ListsInv, MarksInv, MarkTrees
<1>4. SitesAreChains
  BY <1>2 DEF SitesAreChains, LiveChained, Chained
<1>5. SiteTotalKept
  BY <1>2 DEF SiteTotalKept, TotalWithin
<1>6. ListingsCapped
  <2> SUFFICES ASSUME NEW m \in Lister, NEW d \in DOMAIN recHist.listings[m]
               PROVE  recHist.listings[m][d] <= ListCap + recHist.crashes
    BY DEF ListingsCapped
  <2>1. d \in Days
    BY <1>1 DEF Histories, DayCounts
  <2>2. recHist.listings[m][d] \in Nat /\ listed.daily[m][d] \in Nat /\ recHist.crashes \in Nat /\ ListCap \in Nat
    BY <2>1, <1>1, RecConst2 DEF Histories, DayCounts, ListsInv
  <2>3. listed.daily[m][d] <= ListCap /\ recHist.listings[m][d] <= listed.daily[m][d] + recHist.crashes
    BY <2>1, <1>1 DEF ListsInv
  <2> QED BY <2>2, <2>3
<1>7. AnchorIsEarliest
  BY <1>1 DEF MarksInv
<1>8. FirstMarkingServed
  <2>1. ASSUME NEW r \in Mark, InFileIndex(r), Rank(r) = 0, MarkSigner[r] \notin hidden PROVE r \in ServedMarks(MarkFile[r])
    <3>1. r \in FileMarks(MarkFile[r])
      BY <2>1 DEF FileMarks
    <3>2. Rank(r) < SearchMax
      BY <2>1, RecConst2
    <3> QED BY <2>1, <3>1, <3>2 DEF ServedMarks, SearchFile
  <2> QED BY <2>1, QuotaHolds DEF FirstMarkingServed
<1> QED BY <1>3, <1>4, <1>5, <1>6, <1>7, <1>8 DEF RecordsSound

\* Live sites are whole chains, the byte total drifts by one site's bytes a crash at
\* most, a day's listings are capped, a record keeps its earliest anchor and the first
\* marking of a file is served (tet-core sites.rs, search.rs, sigs.rs), for all
\* constants.
THEOREM RecordsAreSound == RecSpec => []RecordsSound
<1>1. RecInit => RecInv
  BY RecStart
<1>2. RecInv /\ [RecNext]_recVars => RecInv'
  BY RecStep
<1>3. RecInv => RecordsSound
  BY RecInvSound
<1> QED BY <1>1, <1>2, <1>3, PTL DEF RecSpec

-----------------------------------------------------------------------------
(* Tmail: times, kinds and order.                                            *)

\* The entries of by_msg_id, the verdicts, and the rows of the other trees.
IndexTags == {"none", "live", "burned", "pruned"}
VerdictTags == {"none", "pending", "verified", "failed", "unknown"}
RegKeys == [k : PostingKeys, null : Nullifiers, by : Msgs]
HeldPosts == [k : PostingKeys, m : Msgs, at : Nat]
DBs == [mail : SUBSET Msgs, index : [Msgs -> IndexTags], verdict : [Msgs -> VerdictTags],
        claims : [Nullifiers -> Msgs \cup {Unclaimed}], receipts : SUBSET ReceiptIds,
        polls : SUBSET DOMAIN PollRoot, fastKeys : SUBSET RegKeys, held : SUBSET HeldPosts,
        regPending : SUBSET PostingKeys]
IndexOk(d) == \A m \in Msgs : m \in d.mail <=> d.index[m] = "live"
OneKey(d) == \A r, s \in d.fastKeys : r.k = s.k => r = s
IsProof(m) == Envelope[m].kind = "proof"

\* The limits of the store are numbers, the caps at least one.
LEMMA TmNats ==
    /\ DayLength \in Nat \ {0} /\ Skew \in Nat /\ DefaultTtl \in Nat \ {0} /\ MaxTtl \in Nat \ {0}
    /\ MaxEntries \in Nat \ {0} /\ RetainNamed \in Nat \ {0} /\ RetainDaily \in Nat \ {0} /\ RetainAnon \in Nat \ {0}
    /\ Burst \in Nat \ {0} /\ DailyCap \in Nat \ {0} /\ ReceiptCap \in Nat \ {0}
    /\ PendingPerKey \in Nat /\ PendingTotal \in Nat /\ PendingTtl \in Nat /\ MaxTime \in Nat /\ MaxTmailCrashes \in Nat
BY TmailAssumption

\* Messages are positive numbers, finitely many; scenarios are sets of them.
LEMMA TmSets ==
    /\ Msgs \subseteq Nat \ {0} /\ IsFiniteSet(Msgs) /\ RestMsgs \subseteq Msgs
    /\ \A S \in Scenarios : S \subseteq Msgs
BY TmailAssumption

\* The fields of an envelope and the sets they are drawn from.
LEMMA EnvelopeIs ==
    ASSUME NEW m \in Msgs
    PROVE  /\ Envelope[m].kind \in {"named", "proof", "fast"} /\ Envelope[m].null \in Nat /\ Envelope[m].ok \in BOOLEAN
           /\ Envelope[m].receipt \in Nat /\ Envelope[m].at \in Nat /\ Envelope[m].ttl \in Nat
           /\ Envelope[m].null \in Nullifiers /\ Envelope[m].receipt \in ReceiptIds /\ Envelope[m].to \in Boards
           /\ KeyOf(m) \in PostingKeys
<1>1. Envelope[m] \in [kind : {"named", "proof", "fast"}, to : STRING, from : STRING,
                              key : STRING, null : Nat, ok : BOOLEAN, root : STRING,
                              receipt : Nat, at : Nat, ttl : Nat, burn : BOOLEAN] BY TmailAssumption
<1> QED BY <1>1 DEF Nullifiers, ReceiptIds, Boards, PostingKeys

\* An anonymous message carries a proof or is a fast post, never both.
LEMMA KindIs ==
    ASSUME NEW m \in Msgs
    PROVE  /\ Anonymous(m) <=> IsProof(m) \/ IsFastPost(m)
           /\ ~(IsProof(m) /\ IsFastPost(m)) /\ ~(IsProof(m) /\ ~Anonymous(m))
BY EnvelopeIs DEF Anonymous, IsProof, IsFastPost

\* A day is a number.
LEMMA DayNat == ASSUME NEW t \in Nat PROVE Day(t) \in Nat
BY TmNats, DivMono DEF Day

\* Days do not go back while the clock advances.
LEMMA DayMono == ASSUME NEW t \in Nat, NEW u \in Nat, t <= u PROVE Day(t) <= Day(u) /\ Day(t) \in Nat /\ Day(u) \in Nat
BY TmNats, DivMono DEF Day

\* Every message has a time of expiry.
LEMMA ExpireNat == ASSUME NEW m \in Msgs PROVE ExpireAt(m) \in Nat
<1>1. PICK ttl \in Nat : ttl = Envelope[m].ttl BY EnvelopeIs
<1> DEFINE S == {MaxTtl, IF ttl = 0 THEN DefaultTtl ELSE ttl}
<1>2. S \subseteq Nat /\ S # {} BY TmNats
<1>3. EffectiveTtl(ttl) = Min(S) BY DEF EffectiveTtl
<1> HIDE DEF S
<1>4. EffectiveTtl(ttl) \in Nat BY <1>2, <1>3, MinIsLeast
<1> QED BY <1>1, <1>4, EnvelopeIs DEF ExpireAt

\* What is expired stays expired.
LEMMA ExpiryStays == ASSUME NEW m \in Msgs, NEW t \in Nat, NEW u \in Nat, t <= u, IsExpired(m, t) PROVE IsExpired(m, u)
BY ExpireNat DEF IsExpired

\* Newest first, ties broken by the message id, is a strict total order.
LEMMA NewerOrder ==
    ASSUME NEW a \in Msgs, NEW b \in Msgs, NEW c \in Msgs
    PROVE  /\ ~Newer(a, a) /\ (Newer(a, b) /\ Newer(b, c) => Newer(a, c))
           /\ (a # b => Newer(a, b) \/ Newer(b, a)) /\ ~(Newer(a, b) /\ Newer(b, a))
<1>1. PICK x \in Nat, y \in Nat, z \in Nat : x = Envelope[a].at /\ y = Envelope[b].at /\ z = Envelope[c].at BY EnvelopeIs
<1>2. a \in Nat /\ b \in Nat /\ c \in Nat BY TmSets
<1> QED BY <1>1, <1>2 DEF Newer

-----------------------------------------------------------------------------
\* B is a strict total order on R.
Ordered(B, R) ==
    /\ \A x \in R : <<x, x>> \notin B
    /\ \A x, y, z \in R : <<x, y>> \in B /\ <<y, z>> \in B => <<x, z>> \in B
    /\ \A x, y \in R : x # y => <<x, y>> \in B \/ <<y, x>> \in B

\* A finite set that is not empty has a last element of a strict total order.
LEMMA LastOf ==
    ASSUME NEW R, IsFiniteSet(R), NEW B, Ordered(B, R), NEW K \in SUBSET R, K # {}
    PROVE  \E x \in K : \A y \in K : y # x => <<y, x>> \in B
<1> DEFINE P == {T \in SUBSET R : T = {} \/ \E x \in T : \A y \in T : y # x => <<y, x>> \in B}
<1>1. {} \in P OBVIOUS
<1>2. ASSUME NEW T \in SUBSET R, T # {}, \A x \in T : T \ {x} \in P PROVE T \in P
  <2>1. PICK x \in T : TRUE BY <1>2
  <2>2. T \ {x} \in P BY <1>2, <2>1
  <2>3. CASE T \ {x} = {} BY <2>1, <2>3
  <2>4. CASE \E z \in T \ {x} : \A y \in T \ {x} : y # z => <<y, z>> \in B
    <3>1. PICK z \in T \ {x} : \A y \in T \ {x} : y # z => <<y, z>> \in B BY <2>4
    <3>2. CASE <<x, z>> \in B
      <4>1. \A y \in T : y # z => <<y, z>> \in B BY <3>1, <3>2
      <4> QED BY <3>1, <4>1
    <3>3. CASE <<z, x>> \in B
      <4>1. \A y \in T : y # x => <<y, x>> \in B
        <5> SUFFICES ASSUME NEW y \in T, y # x PROVE <<y, x>> \in B OBVIOUS
        <5>1. CASE y = z BY <5>1, <3>3
        <5>2. CASE y # z
          <6>1. <<y, z>> \in B BY <3>1, <5>2
          <6> QED BY <6>1, <3>1, <3>3, <2>1 DEF Ordered
        <5> QED BY <5>1, <5>2
      <4> QED BY <2>1, <4>1
    <3>4. <<x, z>> \in B \/ <<z, x>> \in B BY <2>1, <3>1 DEF Ordered
    <3> QED BY <3>2, <3>3, <3>4
  <2> QED BY <2>2, <2>3, <2>4
<1>3. P = SUBSET R
  <2>1. P \in SUBSET (SUBSET R) OBVIOUS
  <2> HIDE DEF P
  <2> QED BY <1>1, <1>2, <2>1, FiniteInduction
<1>4. K \in P BY <1>3
<1> QED BY <1>4

\* A strict total order read backwards is one.
LEMMA Reversed ==
    ASSUME NEW R, NEW B, Ordered(B, R)
    PROVE  Ordered({p \in R \X R : <<p[2], p[1]>> \in B}, R)
<1> DEFINE C == {p \in R \X R : <<p[2], p[1]>> \in B}
<1>1. \A x, y \in R : <<x, y>> \in C <=> <<y, x>> \in B OBVIOUS
<1> HIDE DEF C
<1>2. Ordered(C, R) BY <1>1 DEF Ordered
<1> QED BY <1>2 DEF C

\* A finite set that is not empty has a first element of a strict total order.
LEMMA FirstOf ==
    ASSUME NEW R, IsFiniteSet(R), NEW B, Ordered(B, R), NEW K \in SUBSET R, K # {}
    PROVE  \E x \in K : \A y \in K : y # x => <<x, y>> \in B
<1> DEFINE C == {p \in R \X R : <<p[2], p[1]>> \in B}
<1>1. Ordered(C, R) BY Reversed
<1>2. \A x, y \in R : <<x, y>> \in C <=> <<y, x>> \in B OBVIOUS
<1> HIDE DEF C
<1>3. PICK x \in K : \A y \in K : y # x => <<y, x>> \in C BY <1>1, LastOf
<1> QED BY <1>2, <1>3

\* No more than k elements have fewer than k before them.
LEMMA FewFirst ==
    ASSUME NEW R, IsFiniteSet(R), NEW B, Ordered(B, R), NEW k \in Nat
    PROVE  Cardinality({x \in R : Cardinality({y \in R : <<y, x>> \in B}) < k}) <= k
<1> DEFINE Bef(x) == {y \in R : <<y, x>> \in B}
           K == {x \in R : Cardinality(Bef(x)) < k}
<1>1. K \in SUBSET R /\ IsFiniteSet(K) /\ Cardinality(K) \in Nat
  <2>1. K \in SUBSET R OBVIOUS
  <2> HIDE DEF K
  <2> QED BY <2>1, FS_Subset, FS_CardinalityType
<1>2. CASE K = {}
  <2> HIDE DEF K
  <2>1. Cardinality(K) = 0 BY <1>2, FS_EmptySet
  <2> QED BY <2>1 DEF K, Bef
<1>3. CASE K # {}
  <2>1. PICK x \in K : \A y \in K : y # x => <<y, x>> \in B
    <3> HIDE DEF K
    <3> QED BY <1>1, <1>3, LastOf
  <2>2. Bef(x) \in SUBSET R /\ Cardinality(Bef(x)) < k BY <2>1
  <2>3. IsFiniteSet(Bef(x)) /\ Cardinality(Bef(x)) \in Nat
    <3> HIDE DEF Bef
    <3> QED BY <2>2, FS_Subset, FS_CardinalityType
  <2>4. K \ {x} \in SUBSET Bef(x) BY <2>1
  <2>5. Cardinality(K \ {x}) <= Cardinality(Bef(x))
    <3> HIDE DEF K, Bef
    <3> QED BY <2>3, <2>4, FS_Subset
  <2>6. Cardinality(K \ {x}) = Cardinality(K) - 1
    <3> HIDE DEF K
    <3> QED BY <1>1, <2>1, FS_RemoveElement
  <2>7. Cardinality(K) <= k
    <3> HIDE DEF K, Bef
    <3> QED BY <1>1, <2>2, <2>3, <2>5, <2>6
  <2> QED BY <2>7
<1> QED BY <1>2, <1>3

-----------------------------------------------------------------------------
(* Tmail: what a removal leaves.                                             *)

\* The trees beside the messages and their index are the same; what a removal leaves is
\* well formed.
SameRest(d, e) ==
    /\ e.verdict = d.verdict /\ e.claims = d.claims /\ e.receipts = d.receipts /\ e.polls = d.polls
    /\ e.fastKeys = d.fastKeys /\ e.held = d.held /\ e.regPending = d.regPending
Sane(d) == d \in DBs /\ IndexOk(d) /\ OneKey(d) /\ Cardinality(d.receipts) <= ReceiptCap
Cut(d, S, tag) ==
    [d EXCEPT !.mail = @ \ S, !.index = [m \in Msgs |-> IF m \in S THEN tag ELSE @[m]]]
CutTo(d, e, S, tag) ==
    /\ SameRest(d, e) /\ e.mail = d.mail \ S
    /\ \A m \in Msgs : e.index[m] = IF m \in S THEN tag ELSE d.index[m]

\* The fields of a store and their types.
LEMMA DbFields ==
    ASSUME NEW d \in DBs
    PROVE  /\ d.mail \in SUBSET Msgs /\ d.index \in [Msgs -> IndexTags] /\ d.verdict \in [Msgs -> VerdictTags]
           /\ d.claims \in [Nullifiers -> Msgs \cup {Unclaimed}] /\ d.receipts \in SUBSET ReceiptIds
           /\ d.polls \in SUBSET DOMAIN PollRoot /\ d.fastKeys \in SUBSET RegKeys /\ d.held \in SUBSET HeldPosts
           /\ d.regPending \in SUBSET PostingKeys
BY DEF DBs

\* A cut removes the rows of S and writes one tag in their index entries.
LEMMA CutIs ==
    ASSUME NEW d \in DBs, NEW S \in SUBSET Msgs, NEW tag \in IndexTags, NEW e, e = Cut(d, S, tag)
    PROVE  e \in DBs /\ CutTo(d, e, S, tag)
<1> DEFINE ix == [m \in Msgs |-> IF m \in S THEN tag ELSE d.index[m]]
           ml == d.mail \ S
<1>1. e = [d EXCEPT !.mail = ml, !.index = ix] BY DEF Cut
<1>2. ml \in SUBSET Msgs /\ ix \in [Msgs -> IndexTags] BY DbFields
<1>3. \A m \in Msgs : ix[m] = IF m \in S THEN tag ELSE d.index[m] OBVIOUS
<1> HIDE DEF ix
<1>4. e \in DBs /\ SameRest(d, e) /\ e.mail = ml /\ e.index = ix
  <2> HIDE DEF ml
  <2> QED BY <1>1, <1>2 DEF DBs, SameRest
<1> QED BY <1>3, <1>4 DEF CutTo

\* A cut that leaves no live entry keeps the two indexes in step.
LEMMA CutSane ==
    ASSUME NEW d, Sane(d), NEW S \in SUBSET Msgs, NEW tag \in IndexTags \ {"live"}, NEW e, e = Cut(d, S, tag)
    PROVE  Sane(e) /\ CutTo(d, e, S, tag)
<1>1. e \in DBs /\ CutTo(d, e, S, tag) BY CutIs DEF Sane
<1>2. IndexOk(e)
  <2> SUFFICES ASSUME NEW m \in Msgs PROVE m \in e.mail <=> e.index[m] = "live" BY DEF IndexOk
  <2> QED BY <1>1 DEF CutTo, Sane, IndexOk
<1>3. OneKey(e) /\ Cardinality(e.receipts) <= ReceiptCap BY <1>1 DEF CutTo, SameRest, Sane, OneKey
<1> QED BY <1>1, <1>2, <1>3 DEF Sane

\* delete_by_msg_id is a cut that leaves tombstones.
LEMMA DeleteIs ==
    ASSUME NEW d, NEW S PROVE DeleteByMsgId(d, S) = Cut(d, {m \in S : Live(d, m)}, "burned")
BY DEF DeleteByMsgId, Cut

\* forget_by_msg_id is a cut that leaves nothing.
LEMMA ForgetIs ==
    ASSUME NEW d, NEW S PROVE ForgetByMsgId(d, S) = Cut(d, {m \in S : Live(d, m)}, "none")
BY DEF ForgetByMsgId, Cut

\* Retention is a cut that leaves the pruned tag.
LEMMA RetireIs ==
    ASSUME NEW d, NEW S PROVE Retire(d, S) = Cut(d, S, "pruned")
BY DEF Retire, Cut

\* Tombstones and messages past their time.
Tombs(d, t) == {m \in Msgs : d.index[m] \in {"burned", "pruned"} /\ t > ExpireAt(m)}
Olds(d, t) == {m \in d.mail : IsExpired(m, t)}

\* prune_expired is a cut of the expired messages and the expired tombstones.
LEMMA PruneIs ==
    ASSUME NEW d, Sane(d), NEW t PROVE PruneExpired(d, t) = Cut(d, Olds(d, t) \cup Tombs(d, t), "none")
<1>1. d.mail \ Olds(d, t) = d.mail \ (Olds(d, t) \cup Tombs(d, t))
  <2>1. \A m \in Tombs(d, t) : m \notin d.mail BY DEF Tombs, Sane, IndexOk
  <2> QED BY <2>1
<1>2. PruneExpired(d, t) = [d EXCEPT !.mail = d.mail \ Olds(d, t),
          !.index = [m \in Msgs |-> IF m \in Olds(d, t) \cup Tombs(d, t) THEN "none" ELSE d.index[m]]]
  BY DEF PruneExpired, Tombs, Olds
<1>3. Cut(d, Olds(d, t) \cup Tombs(d, t), "none") = [d EXCEPT !.mail = d.mail \ (Olds(d, t) \cup Tombs(d, t)),
          !.index = [m \in Msgs |-> IF m \in Olds(d, t) \cup Tombs(d, t) THEN "none" ELSE d.index[m]]]
  BY DEF Cut
<1> QED BY <1>1, <1>2, <1>3, Zenon

\* What may happen to the index entry of a message.
Marked(d, e, t, F, m) ==
    \/ e.index[m] = d.index[m]
    \/ d.index[m] = "live" /\ e.index[m] \in {"burned", "pruned"}
    \/ e.index[m] = "none" /\ (IsExpired(m, t) \/ m \in F)
\* The store thinned at time t: rows and tombstones go, those of F without a trace.
Thinned(d, e, t, F) ==
    /\ Sane(e) /\ SameRest(d, e) /\ e.mail \subseteq d.mail
    /\ \A m \in Msgs : Marked(d, e, t, F, m)

\* A cut of live rows, or of expired ones, thins the store.
LEMMA CutThins ==
    ASSUME NEW d, NEW e, NEW t, NEW S \in SUBSET Msgs, NEW tag, NEW F, Sane(d), Sane(e), CutTo(d, e, S, tag),
           \/ tag \in {"burned", "pruned"} /\ \A m \in S : d.index[m] = "live"
           \/ tag = "none" /\ \A m \in S : IsExpired(m, t) \/ m \in F
    PROVE  Thinned(d, e, t, F)
<1>1. \A m \in Msgs : e.index[m] = IF m \in S THEN tag ELSE d.index[m] BY DEF CutTo
<1>2. \A m \in Msgs : Marked(d, e, t, F, m) BY <1>1 DEF Marked
<1>3. SameRest(d, e) /\ e.mail \subseteq d.mail BY DEF CutTo
<1> QED BY <1>2, <1>3 DEF Thinned

\* A store left alone is thinned.
LEMMA ThinnedSame == ASSUME NEW d, Sane(d), NEW t, NEW F PROVE Thinned(d, d, t, F)
BY DEF Thinned, SameRest, Marked

\* prune_expired thins the store.
LEMMA PruneThins ==
    ASSUME NEW d, Sane(d), NEW t, NEW e, e = PruneExpired(d, t)
    PROVE  Thinned(d, e, t, {})
<1> DEFINE S == Olds(d, t) \cup Tombs(d, t)
<1>1. S \in SUBSET Msgs BY DbFields DEF Olds, Tombs, Sane
<1>2. \A m \in S : IsExpired(m, t) BY DEF Olds, Tombs, IsExpired
<1>3. e = Cut(d, S, "none") BY PruneIs
<1> HIDE DEF S
<1>4. Sane(e) /\ CutTo(d, e, S, "none") BY <1>1, <1>3, CutSane DEF IndexTags
<1> QED BY <1>1, <1>2, <1>4, CutThins

\* delete_by_msg_id thins the store and marks exactly the live messages of S.
LEMMA DeleteThins ==
    ASSUME NEW d, Sane(d), NEW t, NEW S, NEW e, e = DeleteByMsgId(d, S)
    PROVE  /\ Thinned(d, e, t, {})
           /\ \A m \in Msgs : e.index[m] = IF m \in S /\ m \in d.mail THEN "burned" ELSE d.index[m]
<1> DEFINE T == {m \in S : Live(d, m)}
<1>1. T \in SUBSET Msgs BY DbFields DEF Live, Sane
<1>2. \A m \in T : d.index[m] = "live" BY DEF Live
<1>3. e = Cut(d, T, "burned") BY DeleteIs
<1>5. \A m \in Msgs : m \in T <=> m \in S /\ m \in d.mail BY DEF Live, Sane, IndexOk
<1> HIDE DEF T
<1>4. Sane(e) /\ CutTo(d, e, T, "burned") BY <1>1, <1>3, CutSane DEF IndexTags
<1>6. Thinned(d, e, t, {}) BY <1>1, <1>2, <1>4, CutThins
<1> QED BY <1>4, <1>5, <1>6 DEF CutTo

\* forget_by_msg_id drops exactly the live messages of S without a trace.
LEMMA ForgetThins ==
    ASSUME NEW d, Sane(d), NEW t, NEW S, NEW e, e = ForgetByMsgId(d, S)
    PROVE  /\ Thinned(d, e, t, S)
           /\ \A m \in Msgs : e.index[m] = IF m \in S /\ m \in d.mail THEN "none" ELSE d.index[m]
<1> DEFINE T == {m \in S : Live(d, m)}
<1>1. T \in SUBSET Msgs BY DbFields DEF Live, Sane
<1>2. \A m \in T : m \in S OBVIOUS
<1>3. e = Cut(d, T, "none") BY ForgetIs
<1>5. \A m \in Msgs : m \in T <=> m \in S /\ m \in d.mail BY DEF Live, Sane, IndexOk
<1> HIDE DEF T
<1>4. Sane(e) /\ CutTo(d, e, T, "none") BY <1>1, <1>3, CutSane DEF IndexTags
<1>6. Thinned(d, e, t, S) BY <1>1, <1>2, <1>4, CutThins
<1> QED BY <1>4, <1>5, <1>6 DEF CutTo

\* Retention thins the store by exactly what it drops.
LEMMA RetireThins ==
    ASSUME NEW d, Sane(d), NEW t, NEW S \in SUBSET d.mail, NEW e, e = Retire(d, S)
    PROVE  Thinned(d, e, t, {}) /\ e.mail = d.mail \ S
<1>1. S \in SUBSET Msgs BY DbFields DEF Sane
<1>2. \A m \in S : d.index[m] = "live" BY <1>1 DEF Sane, IndexOk
<1>3. e = Cut(d, S, "pruned") BY RetireIs
<1>4. Sane(e) /\ CutTo(d, e, S, "pruned") BY <1>1, <1>3, CutSane DEF IndexTags
<1>5. Thinned(d, e, t, {}) BY <1>1, <1>2, <1>4, CutThins
<1> QED BY <1>4, <1>5 DEF CutTo

\* Thinning twice thins.
LEMMA ThinnedTwice ==
    ASSUME NEW d, NEW e, NEW f, NEW t, NEW F, Thinned(d, e, t, F), Thinned(e, f, t, F)
    PROVE  Thinned(d, f, t, F)
<1>1. SameRest(d, f) /\ Sane(f) /\ f.mail \subseteq d.mail BY DEF Thinned, SameRest
<1>2. \A m \in Msgs : Marked(d, f, t, F, m) BY DEF Thinned, Marked
<1> QED BY <1>1, <1>2 DEF Thinned

\* The list of held posts agrees with the inbox, but for the posts of X.
Holding(d, X) ==
    /\ \A h \in d.held : IsFastPost(h.m) /\ h.k = KeyOf(h.m) /\ (h.m \in d.mail \ X => ~Verified(d, h.m))
    /\ \A r \in d.fastKeys : \A h \in d.held : h.k # r.k
    /\ \A x \in d.mail \ X : IsFastPost(x) /\ ~Verified(d, x) => \E h \in d.held : h.m = x

\* Thinning keeps the held list and the fast posts in step.
LEMMA ThinnedHolds ==
    ASSUME NEW d, NEW e, NEW t, NEW F, NEW X, Thinned(d, e, t, F), Holding(d, X)
    PROVE  Holding(e, X)
<1>1. e.held = d.held /\ e.fastKeys = d.fastKeys /\ e.verdict = d.verdict /\ e.mail \subseteq d.mail BY DEF Thinned, SameRest
<1>2. \A x : Verified(e, x) <=> Verified(d, x) BY <1>1 DEF Verified
<1> QED BY <1>1, <1>2 DEF Holding

-----------------------------------------------------------------------------
(* Tmail: held posts and posting keys.                                       *)

\* Records of the store with other verdicts, keys, held posts or pending keys.
Refit(d, e, V, A, B, G) ==
    /\ e.mail = d.mail /\ e.index = d.index /\ e.claims = d.claims /\ e.receipts = d.receipts /\ e.polls = d.polls
    /\ e.verdict = V /\ e.fastKeys = A /\ e.held = B /\ e.regPending = G

\* Such a store is well formed when no key is registered twice.
LEMMA RefitSane ==
    ASSUME NEW d, Sane(d), NEW e \in DBs, NEW V, NEW A, NEW B, NEW G, Refit(d, e, V, A, B, G),
           \A r, s \in A : r.k = s.k => r = s
    PROVE  Sane(e)
BY DEF Sane, Refit, IndexOk, OneKey

\* Writing verdicts touches nothing else.
LEMMA RefitVerdict ==
    ASSUME NEW d \in DBs, NEW V \in [Msgs -> VerdictTags], NEW e, e = [d EXCEPT !.verdict = V]
    PROVE  e \in DBs /\ Refit(d, e, V, d.fastKeys, d.held, d.regPending)
BY DEF DBs, Refit

\* Writing the pending registrations touches nothing else.
LEMMA RefitPending ==
    ASSUME NEW d \in DBs, NEW G \in SUBSET PostingKeys, NEW e, e = [d EXCEPT !.regPending = G]
    PROVE  e \in DBs /\ Refit(d, e, d.verdict, d.fastKeys, d.held, G)
BY DEF DBs, Refit

\* Writing the held list touches nothing else.
LEMMA RefitHeld ==
    ASSUME NEW d \in DBs, NEW B \in SUBSET HeldPosts, NEW e, e = [d EXCEPT !.held = B]
    PROVE  e \in DBs /\ Refit(d, e, d.verdict, d.fastKeys, B, d.regPending)
BY DEF DBs, Refit

\* Writing keys and held list touches nothing else.
LEMMA RefitKeys ==
    ASSUME NEW d \in DBs, NEW A \in SUBSET RegKeys, NEW B \in SUBSET HeldPosts,
           NEW e, e = [d EXCEPT !.fastKeys = A, !.held = B]
    PROVE  e \in DBs /\ Refit(d, e, d.verdict, A, B, d.regPending)
BY DEF DBs, Refit

\* Writing keys, held list and verdicts touches nothing else.
LEMMA RefitAll ==
    ASSUME NEW d \in DBs, NEW A \in SUBSET RegKeys, NEW B \in SUBSET HeldPosts, NEW V \in [Msgs -> VerdictTags],
           NEW e, e = [d EXCEPT !.fastKeys = A, !.held = B, !.verdict = V]
    PROVE  e \in DBs /\ Refit(d, e, V, A, B, d.regPending)
BY DEF DBs, Refit

\* A post leaves with its place among the held ones.
Left(d, e, x) ==
    \/ e.index[x] = d.index[x]
    \/ d.index[x] = "live" /\ e.index[x] \in {"none", "burned"} /\ \E h \in d.held : h.m = x
FastPruned(d, e) ==
    /\ Sane(e) /\ e.verdict = d.verdict /\ e.claims = d.claims /\ e.receipts = d.receipts /\ e.polls = d.polls
    /\ e.regPending = d.regPending
    /\ e.fastKeys \subseteq d.fastKeys /\ e.held \subseteq d.held
    /\ \A x \in Msgs : Left(d, e, x)
    /\ \A h \in d.held \ e.held : h.m \notin e.mail

\* Held posts that leave the list leave the store with it.
LEMMA DroppedPrunes ==
    ASSUME NEW d, Sane(d), NEW c, Sane(c), NEW A \in SUBSET d.fastKeys, NEW W \in SUBSET d.held,
           Refit(d, c, d.verdict, A, d.held \ W, d.regPending),
           NEW e, e = ForgetByMsgId(c, {h.m : h \in W}) \/ e = DeleteByMsgId(c, {h.m : h \in W})
    PROVE  FastPruned(d, e)
<1> DEFINE S == {h.m : h \in W}
<1>1. \A x \in S : \E h \in d.held : h.m = x OBVIOUS
<1>2. \A h \in W : h.m \in S OBVIOUS
<1>9. \A h \in d.held : h.m \in Msgs BY DbFields DEF Sane, HeldPosts
<1> HIDE DEF S
<1>3. \E tag \in {"none", "burned"} : /\ Thinned(c, e, 0, S)
                                      /\ \A x \in Msgs : e.index[x] = IF x \in S /\ x \in c.mail THEN tag ELSE c.index[x]
  <2>1. CASE e = ForgetByMsgId(c, S) BY <2>1, ForgetThins
  <2>2. CASE e = DeleteByMsgId(c, S)
    <3>1. /\ Thinned(c, e, 0, {})
          /\ \A x \in Msgs : e.index[x] = IF x \in S /\ x \in c.mail THEN "burned" ELSE c.index[x] BY <2>2, DeleteThins
    <3>2. Thinned(c, e, 0, S) BY <3>1 DEF Thinned, Marked
    <3> QED BY <3>1, <3>2
  <2> QED BY <2>1, <2>2 DEF S
<1>4. PICK tag \in {"none", "burned"} : /\ Thinned(c, e, 0, S)
                                      /\ \A x \in Msgs : e.index[x] = IF x \in S /\ x \in c.mail THEN tag ELSE c.index[x]
  BY <1>3
<1>5. c.mail = d.mail /\ c.index = d.index BY DEF Refit
<1>6. \A x \in Msgs : Left(d, e, x)
  <2> SUFFICES ASSUME NEW x \in Msgs PROVE Left(d, e, x) OBVIOUS
  <2>1. CASE x \in S /\ x \in c.mail
    <3>1. d.index[x] = "live" BY <2>1, <1>5 DEF Sane, IndexOk
    <3>2. e.index[x] = tag BY <2>1, <1>4
    <3> QED BY <3>1, <3>2, <2>1, <1>1 DEF Left
  <2>2. CASE ~(x \in S /\ x \in c.mail) BY <2>2, <1>4, <1>5 DEF Left
  <2> QED BY <2>1, <2>2
<1>7. SameRest(c, e) /\ Sane(e) BY <1>4 DEF Thinned
<1>8. \A h \in d.held \ e.held : h.m \notin e.mail
  <2> SUFFICES ASSUME NEW h \in d.held \ e.held PROVE h.m \notin e.mail OBVIOUS
  <2>1. h \in W BY <1>7 DEF SameRest, Refit
  <2>2. h.m \in S /\ h.m \in Msgs BY <2>1, <1>2, <1>9
  <2>3. CASE h.m \in c.mail
    <3>1. e.index[h.m] = tag BY <2>2, <2>3, <1>4
    <3> QED BY <3>1, <2>2, <1>7 DEF Sane, IndexOk
  <2>4. CASE h.m \notin c.mail BY <2>4, <1>4 DEF Thinned
  <2> QED BY <2>3, <2>4
<1> QED BY <1>6, <1>7, <1>8 DEF FastPruned, SameRest, Refit

\* prune_fast drops old keys and the held posts that waited too long, bodies included.
LEMMA PruneFastIs ==
    ASSUME NEW d, Sane(d), NEW t, NEW e, e = PruneFast(d, t)
    PROVE  FastPruned(d, e)
<1> DEFINE W == {h \in d.held : t > h.at + PendingTtl}
           A == {r \in d.fastKeys : r.k[2] + 1 >= Day(t)}
           c == [d EXCEPT !.fastKeys = A, !.held = d.held \ W]
<1>1. e = ForgetByMsgId(c, {h.m : h \in W}) BY DEF PruneFast
<1>2. W \in SUBSET d.held /\ A \in SUBSET d.fastKeys OBVIOUS
<1> HIDE DEF W, A
<1>3. c \in DBs /\ Refit(d, c, d.verdict, A, d.held \ W, d.regPending)
  <2>1. A \in SUBSET RegKeys /\ d.held \ W \in SUBSET HeldPosts BY <1>2, DbFields DEF Sane
  <2> QED BY <2>1, RefitKeys DEF Sane
<1>4. Sane(c)
  <2>1. \A r, s \in A : r.k = s.k => r = s BY <1>2 DEF Sane, OneKey
  <2> HIDE DEF c
  <2> QED BY <2>1, <1>3, RefitSane
<1> HIDE DEF c
<1> QED BY <1>1, <1>2, <1>3, <1>4, DroppedPrunes

\* drop_fast_pending drops the posts that wait for a key, and no key.
LEMMA DropFastIs ==
    ASSUME NEW d, Sane(d), NEW m, NEW def \in BOOLEAN, NEW e, e = DropFastPending(d, m, def)
    PROVE  FastPruned(d, e) /\ e.fastKeys = d.fastKeys
<1> DEFINE W == {h \in d.held : h.k = KeyOf(m)}
           c == [d EXCEPT !.held = d.held \ W]
<1>1. e = ForgetByMsgId(c, {h.m : h \in W}) \/ e = DeleteByMsgId(c, {h.m : h \in W}) BY DEF DropFastPending
<1>2. W \in SUBSET d.held OBVIOUS
<1> HIDE DEF W
<1>3. c \in DBs /\ Refit(d, c, d.verdict, d.fastKeys, d.held \ W, d.regPending)
  <2>1. d.held \ W \in SUBSET HeldPosts BY <1>2, DbFields DEF Sane
  <2> QED BY <2>1, RefitHeld DEF Sane
<1>4. Sane(c)
  <2>1. \A r, s \in d.fastKeys : r.k = s.k => r = s BY DEF Sane, OneKey
  <2> HIDE DEF c
  <2> QED BY <2>1, <1>3, RefitSane
<1> HIDE DEF c
<1>5. FastPruned(d, e) BY <1>1, <1>2, <1>3, <1>4, DroppedPrunes
<1>6. e.fastKeys = c.fastKeys
  <2>1. CASE e = ForgetByMsgId(c, {h.m : h \in W})
    <3>1. Thinned(c, e, 0, {h.m : h \in W}) BY <2>1, <1>4, ForgetThins
    <3> QED BY <3>1 DEF Thinned, SameRest
  <2>2. CASE e = DeleteByMsgId(c, {h.m : h \in W})
    <3>1. Thinned(c, e, 0, {}) BY <2>2, <1>4, DeleteThins
    <3> QED BY <3>1 DEF Thinned, SameRest
  <2> QED BY <1>1, <2>1, <2>2
<1> QED BY <1>3, <1>5, <1>6 DEF Refit

\* Dropping held posts with their bodies keeps the held list and the fast posts in step.
LEMMA FastPrunedHolds ==
    ASSUME NEW d, Sane(d), NEW e, NEW X, FastPruned(d, e), Holding(d, X)
    PROVE  Holding(e, X)
<1>1. e.verdict = d.verdict /\ e.held \subseteq d.held /\ e.fastKeys \subseteq d.fastKeys BY DEF FastPruned
<1>2. \A x : Verified(e, x) <=> Verified(d, x) BY <1>1 DEF Verified
<1>3. e.mail \subseteq d.mail
  <2> SUFFICES ASSUME NEW x \in e.mail PROVE x \in d.mail OBVIOUS
  <2>1. x \in Msgs /\ e.index[x] = "live" BY DbFields DEF FastPruned, Sane, IndexOk
  <2>2. d.index[x] = "live" BY <2>1 DEF FastPruned, Left
  <2> QED BY <2>1, <2>2 DEF Sane, IndexOk
<1>4. \A x \in e.mail \ X : IsFastPost(x) /\ ~Verified(e, x) => \E h \in e.held : h.m = x
  <2> SUFFICES ASSUME NEW x \in e.mail \ X, IsFastPost(x), ~Verified(e, x) PROVE \E h \in e.held : h.m = x OBVIOUS
  <2>1. PICK h \in d.held : h.m = x BY <1>2, <1>3 DEF Holding
  <2>2. h \in e.held BY <2>1 DEF FastPruned
  <2> QED BY <2>1, <2>2
<1> QED BY <1>1, <1>2, <1>3, <1>4 DEF Holding

\* What registering the posting key of m does.
Registered(d, e, m) ==
    /\ Sane(e) /\ e.claims = d.claims /\ e.receipts = d.receipts /\ e.polls = d.polls
    /\ \A x \in Msgs : Left(d, e, x)
    /\ \A x \in Msgs : \/ e.verdict[x] = d.verdict[x]
                       \/ IsFastPost(x) /\ KeyOf(x) = KeyOf(m) /\ e.verdict[x] = "verified"
    /\ \A r \in e.fastKeys : r \in d.fastKeys \/ (r.by = m /\ r.k = KeyOf(m) /\ r.null = Envelope[m].null)

\* register_fast_key verifies the posts that waited for the key and registers it once;
\* nothing else moves.
LEMMA RegisterIs ==
    ASSUME NEW d, Sane(d), NEW m \in Msgs, NEW t, NEW X, Holding(d, X), NEW e, e = RegisterFastKey(d, m, t)
    PROVE  Registered(d, e, m) /\ Holding(e, X)
<1> DEFINE W == {h \in d.held : h.k = KeyOf(m)}
           A == IF FastRegistration(d, m) # {} THEN d.fastKeys
                ELSE d.fastKeys \cup {[k |-> KeyOf(m), null |-> Envelope[m].null, by |-> m]}
           V == [x \in Msgs |-> IF Live(d, x) /\ x \in {h.m : h \in W} THEN "verified" ELSE d.verdict[x]]
           c == [d EXCEPT !.fastKeys = A, !.held = d.held \ W, !.verdict = V]
<1>1. CASE IsPoll(d, Envelope[m].to)
  <2>1. e = d BY <1>1 DEF RegisterFastKey
  <2> QED BY <2>1 DEF Registered, Left
<1>2. CASE ~IsPoll(d, Envelope[m].to)
  <2>1. e = PruneFast(c, t) BY <1>2 DEF RegisterFastKey
  <2>2. A \in SUBSET RegKeys
    <3>1. [k |-> KeyOf(m), null |-> Envelope[m].null, by |-> m] \in RegKeys BY EnvelopeIs DEF RegKeys
    <3>2. d.fastKeys \in SUBSET RegKeys BY DbFields DEF Sane
    <3> QED BY <3>1, <3>2
  <2>3. d.held \ W \in SUBSET HeldPosts BY DbFields DEF Sane
  <2>4. V \in [Msgs -> VerdictTags] /\ \A x \in Msgs : V[x] = IF Live(d, x) /\ x \in {h.m : h \in W} THEN "verified" ELSE d.verdict[x]
    BY DbFields DEF Sane, VerdictTags
  <2>5. c \in DBs /\ Refit(d, c, V, A, d.held \ W, d.regPending)
    <3> HIDE DEF A, V, W
    <3> QED BY <2>2, <2>3, <2>4, RefitAll DEF Sane
  <2>6. \A r \in A : r \in d.fastKeys \/ (r.by = m /\ r.k = KeyOf(m) /\ r.null = Envelope[m].null /\ FastRegistration(d, m) = {})
    OBVIOUS
  <2>7. \A r, s \in A : r.k = s.k => r = s
    <3>1. CASE FastRegistration(d, m) # {} BY <3>1 DEF Sane, OneKey
    <3>2. CASE FastRegistration(d, m) = {}
      <4>1. A = d.fastKeys \cup {[k |-> KeyOf(m), null |-> Envelope[m].null, by |-> m]} BY <3>2
      <4>2. \A r \in d.fastKeys : r.k # KeyOf(m) BY <3>2 DEF FastRegistration
      <4> QED BY <4>1, <4>2 DEF Sane, OneKey
    <3> QED BY <3>1, <3>2
  <2>8. \A h \in d.held \ W : h.k # KeyOf(m) OBVIOUS
  <2>9. \A h \in W : h \in d.held /\ h.k = KeyOf(m) OBVIOUS
  <2>10. \A x : x \in {h.m : h \in W} <=> \E h \in W : h.m = x OBVIOUS
  <2> HIDE DEF W, A, V
  <2>11. Sane(c)
    <3> HIDE DEF c
    <3> QED BY <2>5, <2>7, RefitSane
  <2> HIDE DEF c
  <2>12. FastPruned(c, e) BY <2>1, <2>11, PruneFastIs
  <2>13. \A x \in Msgs : c.verdict[x] = IF Live(d, x) /\ \E h \in W : h.m = x THEN "verified" ELSE d.verdict[x]
    BY <2>4, <2>5, <2>10 DEF Refit
  <2>14. \A h \in d.held : h.m \in Msgs BY DbFields DEF Sane, HeldPosts
  <2>15. \A h \in c.held : IsFastPost(h.m) /\ h.k = KeyOf(h.m) /\ (h.m \in c.mail \ X => ~Verified(c, h.m))
    <3> SUFFICES ASSUME NEW h \in c.held PROVE IsFastPost(h.m) /\ h.k = KeyOf(h.m) /\ (h.m \in c.mail \ X => ~Verified(c, h.m)) OBVIOUS
    <3>1. h \in d.held /\ h \notin W /\ c.mail = d.mail BY <2>5 DEF Refit
    <3>2. IsFastPost(h.m) /\ h.k = KeyOf(h.m) /\ (h.m \in d.mail \ X => ~Verified(d, h.m)) BY <3>1 DEF Holding
    <3>3. \A w \in W : w.m # h.m
      <4> SUFFICES ASSUME NEW w \in W, w.m = h.m PROVE FALSE OBVIOUS
      <4>1. w.k = KeyOf(h.m) BY <2>9 DEF Holding
      <4>2. h.k = KeyOf(m) BY <4>1, <3>2, <2>9
      <4> QED BY <4>2, <3>1, <2>8
    <3>4. c.verdict[h.m] = d.verdict[h.m] BY <2>13, <2>14, <3>1, <3>3
    <3> QED BY <3>1, <3>2, <3>4 DEF Verified
  <2>16. \A r \in c.fastKeys : \A h \in c.held : h.k # r.k
    <3> SUFFICES ASSUME NEW r \in c.fastKeys, NEW h \in c.held PROVE h.k # r.k OBVIOUS
    <3>1. r \in A /\ h \in d.held \ W BY <2>5 DEF Refit
    <3>2. CASE r \in d.fastKeys BY <3>1, <3>2 DEF Holding
    <3>3. CASE r.k = KeyOf(m) BY <3>1, <3>3, <2>8
    <3> QED BY <3>1, <3>2, <3>3, <2>6
  <2>17. \A x \in c.mail \ X : IsFastPost(x) /\ ~Verified(c, x) => \E h \in c.held : h.m = x
    <3> SUFFICES ASSUME NEW x \in c.mail \ X, IsFastPost(x), ~Verified(c, x) PROVE \E h \in c.held : h.m = x OBVIOUS
    <3>1. x \in d.mail /\ x \in Msgs /\ c.held = d.held \ W BY <2>5, DbFields DEF Refit, Sane
    <3>2. ~Verified(d, x) /\ ~(Live(d, x) /\ \E h \in W : h.m = x) BY <3>1, <2>13 DEF Verified
    <3>3. PICK h \in d.held : h.m = x BY <3>1, <3>2 DEF Holding
    <3>4. Live(d, x) BY <3>1 DEF Sane, IndexOk, Live
    <3>5. h \in c.held BY <3>1, <3>2, <3>3, <3>4
    <3> QED BY <3>3, <3>5
  <2>18. Holding(c, X) BY <2>15, <2>16, <2>17 DEF Holding
  <2>19. Holding(e, X) BY <2>11, <2>12, <2>18, FastPrunedHolds
  <2>20. \A x \in Msgs : Left(d, e, x)
    <3>1. c.index = d.index /\ \A h \in c.held : h \in d.held BY <2>5 DEF Refit
    <3>2. \A x \in Msgs : Left(c, e, x) BY <2>12 DEF FastPruned
    <3> QED BY <3>1, <3>2 DEF Left
  <2>21. ASSUME NEW x \in Msgs
         PROVE  e.verdict[x] = d.verdict[x] \/ (IsFastPost(x) /\ KeyOf(x) = KeyOf(m) /\ e.verdict[x] = "verified")
    <3>1. e.verdict = c.verdict BY <2>12 DEF FastPruned
    <3>2. CASE \E h \in W : h.m = x
      <4>1. PICK h \in W : h.m = x BY <3>2
      <4>2. IsFastPost(x) /\ KeyOf(x) = KeyOf(m) BY <4>1, <2>9 DEF Holding
      <4> QED BY <4>2, <3>1, <2>13
    <3>3. CASE ~\E h \in W : h.m = x BY <3>1, <3>3, <2>13
    <3> QED BY <3>2, <3>3
  <2>22. \A r \in e.fastKeys : r \in d.fastKeys \/ (r.by = m /\ r.k = KeyOf(m) /\ r.null = Envelope[m].null)
    BY <2>5, <2>6, <2>12 DEF FastPruned, Refit
  <2>23. e.claims = d.claims /\ e.receipts = d.receipts /\ e.polls = d.polls /\ Sane(e) BY <2>5, <2>12 DEF FastPruned, Refit
  <2>24. Registered(d, e, m) BY <2>20, <2>21, <2>22, <2>23 DEF Registered
  <2> QED BY <2>19, <2>24
<1> QED BY <1>1, <1>2

-----------------------------------------------------------------------------
\* The verdicts set_anon_verdict is called with.
Verdicts == {"pending", "verified", "failed", "unknown"}
\* What may happen to the index entry of x when m gets verdict v.
Judged(d, e, m, v, x) ==
    \/ e.index[x] = d.index[x]
    \/ d.index[x] = "live" /\ e.index[x] \in {"none", "burned"} /\ v # "pending" /\ \E h \in d.held : h.m = x
    \/ d.index[x] = "live" /\ x = m /\ v = "failed" /\ e.index[x] = "burned"
    \/ d.index[x] = "live" /\ x = m /\ v = "unknown" /\ e.index[x] = "none"
VerdictOf(d, e, m, v, x) ==
    \/ e.verdict[x] = IF x = m THEN v ELSE d.verdict[x]
    \/ v = "verified" /\ IsFastPost(x) /\ KeyOf(x) = KeyOf(m) /\ e.verdict[x] = "verified"
VerdictSet(d, e, m, v) ==
    /\ Sane(e) /\ e.claims = d.claims /\ e.receipts = d.receipts /\ e.polls = d.polls
    /\ \A x \in Msgs : Judged(d, e, m, v, x)
    /\ \A x \in Msgs : VerdictOf(d, e, m, v, x)
    /\ \A r \in e.fastKeys : r \in d.fastKeys \/ (v = "verified" /\ r.by = m /\ r.k = KeyOf(m) /\ r.null = Envelope[m].null)
    /\ v = "failed" /\ m \in d.mail => e.index[m] = "burned"
    /\ v = "pending" => e.fastKeys = d.fastKeys

\* The store with another verdict on m.
WithVerdict(d, m, v) == [d EXCEPT !.verdict[m] = v]

\* Writing one verdict changes that verdict alone.
LEMMA VerdictOnly ==
    ASSUME NEW d, Sane(d), NEW m \in Msgs, NEW v \in VerdictTags, NEW e, e = WithVerdict(d, m, v)
    PROVE  /\ Sane(e) /\ Refit(d, e, e.verdict, d.fastKeys, d.held, d.regPending)
           /\ \A x \in Msgs : e.verdict[x] = IF x = m THEN v ELSE d.verdict[x]
<1> DEFINE V == [d.verdict EXCEPT ![m] = v]
<1>1. V \in [Msgs -> VerdictTags] /\ \A x \in Msgs : V[x] = IF x = m THEN v ELSE d.verdict[x] BY DbFields DEF Sane
<1>2. e = [d EXCEPT !.verdict = V] BY DEF WithVerdict
<1> HIDE DEF V
<1>3. e \in DBs /\ Refit(d, e, V, d.fastKeys, d.held, d.regPending) BY <1>1, <1>2, RefitVerdict DEF Sane
<1>4. Sane(e)
  <2>1. \A r, s \in d.fastKeys : r.k = s.k => r = s BY DEF Sane, OneKey
  <2> QED BY <2>1, <1>3, RefitSane
<1>5. e.verdict = V BY <1>3 DEF Refit
<1> QED BY <1>1, <1>3, <1>4, <1>5

\* The held list and the fast posts stay in step when no verdict of a fast post changes.
LEMMA RefitHolds ==
    ASSUME NEW d, NEW e, NEW X, NEW G, Refit(d, e, e.verdict, d.fastKeys, d.held, G), Holding(d, X),
           d.held \in SUBSET HeldPosts, d.mail \in SUBSET Msgs,
           \A x \in Msgs : IsFastPost(x) /\ x \notin X => e.verdict[x] = d.verdict[x]
    PROVE  Holding(e, X)
<1>1. \A h \in d.held : h.m \in Msgs BY DEF HeldPosts
<1>2. e.mail = d.mail /\ e.held = d.held /\ e.fastKeys = d.fastKeys BY DEF Refit
<1>3. \A x \in Msgs : IsFastPost(x) /\ x \notin X => (Verified(e, x) <=> Verified(d, x)) BY DEF Verified
<1> QED BY <1>1, <1>2, <1>3 DEF Holding

-----------------------------------------------------------------------------
(* Tmail: what a verdict does.                                               *)

\* The verdict recorded and the posting key settled, before a refused post goes.
Settled(d, e, m, v) ==
    /\ Sane(e) /\ e.claims = d.claims /\ e.receipts = d.receipts /\ e.polls = d.polls
    /\ \A x \in Msgs : Left(d, e, x)
    /\ \A x \in Msgs : VerdictOf(d, e, m, v, x)
    /\ \A r \in e.fastKeys : r \in d.fastKeys \/ (v = "verified" /\ r.by = m /\ r.k = KeyOf(m) /\ r.null = Envelope[m].null)
    /\ v = "pending" => e.fastKeys = d.fastKeys /\ e.index = d.index

\* Writing the pending registrations keeps a store well formed.
LEMMA PendingSet ==
    ASSUME NEW d, Sane(d), NEW G \in SUBSET PostingKeys, NEW e, e = [d EXCEPT !.regPending = G]
    PROVE  Sane(e) /\ Refit(d, e, d.verdict, d.fastKeys, d.held, G)
<1>1. e \in DBs /\ Refit(d, e, d.verdict, d.fastKeys, d.held, G) BY RefitPending DEF Sane
<1>2. \A r, s \in d.fastKeys : r.k = s.k => r = s BY DEF Sane, OneKey
<1> QED BY <1>1, <1>2, RefitSane

\* A verdict with no registration to follow it is settled.
LEMMA SettledRefit ==
    ASSUME NEW d, NEW e, Sane(e), NEW m \in Msgs, NEW v, NEW V, NEW G, Refit(d, e, V, d.fastKeys, d.held, G),
           \A x \in Msgs : V[x] = IF x = m THEN v ELSE d.verdict[x]
    PROVE  Settled(d, e, m, v)
BY DEF Settled, Refit, Left, VerdictOf

\* A refusal settles the key by dropping the posts that waited for it.
LEMMA SettledPruned ==
    ASSUME NEW d, NEW c, NEW e, NEW m \in Msgs, NEW v \in {"failed", "unknown"}, NEW V, NEW G, Refit(d, c, V, d.fastKeys, d.held, G),
           \A x \in Msgs : V[x] = IF x = m THEN v ELSE d.verdict[x], FastPruned(c, e)
    PROVE  Settled(d, e, m, v)
<1>1. \A x \in Msgs : Left(d, e, x)
  <2>1. c.index = d.index /\ c.held = d.held BY DEF Refit
  <2> QED BY <2>1 DEF FastPruned, Left
<1>2. \A x \in Msgs : VerdictOf(d, e, m, v, x) BY DEF FastPruned, Refit, VerdictOf
<1>3. \A r \in e.fastKeys : r \in d.fastKeys BY DEF FastPruned, Refit
<1>4. Sane(e) /\ e.claims = d.claims /\ e.receipts = d.receipts /\ e.polls = d.polls BY DEF FastPruned, Refit
<1> QED BY <1>1, <1>2, <1>3, <1>4 DEF Settled

\* A good proof settles the key by registering it.
LEMMA SettledRegistered ==
    ASSUME NEW d, NEW c, NEW e, NEW m \in Msgs, IsProof(m), NEW V, NEW G, Refit(d, c, V, d.fastKeys, d.held, G),
           \A x \in Msgs : V[x] = IF x = m THEN "verified" ELSE d.verdict[x], Registered(c, e, m)
    PROVE  Settled(d, e, m, "verified")
<1>1. \A x \in Msgs : Left(d, e, x)
  <2>1. c.index = d.index /\ c.held = d.held BY DEF Refit
  <2> QED BY <2>1 DEF Registered, Left
<1>2. \A x \in Msgs : VerdictOf(d, e, m, "verified", x) BY DEF Registered, Refit, VerdictOf
<1>3. \A r \in e.fastKeys : r \in d.fastKeys \/ (r.by = m /\ r.k = KeyOf(m) /\ r.null = Envelope[m].null) BY DEF Registered, Refit
<1>4. Sane(e) /\ e.claims = d.claims /\ e.receipts = d.receipts /\ e.polls = d.polls BY DEF Registered, Refit
<1> QED BY <1>1, <1>2, <1>3, <1>4 DEF Settled

\* The refused post goes after its key is settled: with a tombstone if it failed, without
\* one if its root was unknown.
LEMMA SettledCut ==
    ASSUME NEW d, Sane(d), NEW c, NEW e, NEW m \in Msgs, NEW v \in {"failed", "unknown"}, Settled(d, c, m, v), NEW t, NEW F,
           Thinned(c, e, t, F), IsProof(m), NEW X, Holding(d, X),
           \A x \in Msgs : e.index[x] = IF x \in {m} /\ x \in c.mail THEN (IF v = "failed" THEN "burned" ELSE "none") ELSE c.index[x]
    PROVE  VerdictSet(d, e, m, v)
<1>1. \A x \in Msgs : Judged(d, e, m, v, x)
  <2> SUFFICES ASSUME NEW x \in Msgs PROVE Judged(d, e, m, v, x) OBVIOUS
  <2>1. Left(d, c, x) BY DEF Settled
  <2>2. CASE x = m /\ x \in c.mail
    <3>1. c.index[x] = "live" BY <2>2 DEF Settled, Sane, IndexOk
    <3>2. d.index[x] = "live" BY <2>1, <3>1 DEF Left
    <3>3. e.index[x] = IF v = "failed" THEN "burned" ELSE "none" BY <2>2
    <3> QED BY <3>2, <3>3, <2>2 DEF Judged
  <2>3. CASE ~(x = m /\ x \in c.mail)
    <3>1. e.index[x] = c.index[x] BY <2>3
    <3> QED BY <3>1, <2>1 DEF Left, Judged
  <2> QED BY <2>2, <2>3
<1>2. SameRest(c, e) /\ Sane(e) BY DEF Thinned
<1>3. \A x \in Msgs : VerdictOf(d, e, m, v, x) BY <1>2 DEF Settled, VerdictOf, SameRest
<1>4. \A r \in e.fastKeys : r \in d.fastKeys BY <1>2 DEF Settled, SameRest
<1>5. e.claims = d.claims /\ e.receipts = d.receipts /\ e.polls = d.polls BY <1>2 DEF Settled, SameRest
<1>6. v = "failed" /\ m \in d.mail => e.index[m] = "burned"
  <2> SUFFICES ASSUME v = "failed", m \in d.mail PROVE e.index[m] = "burned" OBVIOUS
  <2>1. d.index[m] = "live" BY DEF Sane, IndexOk
  <2>2. \A h \in d.held : h.m # m BY KindIs DEF Holding
  <2>3. c.index[m] = "live" BY <2>1, <2>2 DEF Settled, Left
  <2>4. m \in c.mail BY <2>3 DEF Settled, Sane, IndexOk
  <2> QED BY <2>4
<1> QED BY <1>1, <1>2, <1>3, <1>4, <1>5, <1>6 DEF VerdictSet

\* A pending or verified post stays.
LEMMA SettledKept ==
    ASSUME NEW d, NEW e, NEW m \in Msgs, NEW v \in {"pending", "verified"}, Settled(d, e, m, v)
    PROVE  VerdictSet(d, e, m, v)
<1>1. \A x \in Msgs : Judged(d, e, m, v, x) BY DEF Settled, Left, Judged
<1> QED BY <1>1 DEF Settled, VerdictSet

\* set_anon_verdict as a whole: who may leave, whose verdict changes, which key appears.
LEMMA VerdictIs ==
    ASSUME NEW d, Sane(d), NEW m \in Msgs, IsProof(m), NEW v \in Verdicts, NEW t, NEW X, Holding(d, X),
           NEW e, e = SetAnonVerdict(d, m, v, t)
    PROVE  VerdictSet(d, e, m, v) /\ Holding(e, X)
<1> DEFINE d1 == [d EXCEPT !.verdict[m] = v]
           st == [d1 EXCEPT !.regPending = @ \ {KeyOf(m)}]
           pn == [d1 EXCEPT !.regPending = @ \cup {KeyOf(m)}]
           d2 == CASE ~(Live(d, m) /\ Envelope[m].kind = "proof") -> d1
                   [] Live(d, m) /\ Envelope[m].kind = "proof" /\ v = "pending" -> pn
                   [] Live(d, m) /\ Envelope[m].kind = "proof" /\ v = "verified" -> RegisterFastKey(st, m, t)
                   [] OTHER -> DropFastPending(st, m, v = "failed")
<1>1. e = CASE v = "failed" -> DeleteByMsgId(d2, {m}) [] v = "unknown" -> ForgetByMsgId(d2, {m}) [] OTHER -> d2
  BY DEF SetAnonVerdict
<1>2. /\ Sane(d1) /\ Refit(d, d1, d1.verdict, d.fastKeys, d.held, d.regPending)
      /\ \A x \in Msgs : d1.verdict[x] = IF x = m THEN v ELSE d.verdict[x]
  <2>1. v \in VerdictTags BY DEF Verdicts, VerdictTags
  <2>2. PICK q : q = WithVerdict(d, m, v) OBVIOUS
  <2>3. /\ Sane(q) /\ Refit(d, q, q.verdict, d.fastKeys, d.held, d.regPending)
        /\ \A x \in Msgs : q.verdict[x] = IF x = m THEN v ELSE d.verdict[x] BY <2>1, <2>2, VerdictOnly
  <2>4. d1 = q BY <2>2 DEF WithVerdict
  <2> HIDE DEF d1
  <2> QED BY <2>3, <2>4
<1>3. \/ d2 = d1
      \/ v = "pending" /\ d2 = pn
      \/ v = "verified" /\ d2 = RegisterFastKey(st, m, t)
      \/ v \in {"failed", "unknown"} /\ d2 = DropFastPending(st, m, v = "failed")
  <2>1. v \in {"pending", "verified", "failed", "unknown"} BY DEF Verdicts
  <2> HIDE DEF d1, st, pn
  <2> QED BY <2>1
<1>4. st = [d1 EXCEPT !.regPending = d1.regPending \ {KeyOf(m)}] /\ pn = [d1 EXCEPT !.regPending = d1.regPending \cup {KeyOf(m)}]
  OBVIOUS
<1> HIDE DEF d1, st, pn, d2
<1>5. d1.regPending \ {KeyOf(m)} \in SUBSET PostingKeys /\ d1.regPending \cup {KeyOf(m)} \in SUBSET PostingKeys
  <2>1. d1.regPending \in SUBSET PostingKeys BY <1>2, DbFields DEF Sane
  <2> QED BY <2>1, EnvelopeIs
<1>6. Sane(st) /\ Refit(d1, st, d1.verdict, d1.fastKeys, d1.held, d1.regPending \ {KeyOf(m)}) BY <1>2, <1>4, <1>5, PendingSet
<1>7. Sane(pn) /\ Refit(d1, pn, d1.verdict, d1.fastKeys, d1.held, d1.regPending \cup {KeyOf(m)}) BY <1>2, <1>4, <1>5, PendingSet
<1>8. Refit(d, st, d1.verdict, d.fastKeys, d.held, st.regPending) BY <1>2, <1>6 DEF Refit
<1>9. Refit(d, pn, d1.verdict, d.fastKeys, d.held, pn.regPending) BY <1>2, <1>7 DEF Refit
<1>10. \A x \in Msgs : IsFastPost(x) /\ x \notin X => d1.verdict[x] = d.verdict[x] BY <1>2, KindIs
<1>11. d.held \in SUBSET HeldPosts /\ d.mail \in SUBSET Msgs BY DbFields DEF Sane
<1>12. Holding(d1, X) BY <1>2, <1>10, <1>11, RefitHolds
<1>13. Holding(st, X)
  <2>1. st.verdict = d1.verdict BY <1>8 DEF Refit
  <2> QED BY <2>1, <1>8, <1>10, <1>11, RefitHolds
<1>14. Holding(pn, X)
  <2>1. pn.verdict = d1.verdict BY <1>9 DEF Refit
  <2> QED BY <2>1, <1>9, <1>10, <1>11, RefitHolds
<1>15. Settled(d, d2, m, v) /\ Holding(d2, X)
  <2>1. CASE d2 = d1 BY <2>1, <1>2, <1>12, SettledRefit
  <2>2. CASE v = "pending" /\ d2 = pn BY <2>2, <1>2, <1>7, <1>9, <1>14, SettledRefit
  <2>3. CASE v = "verified" /\ d2 = RegisterFastKey(st, m, t)
    <3>1. Registered(st, d2, m) /\ Holding(d2, X) BY <2>3, <1>6, <1>13, RegisterIs
    <3>2. Settled(d, d2, m, "verified") BY <3>1, <2>3, <1>2, <1>8, SettledRegistered
    <3> QED BY <3>1, <3>2, <2>3
  <2>4. CASE v \in {"failed", "unknown"} /\ d2 = DropFastPending(st, m, v = "failed")
    <3>1. FastPruned(st, d2) BY <2>4, <1>6, DropFastIs
    <3>2. Holding(d2, X) BY <3>1, <1>6, <1>13, FastPrunedHolds
    <3>3. Settled(d, d2, m, v) BY <3>1, <2>4, <1>2, <1>8, SettledPruned
    <3> QED BY <3>2, <3>3
  <2> QED BY <1>3, <2>1, <2>2, <2>3, <2>4
<1>16. Sane(d2) BY <1>15 DEF Settled
<1>17. CASE v = "failed"
  <2>0. PICK M : M = {m} OBVIOUS
  <2>1. e = DeleteByMsgId(d2, M) BY <1>1, <1>17, <2>0
  <2>5. /\ Thinned(d2, e, t, {})
        /\ \A x \in Msgs : e.index[x] = IF x \in M /\ x \in d2.mail THEN "burned" ELSE d2.index[x] BY <2>1, <1>16, DeleteThins
  <2>2. /\ Thinned(d2, e, t, {})
        /\ \A x \in Msgs : e.index[x] = IF x \in {m} /\ x \in d2.mail THEN "burned" ELSE d2.index[x] BY <2>0, <2>5
  <2>3. VerdictSet(d, e, m, v) BY <2>2, <1>15, <1>17, SettledCut
  <2>4. Holding(e, X) BY <2>2, <1>15, ThinnedHolds
  <2> QED BY <2>3, <2>4
<1>18. CASE v = "unknown"
  <2>0. PICK M : M = {m} OBVIOUS
  <2>1. e = ForgetByMsgId(d2, M) BY <1>1, <1>18, <2>0
  <2>5. /\ Thinned(d2, e, t, M)
        /\ \A x \in Msgs : e.index[x] = IF x \in M /\ x \in d2.mail THEN "none" ELSE d2.index[x] BY <2>1, <1>16, ForgetThins
  <2>2. /\ Thinned(d2, e, t, {m})
        /\ \A x \in Msgs : e.index[x] = IF x \in {m} /\ x \in d2.mail THEN "none" ELSE d2.index[x] BY <2>0, <2>5
  <2>3. VerdictSet(d, e, m, v) BY <2>2, <1>15, <1>18, SettledCut
  <2>4. Holding(e, X) BY <2>2, <1>15, ThinnedHolds
  <2> QED BY <2>3, <2>4
<1>19. CASE v \in {"pending", "verified"}
  <2>1. e = d2 BY <1>1, <1>19
  <2> QED BY <2>1, <1>15, <1>19, SettledKept
<1> QED BY <1>17, <1>18, <1>19 DEF Verdicts

-----------------------------------------------------------------------------
(* Tmail: retention.                                                         *)

\* A named conversation, the posts of a board, and the bounds on both.
Talk(M, m) == {x \in M : ~Anonymous(x) /\ Envelope[x].to = Envelope[m].to /\ Envelope[x].from = Envelope[m].from}
Posts(M, w) == {x \in M : Envelope[x].to = w /\ Anonymous(x)}
Bounded(M, P) ==
    /\ \A m \in M : ~Anonymous(m) => Cardinality(Talk(M, m)) <= RetainNamed
    /\ \A w \in Boards \ P : Cardinality(Posts(M, w)) <= RetainAnon

\* The conversation of a message: its sender, a daily identity, or the message alone.
LEMMA KeyIs ==
    ASSUME NEW d, NEW x \in Msgs
    PROVE  /\ ~Anonymous(x) => ConversationKey(d, x) = <<"named", Envelope[x].from>>
           /\ Anonymous(x) => \/ \E n : ConversationKey(d, x) = <<"anonymous", n>>
                              \/ ConversationKey(d, x) = <<"unverified", x>>
<1>1. CASE Envelope[x].kind = "named" BY <1>1 DEF ConversationKey, Anonymous, IsFastPost
<1>2. CASE Envelope[x].kind = "proof" /\ Verified(d, x)
  <2>1. ConversationKey(d, x) = <<"anonymous", Envelope[x].null>> BY <1>2 DEF ConversationKey, IsFastPost
  <2> QED BY <1>2, <2>1 DEF Anonymous
<1>3. CASE Envelope[x].kind = "proof" /\ ~Verified(d, x)
  <2>1. ConversationKey(d, x) = <<"unverified", x>> BY <1>3 DEF ConversationKey, IsFastPost
  <2> QED BY <1>3, <2>1 DEF Anonymous
<1>4. CASE IsFastPost(x) /\ FastRegistration(d, x) # {}
  <2>1. ConversationKey(d, x) = <<"anonymous", (CHOOSE r \in FastRegistration(d, x) : TRUE).null>> BY <1>4 DEF ConversationKey, IsFastPost
  <2> QED BY <1>4, <2>1 DEF Anonymous, IsFastPost
<1>5. CASE IsFastPost(x) /\ FastRegistration(d, x) = {}
  <2>1. ConversationKey(d, x) = <<"unverified", x>> BY <1>5 DEF ConversationKey, IsFastPost
  <2> QED BY <1>5, <2>1 DEF Anonymous, IsFastPost
<1> QED BY <1>1, <1>2, <1>3, <1>4, <1>5, EnvelopeIs DEF IsFastPost

\* Two messages share a named conversation when both are named and from one sender.
LEMMA SameTalk ==
    ASSUME NEW d, NEW x \in Msgs, NEW m \in Msgs, ~Anonymous(m)
    PROVE  ConversationKey(d, x) = ConversationKey(d, m) <=> ~Anonymous(x) /\ Envelope[x].from = Envelope[m].from
<1>1. ConversationKey(d, m) = <<"named", Envelope[m].from>> BY KeyIs
<1>2. CASE ~Anonymous(x)
  <2>1. ConversationKey(d, x) = <<"named", Envelope[x].from>> BY <1>2, KeyIs
  <2> QED BY <1>1, <1>2, <2>1
<1>3. CASE Anonymous(x)
  <2>1. ConversationKey(d, x)[1] \in {"anonymous", "unverified"} BY <1>3, KeyIs
  <2> QED BY <1>1, <1>3, <2>1
<1> QED BY <1>2, <1>3

\* The rows retention counts for a named message are those of its sender.
LEMMA TalkIs ==
    ASSUME NEW d, NEW M \in SUBSET Msgs, NEW m \in Msgs, ~Anonymous(m)
    PROVE  {x \in M : Envelope[x].to = Envelope[m].to /\ ConversationKey(d, x) = ConversationKey(d, m)} = Talk(M, m)
<1>1. \A x \in M : ConversationKey(d, x) = ConversationKey(d, m) <=> ~Anonymous(x) /\ Envelope[x].from = Envelope[m].from BY SameTalk
<1> QED BY <1>1 DEF Talk

\* The bounds on the messages are the retention bounds.
LEMMA BoundsAre ==
    ASSUME mdb \in DBs
    PROVE  RetentionBounds <=> Bounded(mdb.mail, mdb.polls)
<1>1. mdb.mail \in SUBSET Msgs BY DbFields
<1>2. \A m \in mdb.mail : ~Anonymous(m) =>
        {x \in mdb.mail : Envelope[x].to = Envelope[m].to /\ ConversationKey(mdb, x) = ConversationKey(mdb, m)} = Talk(mdb.mail, m)
  BY <1>1, TalkIs
<1> QED BY <1>2, Zenon DEF RetentionBounds, Bounded, Posts

\* A part of a bounded set is bounded.
LEMMA SmallerSet ==
    ASSUME NEW S \in SUBSET Msgs, NEW T \in SUBSET S, NEW k \in Nat, Cardinality(S) <= k
    PROVE  Cardinality(T) <= k /\ IsFiniteSet(T) /\ Cardinality(T) \in Nat /\ IsFiniteSet(S) /\ Cardinality(S) \in Nat
<1>1. IsFiniteSet(S) /\ Cardinality(S) \in Nat BY TmSets, FS_Subset, FS_CardinalityType
<1>2. IsFiniteSet(T) /\ Cardinality(T) <= Cardinality(S) BY <1>1, FS_Subset
<1>3. Cardinality(T) \in Nat BY <1>2, FS_CardinalityType
<1> QED BY <1>1, <1>2, <1>3

\* Fewer messages and more polls keep the bounds.
LEMMA BoundedLess ==
    ASSUME NEW M \in SUBSET Msgs, NEW N \in SUBSET M, NEW P, NEW Q, P \subseteq Q, Bounded(M, P)
    PROVE  Bounded(N, Q)
<1>1. ASSUME NEW m \in N, ~Anonymous(m) PROVE Cardinality(Talk(N, m)) <= RetainNamed
  <2>1. Talk(M, m) \in SUBSET Msgs /\ Talk(N, m) \in SUBSET Talk(M, m) BY DEF Talk
  <2>2. Cardinality(Talk(M, m)) <= RetainNamed BY <1>1 DEF Bounded
  <2> QED BY <2>1, <2>2, SmallerSet, TmNats
<1>2. ASSUME NEW w \in Boards \ Q PROVE Cardinality(Posts(N, w)) <= RetainAnon
  <2>1. Posts(M, w) \in SUBSET Msgs /\ Posts(N, w) \in SUBSET Posts(M, w) BY DEF Posts
  <2>2. Cardinality(Posts(M, w)) <= RetainAnon BY <1>2 DEF Bounded
  <2> QED BY <2>1, <2>2, SmallerSet, TmNats
<1> QED BY <1>1, <1>2 DEF Bounded

-----------------------------------------------------------------------------
\* What enforce_retention and enforce_anonymous_cap count, and what they find too many.
Rows(d, w, g) == {x \in d.mail : Envelope[x].to = w /\ ConversationKey(d, x) = g}
Quota(g) == IF g[1] = "named" THEN RetainNamed ELSE RetainDaily
Excess(R, k) == {x \in R : Cardinality({y \in R : Newer(y, x)}) >= k}
Earlier(d, y, x) == \/ Verified(d, y) /\ ~Verified(d, x)
                    \/ Verified(d, y) = Verified(d, x) /\ Newer(y, x)
OverCap(d, R) == {x \in R : Cardinality({y \in R : Earlier(d, y, x)}) >= RetainAnon}

\* enforce_retention drops what is too much for its conversation.
LEMMA RetentionIs == ASSUME NEW d, NEW w, NEW g PROVE EnforceRetention(d, w, g) = Retire(d, Excess(Rows(d, w, g), Quota(g)))
BY DEF EnforceRetention, Excess, Rows, Quota

\* enforce_anonymous_cap drops what is too much for a board that is not a poll.
LEMMA CapIs ==
    ASSUME NEW d, NEW w
    PROVE  EnforceAnonymousCap(d, w) = IF IsPoll(d, w) THEN d ELSE Retire(d, OverCap(d, Posts(d.mail, w)))
BY DEF EnforceAnonymousCap, OverCap, Posts, Earlier

\* The order of retention as a set of pairs.
NewerPairs == {p \in Msgs \X Msgs : Newer(p[1], p[2])}

\* Newest first orders every set of messages.
LEMMA NewerOrdered == ASSUME NEW R \in SUBSET Msgs PROVE Ordered(NewerPairs, R)
<1>1. \A x, y \in Msgs : <<x, y>> \in NewerPairs <=> Newer(x, y) BY DEF NewerPairs
<1>2. \A x \in R : <<x, x>> \notin NewerPairs BY <1>1, NewerOrder
<1>3. ASSUME NEW x \in R, NEW y \in R, NEW z \in R, <<x, y>> \in NewerPairs, <<y, z>> \in NewerPairs PROVE <<x, z>> \in NewerPairs
  <2>1. Newer(x, y) /\ Newer(y, z) BY <1>1, <1>3
  <2>2. Newer(x, z) BY <2>1, NewerOrder
  <2> QED BY <2>2, <1>1
<1>4. \A x, y \in R : x # y => <<x, y>> \in NewerPairs \/ <<y, x>> \in NewerPairs BY <1>1, NewerOrder
<1> QED BY <1>2, <1>3, <1>4 DEF Ordered

\* The order of the cap as a set of pairs.
EarlierPairs(d) == {p \in Msgs \X Msgs : Earlier(d, p[1], p[2])}

\* Verified first, then newest, is a strict total order.
LEMMA EarlierOrder ==
    ASSUME NEW d, NEW a \in Msgs, NEW b \in Msgs, NEW c \in Msgs
    PROVE  /\ ~Earlier(d, a, a) /\ (Earlier(d, a, b) /\ Earlier(d, b, c) => Earlier(d, a, c))
           /\ (a # b => Earlier(d, a, b) \/ Earlier(d, b, a)) /\ ~(Earlier(d, a, b) /\ Earlier(d, b, a))
<1>1. /\ ~Newer(a, a) /\ (Newer(a, b) /\ Newer(b, c) => Newer(a, c))
      /\ (a # b => Newer(a, b) \/ Newer(b, a)) /\ ~(Newer(a, b) /\ Newer(b, a)) BY NewerOrder
<1>2. Verified(d, a) \in BOOLEAN /\ Verified(d, b) \in BOOLEAN /\ Verified(d, c) \in BOOLEAN BY DEF Verified
<1> QED BY <1>1, <1>2 DEF Earlier

\* The order of the cap orders every set of messages.
LEMMA EarlierOrdered == ASSUME NEW d, NEW R \in SUBSET Msgs PROVE Ordered(EarlierPairs(d), R)
<1>1. \A x, y \in Msgs : <<x, y>> \in EarlierPairs(d) <=> Earlier(d, x, y) BY DEF EarlierPairs
<1>2. \A x \in R : <<x, x>> \notin EarlierPairs(d) BY <1>1, EarlierOrder
<1>3. ASSUME NEW x \in R, NEW y \in R, NEW z \in R, <<x, y>> \in EarlierPairs(d), <<y, z>> \in EarlierPairs(d) PROVE <<x, z>> \in EarlierPairs(d)
  <2>1. Earlier(d, x, y) /\ Earlier(d, y, z) BY <1>1, <1>3
  <2>2. Earlier(d, x, z) BY <2>1, EarlierOrder
  <2> QED BY <2>2, <1>1
<1>4. \A x, y \in R : x # y => <<x, y>> \in EarlierPairs(d) \/ <<y, x>> \in EarlierPairs(d) BY <1>1, EarlierOrder
<1> QED BY <1>2, <1>3, <1>4 DEF Ordered

\* Retention leaves at most the quota.
LEMMA ExcessLeaves ==
    ASSUME NEW R \in SUBSET Msgs, NEW k \in Nat
    PROVE  Cardinality(R \ Excess(R, k)) <= k
<1>1. IsFiniteSet(R) BY TmSets, FS_Subset
<1>2. Ordered(NewerPairs, R) BY NewerOrdered
<1>3. Cardinality({x \in R : Cardinality({y \in R : <<y, x>> \in NewerPairs}) < k}) <= k BY <1>1, <1>2, FewFirst
<1>4. \A x \in R : {y \in R : <<y, x>> \in NewerPairs} = {y \in R : Newer(y, x)} BY DEF NewerPairs
<1>5. \A x \in R : Cardinality({y \in R : Newer(y, x)}) \in Nat
  <2> SUFFICES ASSUME NEW x \in R PROVE Cardinality({y \in R : Newer(y, x)}) \in Nat OBVIOUS
  <2>1. {y \in R : Newer(y, x)} \in SUBSET R OBVIOUS
  <2> QED BY <2>1, <1>1, FS_Subset, FS_CardinalityType
<1>6. R \ Excess(R, k) = {x \in R : Cardinality({y \in R : <<y, x>> \in NewerPairs}) < k}
  <2>1. ASSUME NEW x \in R PROVE x \in Excess(R, k) <=> ~(Cardinality({y \in R : <<y, x>> \in NewerPairs}) < k)
    <3>1. PICK S : S = {y \in R : Newer(y, x)} OBVIOUS
    <3>2. x \in Excess(R, k) <=> Cardinality(S) >= k BY <3>1 DEF Excess
    <3>3. Cardinality(S) \in Nat BY <3>1, <1>5
    <3>4. {y \in R : <<y, x>> \in NewerPairs} = S BY <3>1, <1>4
    <3>5. x \in Excess(R, k) <=> ~(Cardinality(S) < k) BY <3>2, <3>3
    <3> QED BY <3>4, <3>5, Zenon
  <2> QED BY <2>1
<1> QED BY <1>3, <1>6

\* The cap leaves at most RetainAnon posts.
LEMMA OverCapLeaves ==
    ASSUME NEW d, NEW R \in SUBSET Msgs
    PROVE  Cardinality(R \ OverCap(d, R)) <= RetainAnon
<1>1. IsFiniteSet(R) /\ RetainAnon \in Nat BY TmSets, TmNats, FS_Subset
<1>2. Ordered(EarlierPairs(d), R) BY EarlierOrdered
<1>3. Cardinality({x \in R : Cardinality({y \in R : <<y, x>> \in EarlierPairs(d)}) < RetainAnon}) <= RetainAnon BY <1>1, <1>2, FewFirst
<1>4. \A x \in R : {y \in R : <<y, x>> \in EarlierPairs(d)} = {y \in R : Earlier(d, y, x)} BY DEF EarlierPairs
<1>5. \A x \in R : Cardinality({y \in R : Earlier(d, y, x)}) \in Nat
  <2> SUFFICES ASSUME NEW x \in R PROVE Cardinality({y \in R : Earlier(d, y, x)}) \in Nat OBVIOUS
  <2>1. {y \in R : Earlier(d, y, x)} \in SUBSET R OBVIOUS
  <2> QED BY <2>1, <1>1, FS_Subset, FS_CardinalityType
<1>6. R \ OverCap(d, R) = {x \in R : Cardinality({y \in R : <<y, x>> \in EarlierPairs(d)}) < RetainAnon}
  <2>1. ASSUME NEW x \in R PROVE x \in OverCap(d, R) <=> ~(Cardinality({y \in R : <<y, x>> \in EarlierPairs(d)}) < RetainAnon)
    <3>1. PICK S : S = {y \in R : Earlier(d, y, x)} OBVIOUS
    <3>2. x \in OverCap(d, R) <=> Cardinality(S) >= RetainAnon BY <3>1 DEF OverCap
    <3>3. Cardinality(S) \in Nat BY <3>1, <1>5
    <3>4. {y \in R : <<y, x>> \in EarlierPairs(d)} = S BY <3>1, <1>4
    <3>5. x \in OverCap(d, R) <=> ~(Cardinality(S) < RetainAnon) BY <3>2, <3>3, <1>1
    <3> QED BY <3>4, <3>5, Zenon
  <2> QED BY <2>1
<1> QED BY <1>3, <1>6

\* The inserts add the row and the live entry of one message.
LEMMA InsertIs ==
    ASSUME NEW d, Sane(d), NEW m \in Msgs, NEW e, e = InsertTmail(d, m)
    PROVE  /\ Sane(e) /\ SameRest(d, e) /\ e.mail = d.mail \cup {m}
           /\ \A x \in Msgs : e.index[x] = IF x = m THEN "live" ELSE d.index[x]
<1> DEFINE ix == [d.index EXCEPT ![m] = "live"]
           ml == d.mail \cup {m}
<1>1. ix \in [Msgs -> IndexTags] /\ ml \in SUBSET Msgs BY DbFields DEF Sane, IndexTags
<1>2. \A x \in Msgs : ix[x] = IF x = m THEN "live" ELSE d.index[x] BY DbFields DEF Sane
<1>3. e = [d EXCEPT !.mail = ml, !.index = ix] BY DEF InsertTmail
<1> HIDE DEF ix
<1>4. e \in DBs /\ SameRest(d, e) /\ e.mail = ml /\ e.index = ix
  <2> HIDE DEF ml
  <2> QED BY <1>1, <1>3 DEF DBs, SameRest, Sane
<1>5. IndexOk(e)
  <2> SUFFICES ASSUME NEW x \in Msgs PROVE x \in e.mail <=> e.index[x] = "live" BY DEF IndexOk
  <2> QED BY <1>2, <1>4 DEF Sane, IndexOk
<1>6. OneKey(e) /\ Cardinality(e.receipts) <= ReceiptCap BY <1>4 DEF SameRest, Sane, OneKey
<1> QED BY <1>2, <1>4, <1>5, <1>6 DEF Sane

\* Retention after an insert thins the store by what is too much for one conversation.
LEMMA RetainedIs ==
    ASSUME NEW d, Sane(d), NEW m, NEW t, NEW e, e = Retained(d, m)
    PROVE  /\ Thinned(d, e, t, {})
           /\ e.mail = d.mail \ Excess(Rows(d, Envelope[m].to, ConversationKey(d, m)), Quota(ConversationKey(d, m)))
<1> DEFINE S == Excess(Rows(d, Envelope[m].to, ConversationKey(d, m)), Quota(ConversationKey(d, m)))
<1>1. e = Retire(d, S) BY RetentionIs DEF Retained
<1>2. S \in SUBSET d.mail BY DEF Excess, Rows
<1> HIDE DEF S
<1>3. Thinned(d, e, t, {}) /\ e.mail = d.mail \ S BY <1>1, <1>2, RetireThins
<1> QED BY <1>3 DEF S

\* The cap thins a board that is not a poll.
LEMMA CappedIs ==
    ASSUME NEW d, Sane(d), NEW w, NEW t, NEW e, e = EnforceAnonymousCap(d, w)
    PROVE  /\ Thinned(d, e, t, {})
           /\ IsPoll(d, w) => e.mail = d.mail
           /\ ~IsPoll(d, w) => e.mail = d.mail \ OverCap(d, Posts(d.mail, w))
<1> DEFINE S == OverCap(d, Posts(d.mail, w))
<1>1. e = IF IsPoll(d, w) THEN d ELSE Retire(d, S) BY CapIs
<1>2. S \in SUBSET d.mail BY DEF OverCap, Posts
<1> HIDE DEF S
<1>3. CASE IsPoll(d, w) BY <1>1, <1>3, ThinnedSame
<1>4. CASE ~IsPoll(d, w)
  <2>1. Thinned(d, e, t, {}) /\ e.mail = d.mail \ S BY <1>1, <1>2, <1>4, RetireThins
  <2> QED BY <1>4, <2>1 DEF S
<1> QED BY <1>3, <1>4

\* The three steps of keeping a new message.
Keeping(d, m, a, b, e) ==
    /\ a = InsertTmail(d, m) /\ b = Retained(a, m)
    /\ Anonymous(m) => e = EnforceAnonymousCap(b, Envelope[m].to)
    /\ ~Anonymous(m) => e = b

\* Keeping a message is insert, retention and, for an anonymous one, the cap.
LEMMA KeepSteps == ASSUME NEW d, NEW m PROVE \E a, b : Keeping(d, m, a, b, Kept(d, m))
BY DEF Keeping, Kept

\* The store d with m added, at time t.
Added(d, e, m, t) ==
    /\ Sane(e) /\ SameRest(d, e) /\ e.mail \subseteq d.mail \cup {m}
    /\ \A x \in Msgs : x # m => Marked(d, e, t, {}, x)
    /\ e.index[m] # "none" \/ IsExpired(m, t)

\* What follows the insert thins the store.
LEMMA KeptThins ==
    ASSUME NEW d, Sane(d), NEW m \in Msgs, NEW t, NEW a, NEW b, NEW e, Keeping(d, m, a, b, e)
    PROVE  Thinned(a, b, t, {}) /\ Thinned(b, e, t, {}) /\ Thinned(a, e, t, {}) /\ Sane(a) /\ Sane(b)
<1>1. Sane(a) BY InsertIs DEF Keeping
<1>2. Thinned(a, b, t, {}) BY <1>1, RetainedIs DEF Keeping
<1>3. Sane(b) BY <1>2 DEF Thinned
<1>4. Thinned(b, e, t, {})
  <2>1. CASE Anonymous(m)
    <3>1. e = EnforceAnonymousCap(b, Envelope[m].to) BY <2>1 DEF Keeping
    <3> QED BY <3>1, <1>3, CappedIs
  <2>2. CASE ~Anonymous(m)
    <3>1. e = b BY <2>2 DEF Keeping
    <3> QED BY <3>1, <1>3, ThinnedSame
  <2> QED BY <2>1, <2>2
<1> QED BY <1>1, <1>2, <1>3, <1>4, ThinnedTwice

\* Keeping a message adds at most that message and thins the rest.
LEMMA KeptAdds ==
    ASSUME NEW d, Sane(d), NEW m \in Msgs, NEW t, NEW e, e = Kept(d, m)
    PROVE  Added(d, e, m, t)
<1>1. PICK a, b : Keeping(d, m, a, b, e) BY KeepSteps
<1>2. Thinned(a, e, t, {}) BY <1>1, KeptThins
<1>3. /\ SameRest(d, a) /\ a.mail = d.mail \cup {m}
      /\ \A x \in Msgs : a.index[x] = IF x = m THEN "live" ELSE d.index[x] BY <1>1, InsertIs DEF Keeping
<1>4. SameRest(d, e) /\ Sane(e) /\ e.mail \subseteq d.mail \cup {m} BY <1>2, <1>3 DEF Thinned, SameRest
<1>5. \A x \in Msgs : Marked(a, e, t, {}, x) BY <1>2 DEF Thinned
<1>6. \A x \in Msgs : x # m => Marked(d, e, t, {}, x) BY <1>3, <1>5 DEF Marked
<1>7. e.index[m] # "none" \/ IsExpired(m, t) BY <1>3, <1>5 DEF Marked
<1> QED BY <1>4, <1>6, <1>7 DEF Added

\* A message added leaves the held list in step, that message aside.
LEMMA AddedHolds ==
    ASSUME NEW d, NEW e, NEW m, NEW t, Added(d, e, m, t), Holding(d, {})
    PROVE  Holding(e, {m})
<1>1. e.held = d.held /\ e.fastKeys = d.fastKeys /\ e.verdict = d.verdict /\ e.mail \ {m} \subseteq d.mail BY DEF Added, SameRest
<1>2. \A x : Verified(e, x) <=> Verified(d, x) BY <1>1 DEF Verified
<1> QED BY <1>1, <1>2 DEF Holding

\* A message that is no fast post needs no exception.
LEMMA HoldsBut ==
    ASSUME NEW d, NEW m, ~IsFastPost(m), Holding(d, {m})
    PROVE  Holding(d, {})
<1>1. \A h \in d.held : h.m # m BY DEF Holding
<1>2. \A x \in d.mail : IsFastPost(x) => x # m OBVIOUS
<1> QED BY <1>1, <1>2 DEF Holding

\* Retention and cap bring the bounds back after one message more.
LEMMA KeptBounded ==
    ASSUME NEW d, Sane(d), NEW m \in Msgs, NEW e, e = Kept(d, m), Bounded(d.mail, d.polls)
    PROVE  Bounded(e.mail, e.polls)
<1>1. PICK a, b : Keeping(d, m, a, b, e) BY KeepSteps
<1>2. Thinned(a, b, 0, {}) /\ Thinned(b, e, 0, {}) /\ Thinned(a, e, 0, {}) /\ Sane(a) /\ Sane(b) BY <1>1, KeptThins
<1>3. a.mail = d.mail \cup {m} /\ SameRest(d, a) BY <1>1, InsertIs DEF Keeping
<1>4. e.mail \subseteq b.mail /\ b.mail \subseteq a.mail /\ e.polls = d.polls /\ b.polls = d.polls BY <1>2, <1>3 DEF Thinned, SameRest
<1>5. d.mail \in SUBSET Msgs /\ a.mail \in SUBSET Msgs /\ b.mail \in SUBSET Msgs /\ e.mail \in SUBSET Msgs
  BY <1>2, <1>4, DbFields DEF Sane
<1>6. ASSUME NEW n \in e.mail, ~Anonymous(n) PROVE Cardinality(Talk(e.mail, n)) <= RetainNamed
  <2>1. CASE m \in Talk(a.mail, n)
    <3> DEFINE R == Rows(a, Envelope[m].to, ConversationKey(a, m))
    <3>1. ~Anonymous(m) BY <2>1 DEF Talk
    <3>2. ConversationKey(a, m)[1] = "named" BY <3>1, KeyIs
    <3>3. e.mail = a.mail \ Excess(R, RetainNamed)
      <4>1. e = b /\ b = Retained(a, m) BY <1>1, <3>1 DEF Keeping
      <4>2. b.mail = a.mail \ Excess(R, Quota(ConversationKey(a, m))) BY <4>1, <1>2, RetainedIs
      <4>3. Quota(ConversationKey(a, m)) = RetainNamed BY <3>2 DEF Quota
      <4> QED BY <4>1, <4>2, <4>3
    <3>4. R = Talk(a.mail, m) BY <3>1, <1>5, TalkIs DEF Rows
    <3>5. Talk(a.mail, m) = Talk(a.mail, n) BY <2>1 DEF Talk
    <3>6. Talk(e.mail, n) \in SUBSET (R \ Excess(R, RetainNamed)) BY <3>3, <3>4, <3>5 DEF Talk
    <3>7. R \in SUBSET Msgs BY <1>5, <3>4 DEF Talk
    <3> HIDE DEF R
    <3>8. Cardinality(R \ Excess(R, RetainNamed)) <= RetainNamed BY <3>7, ExcessLeaves, TmNats
    <3>9. R \ Excess(R, RetainNamed) \in SUBSET Msgs BY <3>7
    <3> QED BY <3>6, <3>8, <3>9, SmallerSet, TmNats
  <2>2. CASE m \notin Talk(a.mail, n)
    <3>1. m \in a.mail BY <1>3
    <3>2. n # m
      <4> SUFFICES ASSUME n = m PROVE FALSE OBVIOUS
      <4> QED BY <2>2, <3>1, <1>6 DEF Talk
    <3>3. n \in d.mail /\ Talk(e.mail, n) \in SUBSET Talk(d.mail, n)
      <4>1. Talk(e.mail, n) \in SUBSET Talk(a.mail, n) BY <1>4 DEF Talk
      <4>2. Talk(a.mail, n) \ {m} \in SUBSET Talk(d.mail, n) BY <1>3 DEF Talk
      <4> QED BY <1>3, <1>4, <1>6, <3>2, <2>2, <4>1, <4>2
    <3>4. Cardinality(Talk(d.mail, n)) <= RetainNamed BY <3>3, <1>6 DEF Bounded
    <3>5. Talk(d.mail, n) \in SUBSET Msgs BY <1>5 DEF Talk
    <3> QED BY <3>3, <3>4, <3>5, SmallerSet, TmNats
  <2> QED BY <2>1, <2>2
<1>7. ASSUME NEW w \in Boards \ e.polls PROVE Cardinality(Posts(e.mail, w)) <= RetainAnon
  <2>1. CASE Anonymous(m) /\ Envelope[m].to = w
    <3> DEFINE R == Posts(b.mail, w)
    <3>1. e.mail = b.mail \ OverCap(b, R)
      <4>1. e = EnforceAnonymousCap(b, w) BY <1>1, <2>1 DEF Keeping
      <4>2. ~IsPoll(b, w) BY <1>4, <1>7 DEF IsPoll
      <4> QED BY <4>1, <4>2, <1>2, CappedIs
    <3>2. Posts(e.mail, w) \in SUBSET (R \ OverCap(b, R)) BY <3>1 DEF Posts
    <3>3. R \in SUBSET Msgs BY <1>5 DEF Posts
    <3> HIDE DEF R
    <3>4. Cardinality(R \ OverCap(b, R)) <= RetainAnon BY <3>3, OverCapLeaves
    <3>5. R \ OverCap(b, R) \in SUBSET Msgs BY <3>3
    <3> QED BY <3>2, <3>4, <3>5, SmallerSet, TmNats
  <2>2. CASE ~(Anonymous(m) /\ Envelope[m].to = w)
    <3>1. Posts(e.mail, w) \in SUBSET Posts(d.mail, w) BY <1>3, <1>4, <2>2 DEF Posts
    <3>2. Cardinality(Posts(d.mail, w)) <= RetainAnon BY <1>4, <1>7 DEF Bounded
    <3>3. Posts(d.mail, w) \in SUBSET Msgs BY <1>5 DEF Posts
    <3> QED BY <3>1, <3>2, <3>3, SmallerSet, TmNats
  <2> QED BY <2>1, <2>2
<1> QED BY <1>6, <1>7 DEF Bounded

-----------------------------------------------------------------------------
(* Tmail: what storing does.                                                 *)

\* All but the verdicts and the claims.
SameBox(d, e) ==
    /\ e.mail = d.mail /\ e.index = d.index /\ e.receipts = d.receipts /\ e.polls = d.polls
    /\ e.fastKeys = d.fastKeys /\ e.held = d.held /\ e.regPending = d.regPending

\* A claim writes one nullifier.
LEMMA ClaimIs ==
    ASSUME NEW d, Sane(d), NEW m \in Msgs, NEW e, e = ClaimNullifier(d, m)
    PROVE  /\ Sane(e) /\ SameBox(d, e) /\ e.verdict = d.verdict
           /\ \A n \in Nullifiers : e.claims[n] = IF n = Envelope[m].null THEN m ELSE d.claims[n]
<1> DEFINE C == [d.claims EXCEPT ![Envelope[m].null] = m]
<1>1. C \in [Nullifiers -> Msgs \cup {Unclaimed}] /\ \A n \in Nullifiers : C[n] = IF n = Envelope[m].null THEN m ELSE d.claims[n]
  BY DbFields DEF Sane
<1>2. e = [d EXCEPT !.claims = C] BY DEF ClaimNullifier
<1> HIDE DEF C
<1>3. e \in DBs /\ SameBox(d, e) /\ e.verdict = d.verdict /\ e.claims = C BY <1>1, <1>2 DEF DBs, SameBox, Sane
<1>4. Sane(e) BY <1>3 DEF Sane, SameBox, IndexOk, OneKey
<1> QED BY <1>1, <1>3, <1>4

\* A release frees a nullifier only if the message holds it.
LEMMA ReleaseIs ==
    ASSUME NEW d, Sane(d), NEW m \in Msgs, NEW e, e = ReleaseNullifier(d, m)
    PROVE  /\ Sane(e) /\ SameBox(d, e) /\ e.verdict = d.verdict
           /\ \A n \in Nullifiers : e.claims[n] = IF n = Envelope[m].null /\ d.claims[n] = m THEN Unclaimed ELSE d.claims[n]
<1>1. CASE d.claims[Envelope[m].null] = m
  <2> DEFINE C == [d.claims EXCEPT ![Envelope[m].null] = Unclaimed]
  <2>1. C \in [Nullifiers -> Msgs \cup {Unclaimed}] /\ \A n \in Nullifiers : C[n] = IF n = Envelope[m].null THEN Unclaimed ELSE d.claims[n]
    BY DbFields DEF Sane
  <2>2. e = [d EXCEPT !.claims = C] BY <1>1 DEF ReleaseNullifier
  <2> HIDE DEF C
  <2>3. e \in DBs /\ SameBox(d, e) /\ e.verdict = d.verdict /\ e.claims = C BY <2>1, <2>2 DEF DBs, SameBox, Sane
  <2>4. Sane(e) BY <2>3 DEF Sane, SameBox, IndexOk, OneKey
  <2> QED BY <1>1, <2>1, <2>3, <2>4
<1>2. CASE d.claims[Envelope[m].null] # m
  <2>1. e = d BY <1>2 DEF ReleaseNullifier
  <2> QED BY <1>2, <2>1 DEF SameBox
<1> QED BY <1>1, <1>2

\* Claims and verdicts of posts with a proof do not touch the held list.
LEMMA BoxHolds ==
    ASSUME NEW d, NEW e, NEW X, SameBox(d, e), Holding(d, X), Sane(d),
           \A x \in Msgs : IsFastPost(x) /\ x \notin X => e.verdict[x] = d.verdict[x]
    PROVE  Holding(e, X)
<1>1. Refit(d, d, d.verdict, d.fastKeys, d.held, d.regPending) BY DEF Refit
<1>2. \A h \in d.held : h.m \in Msgs BY DbFields DEF HeldPosts, Sane
<1>3. d.mail \in SUBSET Msgs BY DbFields DEF Sane
<1>4. \A x \in Msgs : IsFastPost(x) /\ x \notin X => (Verified(e, x) <=> Verified(d, x)) BY DEF Verified
<1> QED BY <1>2, <1>3, <1>4 DEF Holding, SameBox

\* The gate of a poll passed, or no poll.
Passed(c, g, m, t) ==
    IF IsPoll(c, Envelope[m].to)
    THEN BallotOk(c, m, t) /\ g = SetAnonVerdict(ClaimNullifier(c, m), m, "verified", t)
    ELSE g = c
\* What passing the gate of a poll leaves: claimed and verified on the way in.
PassedAs(c, g, m, t) ==
    IF IsPoll(c, Envelope[m].to)
    THEN /\ BallotOk(c, m, t)
         /\ \A x \in Msgs : g.verdict[x] = IF x = m THEN "verified" ELSE c.verdict[x]
         /\ \A n \in Nullifiers : g.claims[n] = IF n = Envelope[m].null THEN m ELSE c.claims[n]
    ELSE g.verdict = c.verdict /\ g.claims = c.claims

\* The gate of a poll claims and verifies its ballot and touches nothing else.
LEMMA PassIs ==
    ASSUME NEW c, Sane(c), NEW m \in Msgs, NEW t, NEW g, Passed(c, g, m, t), c.index[m] = "none"
    PROVE  Sane(g) /\ SameBox(c, g) /\ PassedAs(c, g, m, t)
<1>1. CASE ~IsPoll(c, Envelope[m].to) BY <1>1 DEF Passed, PassedAs, SameBox
<1>2. CASE IsPoll(c, Envelope[m].to)
  <2>1. PICK k : k = ClaimNullifier(c, m) OBVIOUS
  <2>2. /\ Sane(k) /\ SameBox(c, k) /\ k.verdict = c.verdict
        /\ \A n \in Nullifiers : k.claims[n] = IF n = Envelope[m].null THEN m ELSE c.claims[n] BY <2>1, ClaimIs
  <2>3. ~Live(k, m) BY <2>2 DEF Live, SameBox
  <2>4. g = WithVerdict(k, m, "verified")
    <3>1. SetAnonVerdict(k, m, "verified", t) = [k EXCEPT !.verdict[m] = "verified"] BY <2>3 DEF SetAnonVerdict
    <3> QED BY <3>1, <2>1, <1>2 DEF Passed, WithVerdict
  <2>8. PICK v \in VerdictTags : v = "verified" BY DEF VerdictTags
  <2>9. g = WithVerdict(k, m, v) BY <2>4, <2>8
  <2>10. /\ Sane(g) /\ Refit(k, g, g.verdict, k.fastKeys, k.held, k.regPending)
         /\ \A x \in Msgs : g.verdict[x] = IF x = m THEN v ELSE k.verdict[x] BY <2>2, <2>9, VerdictOnly
  <2>5. /\ Sane(g) /\ Refit(k, g, g.verdict, k.fastKeys, k.held, k.regPending)
        /\ \A x \in Msgs : g.verdict[x] = IF x = m THEN "verified" ELSE k.verdict[x] BY <2>8, <2>10
  <2>6. SameBox(c, g) BY <2>2, <2>5 DEF SameBox, Refit
  <2>7. PassedAs(c, g, m, t) BY <1>2, <2>2, <2>5 DEF PassedAs, Passed, Refit
  <2> QED BY <2>5, <2>6, <2>7
<1> QED BY <1>1, <1>2

\* Only the expired went.
Swept(d, c, t) == \A x \in d.mail \ c.mail : IsExpired(x, t)

\* prune_expired removes expired messages only.
LEMMA PruneSweeps == ASSUME NEW d, Sane(d), NEW t, NEW e, e = PruneExpired(d, t) PROVE Swept(d, e, t)
<1> DEFINE S == Olds(d, t) \cup Tombs(d, t)
<1>1. S \in SUBSET Msgs BY DbFields DEF Olds, Tombs, Sane
<1>2. \A m \in S : IsExpired(m, t) BY DEF Olds, Tombs, IsExpired
<1>3. e = Cut(d, S, "none") BY PruneIs
<1> HIDE DEF S
<1>4. CutTo(d, e, S, "none") BY <1>1, <1>3, CutSane DEF IndexTags
<1> QED BY <1>2, <1>4 DEF Swept, CutTo

\* The steps of store_tmail_inner: room, gate, inserts with retention and cap.
Storing(d, c, g, e, m, t) ==
    Thinned(d, c, t, {}) /\ Swept(d, c, t) /\ c.index[m] = "none" /\ Passed(c, g, m, t) /\ e = Kept(g, m)

\* What store_tmail answers.
Answered(d, r, m, t) ==
    \/ r.res = "duplicate" /\ r.db = d /\ d.index[m] # "none"
    \/ r.res \in {"full", "ballot"} /\ d.index[m] = "none" /\ Thinned(d, r.db, t, {}) /\ Swept(d, r.db, t)
    \/ r.res = "stored" /\ d.index[m] = "none" /\ \E c, g : Storing(d, c, g, r.db, m, t)

\* store_tmail finds a duplicate, refuses, or stores through those steps.
LEMMA StoreSteps ==
    ASSUME NEW d, Sane(d), NEW m \in Msgs, NEW t, NEW r, r = StoreTmail(d, m, t)
    PROVE  Answered(d, r, m, t)
<1>1. CASE d.index[m] # "none"
  <2>1. r = [res |-> "duplicate", db |-> d] BY <1>1 DEF StoreTmail
  <2> QED BY <1>1, <2>1 DEF Answered
<1>2. CASE d.index[m] = "none"
  <2>1. PICK c : c = IF Cardinality(d.mail) >= MaxEntries THEN PruneExpired(d, t) ELSE d OBVIOUS
  <2>2. r = StoreWithRoom(c, m, t) BY <1>2, <2>1 DEF StoreTmail
  <2>3. Thinned(d, c, t, {}) /\ Swept(d, c, t)
    <3>1. CASE c = d BY <3>1, ThinnedSame DEF Swept
    <3>2. CASE c = PruneExpired(d, t) BY <3>2, PruneThins, PruneSweeps
    <3> QED BY <2>1, <3>1, <3>2
  <2>4. c.index[m] = "none" BY <1>2, <2>3 DEF Thinned, Marked
  <2>5. \/ r = [res |-> "full", db |-> c] \/ r = [res |-> "ballot", db |-> c]
        \/ /\ ~(IsPoll(c, Envelope[m].to) /\ ~BallotOk(c, m, t))
           /\ r = [res |-> "stored", db |-> Kept(IF IsPoll(c, Envelope[m].to) THEN SetAnonVerdict(ClaimNullifier(c, m), m, "verified", t)
                                                ELSE c, m)]
    <3>1. IsFiniteSet(c.mail) /\ Cardinality(c.mail) \in Nat
      <4>1. c.mail \in SUBSET Msgs BY <2>3, DbFields DEF Thinned, Sane
      <4> QED BY <4>1, TmSets, FS_Subset, FS_CardinalityType
    <3>2. PICK n \in Nat : n = Cardinality(c.mail) BY <3>1
    <3>3. MaxEntries \in Nat BY TmNats
    <3>4. (n >= MaxEntries) \/ (n < MaxEntries) BY <3>2, <3>3
    <3> QED BY <2>2, <3>2, <3>4, Zenon DEF StoreWithRoom
  <2>6. CASE r = [res |-> "full", db |-> c] \/ r = [res |-> "ballot", db |-> c] BY <1>2, <2>3, <2>6 DEF Answered
  <2>7. CASE /\ ~(IsPoll(c, Envelope[m].to) /\ ~BallotOk(c, m, t))
             /\ r = [res |-> "stored", db |-> Kept(IF IsPoll(c, Envelope[m].to) THEN SetAnonVerdict(ClaimNullifier(c, m), m, "verified", t)
                                                ELSE c, m)]
    <3>1. PICK g : g = IF IsPoll(c, Envelope[m].to) THEN SetAnonVerdict(ClaimNullifier(c, m), m, "verified", t) ELSE c OBVIOUS
    <3>2. r = [res |-> "stored", db |-> Kept(g, m)] BY <2>7, <3>1
    <3>3. Passed(c, g, m, t) BY <2>7, <3>1 DEF Passed
    <3>4. Storing(d, c, g, r.db, m, t) BY <2>3, <2>4, <3>2, <3>3 DEF Storing
    <3> QED BY <1>2, <3>2, <3>4 DEF Answered
  <2> QED BY <2>5, <2>6, <2>7
<1> QED BY <1>1, <1>2

\* What a stored message leaves, whatever retention drops.
StoredAs(d, e, m, t) ==
    /\ Sane(e) /\ e.receipts = d.receipts /\ e.polls = d.polls /\ e.fastKeys = d.fastKeys /\ e.held = d.held
    /\ e.regPending = d.regPending /\ e.mail \subseteq d.mail \cup {m}
    /\ \A x \in Msgs : x # m => Marked(d, e, t, {}, x)
    /\ e.index[m] # "none" \/ IsExpired(m, t)
    /\ PassedAs(d, e, m, t)

\* The gate of a poll does not look at the messages.
LEMMA BallotSame ==
    ASSUME NEW d, NEW c, SameRest(d, c), NEW m, NEW t
    PROVE  BallotOk(c, m, t) <=> BallotOk(d, m, t)
<1>1. d.polls = c.polls /\ d.claims = c.claims /\ d.receipts = c.receipts BY DEF SameRest
<1>2. RootAccepted(c, m, t) <=> RootAccepted(d, m, t) BY <1>1 DEF RootAccepted, IsPoll
<1>3. Judge(c, m, t) = Judge(d, m, t) BY <1>1, <1>2 DEF Judge
<1> QED BY <1>1, <1>3 DEF BallotOk

\* A stored message leaves a well-formed store, its held list in step and its bounds
\* kept.
LEMMA StoredIs ==
    ASSUME NEW d, Sane(d), NEW m \in Msgs, NEW t, NEW c, NEW g, NEW e, Storing(d, c, g, e, m, t)
    PROVE  /\ StoredAs(d, e, m, t)
           /\ Holding(d, {}) => Holding(e, {m})
           /\ Bounded(d.mail, d.polls) => Bounded(e.mail, e.polls)
<1>1. Thinned(d, c, t, {}) /\ c.index[m] = "none" /\ Passed(c, g, m, t) /\ e = Kept(g, m) /\ Sane(c) BY DEF Storing, Thinned
<1>2. Sane(g) /\ SameBox(c, g) /\ PassedAs(c, g, m, t) BY <1>1, PassIs
<1>3. Added(g, e, m, t) BY <1>1, <1>2, KeptAdds
<1>4. SameRest(d, c) /\ c.mail \subseteq d.mail BY <1>1 DEF Thinned
<1>5. StoredAs(d, e, m, t)
  <2>1. \A x \in Msgs : x # m => Marked(d, e, t, {}, x)
    <3>1. g.index = c.index BY <1>2 DEF SameBox
    <3>2. \A x \in Msgs : x # m => Marked(c, e, t, {}, x) BY <1>3, <3>1 DEF Added, Marked
    <3>3. \A x \in Msgs : Marked(d, c, t, {}, x) BY <1>1 DEF Thinned
    <3> QED BY <3>2, <3>3 DEF Marked
  <2>2. PassedAs(d, e, m, t)
    <3>1. e.verdict = g.verdict /\ e.claims = g.claims BY <1>3 DEF Added, SameRest
    <3>2. d.verdict = c.verdict /\ d.claims = c.claims /\ d.polls = c.polls BY <1>4 DEF SameRest
    <3>3. BallotOk(c, m, t) <=> BallotOk(d, m, t) BY <1>4, BallotSame
    <3> QED BY <1>2, <3>1, <3>2, <3>3 DEF PassedAs, IsPoll
  <2>3. /\ Sane(e) /\ e.receipts = d.receipts /\ e.polls = d.polls /\ e.fastKeys = d.fastKeys /\ e.held = d.held
        /\ e.regPending = d.regPending /\ e.mail \subseteq d.mail \cup {m}
    BY <1>2, <1>3, <1>4 DEF Added, SameRest, SameBox
  <2>4. e.index[m] # "none" \/ IsExpired(m, t) BY <1>3 DEF Added
  <2> QED BY <2>1, <2>2, <2>3, <2>4 DEF StoredAs
<1>6. ASSUME Holding(d, {}) PROVE Holding(e, {m})
  <2>1. Holding(c, {}) BY <1>1, <1>6, ThinnedHolds
  <2>2. \A x \in Msgs : IsFastPost(x) => g.verdict[x] = c.verdict[x]
    <3>1. CASE IsPoll(c, Envelope[m].to)
      <4>1. ~IsFastPost(m) BY <3>1, <1>2 DEF PassedAs, BallotOk, IsFastPost
      <4> QED BY <3>1, <4>1, <1>2 DEF PassedAs
    <3>2. CASE ~IsPoll(c, Envelope[m].to) BY <3>2, <1>2 DEF PassedAs
    <3> QED BY <3>1, <3>2
  <2>3. Holding(g, {}) BY <1>1, <1>2, <2>1, <2>2, BoxHolds
  <2> QED BY <2>3, <1>3, AddedHolds
<1>7. ASSUME Bounded(d.mail, d.polls) PROVE Bounded(e.mail, e.polls)
  <2>1. d.mail \in SUBSET Msgs /\ g.mail \in SUBSET d.mail /\ g.polls = d.polls BY <1>2, <1>4, DbFields DEF Sane, SameBox, SameRest
  <2>2. Bounded(g.mail, g.polls) BY <2>1, <1>7, BoundedLess
  <2> QED BY <2>2, <1>1, <1>2, KeptBounded
<1> QED BY <1>5, <1>6, <1>7

-----------------------------------------------------------------------------
\* put_anon_receipt keeps the cap.
LEMMA ReceiptsKept ==
    ASSUME NEW R \in SUBSET ReceiptIds, IsFiniteSet(R), Cardinality(R) <= ReceiptCap, NEW c \in ReceiptIds
    PROVE  PutReceipt(R, c) \in SUBSET ReceiptIds /\ Cardinality(PutReceipt(R, c)) <= ReceiptCap
<1>1. ReceiptCap \in Nat \ {0} /\ Cardinality(R) \in Nat BY TmNats, FS_CardinalityType
<1>2. CASE Cardinality(R) >= ReceiptCap
  <2>1. R # {} BY <1>1, <1>2, FS_EmptySet
  <2>2. R \subseteq Nat BY EnvelopeIs DEF ReceiptIds
  <2>3. PICK a \in R : a = Min(R) BY <2>1, <2>2, MinIsLeast
  <2>4. PICK S : S = R \ {a} OBVIOUS
  <2>5. IsFiniteSet(S) /\ Cardinality(S) = Cardinality(R) - 1 BY <2>3, <2>4, FS_RemoveElement
  <2>6. IsFiniteSet(S \cup {c}) /\ (Cardinality(S \cup {c}) = Cardinality(S) \/ Cardinality(S \cup {c}) = Cardinality(S) + 1)
    BY <2>5, FS_AddElement
  <2>7. PutReceipt(R, c) = S \cup {c} BY <1>2, <2>3, <2>4 DEF PutReceipt
  <2>8. S \cup {c} \in SUBSET ReceiptIds BY <2>4
  <2>9. Cardinality(S \cup {c}) <= ReceiptCap BY <1>1, <2>5, <2>6
  <2> QED BY <2>7, <2>8, <2>9
<1>3. CASE ~(Cardinality(R) >= ReceiptCap)
  <2>1. PutReceipt(R, c) = R \cup {c} BY <1>3 DEF PutReceipt
  <2>2. Cardinality(R \cup {c}) = Cardinality(R) \/ Cardinality(R \cup {c}) = Cardinality(R) + 1 BY FS_AddElement
  <2>3. R \cup {c} \in SUBSET ReceiptIds OBVIOUS
  <2>4. Cardinality(R \cup {c}) <= ReceiptCap BY <1>1, <1>3, <2>2
  <2> QED BY <2>1, <2>3, <2>4
<1> QED BY <1>2, <1>3

\* There are finitely many receipts.
LEMMA ReceiptsFinite == IsFiniteSet(ReceiptIds)
<1>1. IsFiniteSet(Msgs) BY TmSets
<1> DEFINE f == [m \in Msgs |-> Envelope[m].receipt]
<1>2. f \in Surjection(Msgs, ReceiptIds) BY DEF Surjection, ReceiptIds
<1> QED BY <1>1, <1>2, FS_Surjection

\* The store with one more receipt.
Deposited(d, e) ==
    /\ Sane(e) /\ e.mail = d.mail /\ e.index = d.index /\ e.verdict = d.verdict /\ e.claims = d.claims /\ e.polls = d.polls
    /\ e.fastKeys = d.fastKeys /\ e.held = d.held /\ e.regPending = d.regPending

\* A deposit changes the receipts alone.
LEMMA DepositIs ==
    ASSUME NEW d, Sane(d), NEW c \in ReceiptIds, NEW e, e = [d EXCEPT !.receipts = PutReceipt(@, c)]
    PROVE  Deposited(d, e)
<1>1. PICK R : R = PutReceipt(d.receipts, c) OBVIOUS
<1>2. e = [d EXCEPT !.receipts = R] BY <1>1
<1>3. IsFiniteSet(d.receipts) /\ d.receipts \in SUBSET ReceiptIds BY ReceiptsFinite, FS_Subset, DbFields DEF Sane
<1>4. R \in SUBSET ReceiptIds /\ Cardinality(R) <= ReceiptCap BY <1>1, <1>3, ReceiptsKept DEF Sane
<1>5. /\ e \in DBs /\ e.mail = d.mail /\ e.index = d.index /\ e.verdict = d.verdict /\ e.claims = d.claims /\ e.polls = d.polls
      /\ e.fastKeys = d.fastKeys /\ e.held = d.held /\ e.regPending = d.regPending /\ e.receipts = R
  BY <1>2, <1>4 DEF DBs, Sane
<1>6. Sane(e) BY <1>4, <1>5 DEF Sane, IndexOk, OneKey
<1> QED BY <1>5, <1>6 DEF Deposited

\* Registering a poll changes the polls alone.
LEMMA PollIs ==
    ASSUME NEW d, Sane(d), NEW w \in DOMAIN PollRoot, NEW e, e = [d EXCEPT !.polls = @ \cup {w}]
    PROVE  /\ Sane(e) /\ e.mail = d.mail /\ e.index = d.index /\ e.verdict = d.verdict /\ e.claims = d.claims
           /\ e.polls = d.polls \cup {w} /\ e.receipts = d.receipts
           /\ e.fastKeys = d.fastKeys /\ e.held = d.held /\ e.regPending = d.regPending
<1>1. PICK P : P = d.polls \cup {w} OBVIOUS
<1>2. e = [d EXCEPT !.polls = P] BY <1>1
<1>3. P \in SUBSET DOMAIN PollRoot BY <1>1, DbFields DEF Sane
<1>5. /\ e \in DBs /\ e.mail = d.mail /\ e.index = d.index /\ e.verdict = d.verdict /\ e.claims = d.claims /\ e.polls = P
      /\ e.fastKeys = d.fastKeys /\ e.held = d.held /\ e.regPending = d.regPending /\ e.receipts = d.receipts
  BY <1>2, <1>3 DEF DBs, Sane
<1>6. Sane(e) BY <1>5 DEF Sane, IndexOk, OneKey
<1> QED BY <1>1, <1>5, <1>6

-----------------------------------------------------------------------------
(* Tmail: the store stays good.                                              *)

\* A change of the store that keeps what the mail promises.
GoodStep(d, e, t) ==
    /\ Sane(e) /\ Holding(e, {}) /\ Bounded(e.mail, e.polls)
    /\ \A m \in Msgs : d.index[m] = "burned" => e.index[m] = "burned" \/ IsExpired(m, t)
\* A store that keeps what the mail promises.
Good(d) == Sane(d) /\ Holding(d, {}) /\ Bounded(d.mail, d.polls)

\* Good steps compose.
LEMMA GoodTwice ==
    ASSUME NEW d, NEW e, NEW f, NEW t, GoodStep(d, e, t), GoodStep(e, f, t) PROVE GoodStep(d, f, t)
BY DEF GoodStep

\* A store left alone stays good.
LEMMA SameGood == ASSUME NEW d, Good(d), NEW t PROVE GoodStep(d, d, t)
BY DEF Good, GoodStep

\* Receipts, claims and new polls keep the store good.
LEMMA BoxGood ==
    ASSUME NEW d, Good(d), NEW e, Sane(e), NEW t, e.mail = d.mail, e.index = d.index, d.polls \subseteq e.polls,
           e.verdict = d.verdict, e.fastKeys = d.fastKeys, e.held = d.held
    PROVE  GoodStep(d, e, t)
<1>1. Holding(e, {}) BY DEF Good, Holding, Verified
<1>2. Bounded(e.mail, e.polls)
  <2>1. d.mail \in SUBSET Msgs /\ e.mail \in SUBSET d.mail BY DbFields DEF Good, Sane
  <2> QED BY <2>1, BoundedLess DEF Good
<1> QED BY <1>1, <1>2 DEF GoodStep

\* Thinning keeps the store good and its tombstones.
LEMMA ThinnedGood ==
    ASSUME NEW d, Good(d), NEW e, NEW t, Thinned(d, e, t, {})
    PROVE  GoodStep(d, e, t)
<1>1. Holding(e, {}) BY ThinnedHolds DEF Good
<1>2. d.mail \in SUBSET Msgs /\ e.mail \in SUBSET d.mail /\ e.polls = d.polls /\ Sane(e) BY DbFields DEF Good, Sane, Thinned, SameRest
<1>3. Bounded(e.mail, e.polls) BY <1>2, BoundedLess DEF Good
<1>4. \A m \in Msgs : d.index[m] = "burned" => e.index[m] = "burned" \/ IsExpired(m, t) BY DEF Thinned, Marked
<1> QED BY <1>1, <1>2, <1>3, <1>4 DEF GoodStep

\* No live entry more means no message more.
LEMMA LeftMail ==
    ASSUME NEW d, Sane(d), NEW e, Sane(e), \A x \in Msgs : e.index[x] = "live" => d.index[x] = "live"
    PROVE  e.mail \subseteq d.mail /\ d.mail \in SUBSET Msgs
<1>1. d.mail \in SUBSET Msgs /\ e.mail \in SUBSET Msgs BY DbFields DEF Sane
<1> QED BY <1>1 DEF Sane, IndexOk

\* set_anon_verdict keeps the store good.
LEMMA VerdictGood ==
    ASSUME NEW d, Good(d), NEW e, NEW m \in Msgs, IsProof(m), NEW v \in Verdicts, NEW t, e = SetAnonVerdict(d, m, v, t)
    PROVE  GoodStep(d, e, t) /\ VerdictSet(d, e, m, v)
<1>1. VerdictSet(d, e, m, v) /\ Holding(e, {}) BY VerdictIs DEF Good
<1>2. \A x \in Msgs : Judged(d, e, m, v, x) BY <1>1 DEF VerdictSet
<1>3. \A x \in Msgs : e.index[x] = "live" => d.index[x] = "live" BY <1>2 DEF Judged
<1>4. \A x \in Msgs : d.index[x] = "burned" => e.index[x] = "burned" BY <1>2 DEF Judged
<1>5. e.mail \subseteq d.mail /\ d.mail \in SUBSET Msgs /\ e.polls = d.polls /\ Sane(e) BY <1>1, <1>3, LeftMail DEF Good, VerdictSet
<1>6. Bounded(e.mail, e.polls) BY <1>5, BoundedLess DEF Good
<1> QED BY <1>1, <1>4, <1>5, <1>6 DEF GoodStep

\* Dropping held posts keeps the store good.
LEMMA FastPrunedGood ==
    ASSUME NEW d, Good(d), NEW e, NEW t, FastPruned(d, e)
    PROVE  GoodStep(d, e, t)
<1>1. Holding(e, {}) BY FastPrunedHolds DEF Good
<1>2. \A x \in Msgs : Left(d, e, x) BY DEF FastPruned
<1>3. \A x \in Msgs : e.index[x] = "live" => d.index[x] = "live" BY <1>2 DEF Left
<1>4. \A x \in Msgs : d.index[x] = "burned" => e.index[x] = "burned" BY <1>2 DEF Left
<1>5. e.mail \subseteq d.mail /\ d.mail \in SUBSET Msgs /\ e.polls = d.polls /\ Sane(e) BY <1>3, LeftMail DEF Good, FastPruned
<1>6. Bounded(e.mail, e.polls) BY <1>5, BoundedLess DEF Good
<1> QED BY <1>1, <1>4, <1>5, <1>6 DEF GoodStep

\* A stored message, the held list not yet looked at.
StoredWell(d, e, m, t) ==
    /\ StoredAs(d, e, m, t) /\ Holding(e, {m}) /\ Bounded(e.mail, e.polls) /\ d.index[m] = "none"
    /\ \A x \in Msgs : d.index[x] = "burned" => e.index[x] = "burned" \/ IsExpired(x, t)
\* The answers of store_tmail on a good store.
AnsweredWell(d, r, m, t) ==
    \/ r.res = "duplicate" /\ r.db = d /\ d.index[m] # "none"
    \/ r.res \in {"full", "ballot"} /\ d.index[m] = "none" /\ Thinned(d, r.db, t, {}) /\ GoodStep(d, r.db, t)
    \/ r.res = "stored" /\ StoredWell(d, r.db, m, t)

\* store_tmail answers well on a good store.
LEMMA StoreGood ==
    ASSUME NEW d, Good(d), NEW m \in Msgs, NEW t, NEW r, r = StoreTmail(d, m, t)
    PROVE  AnsweredWell(d, r, m, t)
<1>1. Answered(d, r, m, t) BY StoreSteps DEF Good
<1>2. CASE r.res = "duplicate" /\ r.db = d /\ d.index[m] # "none" BY <1>2 DEF AnsweredWell
<1>3. CASE r.res \in {"full", "ballot"} /\ d.index[m] = "none" /\ Thinned(d, r.db, t, {})
  <2>1. GoodStep(d, r.db, t) BY <1>3, ThinnedGood
  <2> QED BY <1>3, <2>1 DEF AnsweredWell
<1>4. CASE r.res = "stored" /\ d.index[m] = "none" /\ \E c, g : Storing(d, c, g, r.db, m, t)
  <2>1. PICK c, g : Storing(d, c, g, r.db, m, t) BY <1>4
  <2>2. StoredAs(d, r.db, m, t) /\ Holding(r.db, {m}) /\ Bounded(r.db.mail, r.db.polls) BY <2>1, StoredIs DEF Good
  <2>3. \A x \in Msgs : d.index[x] = "burned" => r.db.index[x] = "burned" \/ IsExpired(x, t) BY <1>4, <2>2 DEF StoredAs, Marked
  <2>4. StoredWell(d, r.db, m, t) BY <1>4, <2>2, <2>3 DEF StoredWell
  <2> QED BY <1>4, <2>4 DEF AnsweredWell
<1> QED BY <1>1, <1>2, <1>3, <1>4 DEF Answered

\* A stored message that is no fast post keeps the store good.
LEMMA StoredGood ==
    ASSUME NEW d, NEW e, NEW m, NEW t, StoredWell(d, e, m, t), ~IsFastPost(m)
    PROVE  GoodStep(d, e, t)
<1>1. Holding(e, {}) BY HoldsBut DEF StoredWell
<1> QED BY <1>1 DEF StoredWell, GoodStep, StoredAs

\* Whatever store_tmail answers for such a message, the store stays good.
LEMMA AnsweredGood ==
    ASSUME NEW d, Good(d), NEW m \in Msgs, NEW t, NEW r, r = StoreTmail(d, m, t), ~IsFastPost(m)
    PROVE  GoodStep(d, r.db, t)
<1>1. AnsweredWell(d, r, m, t) BY StoreGood
<1>2. CASE r.db = d BY <1>2, SameGood
<1>3. CASE StoredWell(d, r.db, m, t) BY <1>3, StoredGood
<1> QED BY <1>1, <1>2, <1>3 DEF AnsweredWell

\* A fast post stored under a registered key is verified and needs no place on the held
\* list.
LEMMA FastStored ==
    ASSUME NEW d, NEW e, NEW m \in Msgs, NEW t, StoredWell(d, e, m, t), Holding(d, {}), FastRegistration(d, m) # {},
           NEW f, f = WithVerdict(e, m, "verified")
    PROVE  GoodStep(d, f, t)
<1>1. Sane(e) BY DEF StoredWell, StoredAs
<1>2. PICK v \in VerdictTags : v = "verified" BY DEF VerdictTags
<1>3. /\ Sane(f) /\ Refit(e, f, f.verdict, e.fastKeys, e.held, e.regPending)
      /\ \A x \in Msgs : f.verdict[x] = IF x = m THEN v ELSE e.verdict[x] BY <1>1, <1>2, VerdictOnly
<1>4. Holding(e, {m}) /\ Bounded(e.mail, e.polls) /\ e.held = d.held BY DEF StoredWell, StoredAs
<1>5. \A h \in d.held : h.m # m /\ h.m \in Msgs
  <2> SUFFICES ASSUME NEW h \in d.held PROVE h.m # m /\ h.m \in Msgs OBVIOUS
  <2>1. PICK r \in d.fastKeys : r.k = KeyOf(m) BY DEF FastRegistration
  <2>2. h.k # KeyOf(m) /\ h.k = KeyOf(h.m) BY <2>1 DEF Holding
  <2>3. h.m \in Msgs BY <1>1, <1>4, DbFields DEF Sane, HeldPosts
  <2> QED BY <2>2, <2>3
<1>6. Holding(f, {})
  <2>1. f.mail = e.mail /\ f.held = d.held /\ f.fastKeys = e.fastKeys /\ e.mail \in SUBSET Msgs BY <1>1, <1>3, <1>4, DbFields DEF Refit, Sane
  <2>2. \A x \in Msgs : x # m => (Verified(f, x) <=> Verified(e, x)) BY <1>3 DEF Verified
  <2>3. Verified(f, m) BY <1>2, <1>3 DEF Verified
  <2> QED BY <1>4, <1>5, <2>1, <2>2, <2>3 DEF Holding
<1>7. f.mail = e.mail /\ f.polls = e.polls /\ f.index = e.index BY <1>3 DEF Refit
<1> QED BY <1>3, <1>4, <1>6, <1>7 DEF GoodStep, StoredWell

\* The held post: its verdict pending, its place on the list.
Waiter(m, t) == [k |-> KeyOf(m), m |-> m, at |-> t]
Waits(e, m, t) == [e EXCEPT !.verdict[m] = "pending", !.held = @ \cup {[k |-> KeyOf(m), m |-> m, at |-> t]}]
Waited(e, f, m, t) ==
    /\ Sane(f) /\ Refit(e, f, f.verdict, e.fastKeys, e.held \cup {Waiter(m, t)}, e.regPending)
    /\ \A x \in Msgs : f.verdict[x] = IF x = m THEN "pending" ELSE e.verdict[x]

\* A held post gets its pending verdict and its place on the list.
LEMMA WaitsIs ==
    ASSUME NEW e, Sane(e), NEW m \in Msgs, NEW t \in Nat, NEW f, f = Waits(e, m, t)
    PROVE  Waited(e, f, m, t)
<1>1. PICK V : V = [e.verdict EXCEPT ![m] = "pending"] OBVIOUS
<1>2. PICK B : B = e.held \cup {Waiter(m, t)} OBVIOUS
<1>3. f = [e EXCEPT !.verdict = V, !.held = B] BY <1>1, <1>2 DEF Waits, Waiter
<1>4. V \in [Msgs -> VerdictTags] /\ \A x \in Msgs : V[x] = IF x = m THEN "pending" ELSE e.verdict[x]
  BY <1>1, DbFields DEF Sane, VerdictTags
<1>5. B \in SUBSET HeldPosts
  <2>1. e.held \in SUBSET HeldPosts BY DbFields DEF Sane
  <2>2. Waiter(m, t) \in HeldPosts BY EnvelopeIs DEF HeldPosts, Waiter
  <2> QED BY <1>2, <2>1, <2>2
<1>6. f \in DBs /\ Refit(e, f, V, e.fastKeys, B, e.regPending) BY <1>3, <1>4, <1>5 DEF DBs, Refit, Sane
<1>7. Sane(f)
  <2>1. \A r, s \in e.fastKeys : r.k = s.k => r = s BY DEF Sane, OneKey
  <2> QED BY <2>1, <1>6, RefitSane
<1>8. f.verdict = V BY <1>6 DEF Refit
<1> QED BY <1>2, <1>4, <1>6, <1>7, <1>8 DEF Waited

\* A fast post stored with its place on the held list keeps the store good.
LEMMA WaitsGood ==
    ASSUME NEW d, NEW e, NEW m \in Msgs, NEW t \in Nat, StoredWell(d, e, m, t), IsFastPost(m), FastRegistration(d, m) = {},
           NEW f, f = Waits(e, m, t)
    PROVE  GoodStep(d, f, t)
<1>1. Sane(e) /\ e.fastKeys = d.fastKeys BY DEF StoredWell, StoredAs
<1>2. PICK h0 : h0 = Waiter(m, t) OBVIOUS
<1>3. /\ Sane(f) /\ Refit(e, f, f.verdict, e.fastKeys, e.held \cup {h0}, e.regPending)
      /\ \A x \in Msgs : f.verdict[x] = IF x = m THEN "pending" ELSE e.verdict[x] 
  <2>1. Waited(e, f, m, t) BY <1>1, WaitsIs
  <2> QED BY <2>1, <1>2 DEF Waited
<1>4. Holding(e, {m}) /\ Bounded(e.mail, e.polls) BY DEF StoredWell
<1>5. h0.k = KeyOf(m) /\ h0.m = m BY <1>2 DEF Waiter
<1>6. \A r \in e.fastKeys : r.k # KeyOf(m) BY <1>1 DEF FastRegistration
<1>7. \A h \in e.held : h.m \in Msgs BY <1>1, DbFields DEF Sane, HeldPosts
<1>8. Holding(f, {})
  <2>1. f.mail = e.mail /\ f.held = e.held \cup {h0} /\ f.fastKeys = e.fastKeys /\ e.mail \in SUBSET Msgs BY <1>1, <1>3, DbFields DEF Refit, Sane
  <2>2. \A x \in Msgs : x # m => (Verified(f, x) <=> Verified(e, x)) BY <1>3 DEF Verified
  <2>3. ~Verified(f, m) BY <1>3 DEF Verified
  <2>4. \A h \in f.held : IsFastPost(h.m) /\ h.k = KeyOf(h.m) /\ (h.m \in f.mail => ~Verified(f, h.m))
    <3> SUFFICES ASSUME NEW h \in f.held PROVE IsFastPost(h.m) /\ h.k = KeyOf(h.m) /\ (h.m \in f.mail => ~Verified(f, h.m)) OBVIOUS
    <3>1. CASE h = h0 BY <3>1, <1>5, <2>3
    <3>2. CASE h \in e.held BY <3>2, <1>4, <1>7, <2>1, <2>2, <2>3 DEF Holding
    <3> QED BY <2>1, <3>1, <3>2
  <2>5. \A r \in f.fastKeys : \A h \in f.held : h.k # r.k BY <1>4, <1>5, <1>6, <2>1 DEF Holding
  <2>6. \A x \in f.mail : IsFastPost(x) /\ ~Verified(f, x) => \E h \in f.held : h.m = x
    <3> SUFFICES ASSUME NEW x \in f.mail, IsFastPost(x), ~Verified(f, x) PROVE \E h \in f.held : h.m = x OBVIOUS
    <3>1. CASE x = m BY <3>1, <1>5, <2>1
    <3>2. CASE x # m BY <3>2, <1>4, <2>1, <2>2 DEF Holding
    <3> QED BY <3>1, <3>2
  <2> QED BY <2>4, <2>5, <2>6 DEF Holding
<1>9. f.mail = e.mail /\ f.polls = e.polls /\ f.index = e.index BY <1>3 DEF Refit
<1> QED BY <1>3, <1>4, <1>8, <1>9 DEF GoodStep, StoredWell

-----------------------------------------------------------------------------
(* Tmail: every action keeps the store.                                      *)

\* The two threads: the client's send and the swarm loop.
Senders == [pc : {"idle", "claim", "store", "verdict"}, m : Msgs \cup {0}, stored : BOOLEAN]
Swarms == [pc : {"idle", "judge", "claim", "verdict"}, todo : SUBSET Msgs, m : Msgs \cup {0}]
Threads ==
    /\ sender \in Senders /\ (sender.pc # "idle" => sender.m \in Msgs /\ IsProof(sender.m))
    /\ swarm \in Swarms /\ (\A m \in swarm.todo : IsProof(m))
    /\ (swarm.pc \in {"claim", "verdict"} => swarm.m \in swarm.todo)
    /\ (swarm.pc = "idle" => swarm.todo = {})
GoneInv == gone \subseteq Msgs /\ \A m \in gone : mdb.index[m] = "burned" \/ IsExpired(m, clock)
MailInv == clock \in 0..MaxTime /\ active \in Scenarios /\ Good(mdb) /\ Threads /\ GoneInv

\* The empty store satisfies the invariant.
LEMMA MailStarts == ASSUME TmailInit PROVE MailInv
<1>1. mdb \in DBs
  <2>1. EmptyMail \in DBs BY DEF EmptyMail, DBs, IndexTags, VerdictTags
  <2> QED BY <2>1 DEF TmailInit
<1>2. /\ mdb.mail = {} /\ mdb.held = {} /\ mdb.fastKeys = {} /\ mdb.receipts = {} /\ mdb.polls = {}
      /\ \A m \in Msgs : mdb.index[m] = "none" BY DEF TmailInit, EmptyMail
<1>3. Sane(mdb)
  <2>1. Cardinality(mdb.receipts) = 0 BY <1>2, FS_EmptySet
  <2>2. IndexOk(mdb) /\ OneKey(mdb) BY <1>2 DEF IndexOk, OneKey
  <2>3. Cardinality(mdb.receipts) <= ReceiptCap BY <2>1, TmNats
  <2> QED BY <1>1, <2>2, <2>3 DEF Sane
<1>4. Holding(mdb, {}) BY <1>2 DEF Holding
<1>5. Bounded(mdb.mail, mdb.polls)
  <2>1. \A w \in Boards \ mdb.polls : Cardinality(Posts(mdb.mail, w)) <= RetainAnon
    <3> SUFFICES ASSUME NEW w \in Boards PROVE Cardinality(Posts(mdb.mail, w)) <= RetainAnon OBVIOUS
    <3>1. Posts(mdb.mail, w) = {} BY <1>2 DEF Posts
    <3>2. Cardinality(Posts(mdb.mail, w)) = 0 BY <3>1, FS_EmptySet
    <3> QED BY <3>2, TmNats
  <2> QED BY <1>2, <2>1 DEF Bounded
<1>6. Threads BY DEF TmailInit, Threads, Senders, Swarms, Idle
<1>7. clock \in 0..MaxTime /\ active \in Scenarios /\ GoneInv BY TmNats DEF TmailInit, GoneInv
<1> QED BY <1>3, <1>4, <1>5, <1>6, <1>7 DEF MailInv, Good

-----------------------------------------------------------------------------
\* Every change of the store is a good one, and what it takes away for good is burned.
Kind == GoodStep(mdb, mdb', clock)
Burns == \A m \in gone' \ gone : m \in Msgs /\ mdb'.index[m] = "burned"

\* A step that leaves the store alone is a good step.
LEMMA StillThere == ASSUME MailInv, mdb' = mdb PROVE Kind
BY SameGood DEF MailInv, Kind

\* A claim is a good step.
LEMMA ClaimKind ==
    ASSUME MailInv, NEW m \in Msgs, mdb' = ClaimNullifier(mdb, m) PROVE Kind
<1>1. PICK e : e = ClaimNullifier(mdb, m) OBVIOUS
<1>2. Sane(e) /\ SameBox(mdb, e) /\ e.verdict = mdb.verdict BY <1>1, ClaimIs DEF MailInv, Good
<1>3. GoodStep(mdb, e, clock) BY <1>2, BoxGood DEF SameBox, MailInv
<1> QED BY <1>1, <1>3 DEF Kind

\* A release is a good step.
LEMMA ReleaseKind ==
    ASSUME NEW d, Good(d), NEW m \in Msgs, NEW t, NEW e, e = ReleaseNullifier(d, m) PROVE GoodStep(d, e, t)
<1>2. Sane(e) /\ SameBox(d, e) /\ e.verdict = d.verdict BY ReleaseIs DEF Good
<1> QED BY <1>2, BoxGood DEF SameBox

\* A deposited receipt is a good step.
LEMMA DepositKind ==
    ASSUME MailInv, NEW c \in ReceiptIds, mdb' = [mdb EXCEPT !.receipts = PutReceipt(@, c)] PROVE Kind
<1>1. PICK e : e = [mdb EXCEPT !.receipts = PutReceipt(@, c)] OBVIOUS
<1>2. Deposited(mdb, e) BY <1>1, DepositIs DEF MailInv, Good
<1>3. GoodStep(mdb, e, clock) BY <1>2, BoxGood DEF Deposited, MailInv
<1> QED BY <1>1, <1>3 DEF Kind

\* A registered poll is a good step.
LEMMA PollKind ==
    ASSUME MailInv, NEW w \in DOMAIN PollRoot, mdb' = [mdb EXCEPT !.polls = @ \cup {w}] PROVE Kind
<1>1. PICK e : e = [mdb EXCEPT !.polls = @ \cup {w}] OBVIOUS
<1>2. /\ Sane(e) /\ e.mail = mdb.mail /\ e.index = mdb.index /\ e.verdict = mdb.verdict /\ e.claims = mdb.claims
      /\ e.polls = mdb.polls \cup {w} /\ e.receipts = mdb.receipts
      /\ e.fastKeys = mdb.fastKeys /\ e.held = mdb.held /\ e.regPending = mdb.regPending BY <1>1, PollIs DEF MailInv, Good
<1>3. GoodStep(mdb, e, clock) BY <1>2, BoxGood DEF MailInv
<1> QED BY <1>1, <1>3 DEF Kind

\* A verdict is a good step.
LEMMA VerdictKind ==
    ASSUME MailInv, NEW m \in Msgs, IsProof(m), NEW v \in Verdicts, mdb' = SetAnonVerdict(mdb, m, v, clock) PROVE Kind /\ VerdictSet(mdb, mdb', m, v)
<1>1. PICK e : e = SetAnonVerdict(mdb, m, v, clock) OBVIOUS
<1>2. GoodStep(mdb, e, clock) /\ VerdictSet(mdb, e, m, v) BY <1>1, VerdictGood DEF MailInv
<1> QED BY <1>1, <1>2 DEF Kind

\* Storing a message that is no fast post is a good step.
LEMMA AnswerKind ==
    ASSUME MailInv, NEW m \in Msgs, ~IsFastPost(m), mdb' = StoreTmail(mdb, m, clock).db PROVE Kind
<1>1. PICK r : r = StoreTmail(mdb, m, clock) OBVIOUS
<1>2. GoodStep(mdb, r.db, clock) BY <1>1, AnsweredGood DEF MailInv
<1> QED BY <1>1, <1>2 DEF Kind

\* After a good step the store is good.
LEMMA GoodAfter == ASSUME NEW d, NEW e, NEW t, GoodStep(d, e, t) PROVE Good(e)
BY DEF GoodStep, Good

\* A post from gossip, stored and set pending, is a good step.
LEMMA GossipKind ==
    ASSUME MailInv, NEW m \in Msgs, IsProof(m), NEW r, r = StoreTmail(mdb, m, clock),
           mdb' = r.db \/ mdb' = SetAnonVerdict(r.db, m, "pending", clock)
    PROVE  Kind
<1>1. ~IsFastPost(m) BY KindIs
<1>2. GoodStep(mdb, r.db, clock) BY <1>1, AnsweredGood DEF MailInv
<1>3. CASE mdb' = r.db BY <1>2, <1>3 DEF Kind
<1>4. CASE mdb' = SetAnonVerdict(r.db, m, "pending", clock)
  <2>1. PICK d : d = r.db OBVIOUS
  <2>2. PICK v \in Verdicts : v = "pending" BY DEF Verdicts
  <2>3. PICK e : e = SetAnonVerdict(d, m, v, clock) OBVIOUS
  <2>4. Good(d) BY <1>2, <2>1, GoodAfter
  <2>5. GoodStep(d, e, clock) BY <2>3, <2>4, VerdictGood
  <2>6. GoodStep(mdb, e, clock) BY <2>1, <2>5, <1>2, GoodTwice
  <2> QED BY <2>1, <2>2, <2>3, <2>6, <1>4 DEF Kind
<1> QED BY <1>3, <1>4

\* The client's post, stored or its claim released, is a good step.
LEMMA SendKind ==
    ASSUME MailInv, NEW m \in Msgs, IsProof(m), NEW r, r = StoreTmail(mdb, m, clock),
           mdb' = r.db \/ mdb' = ReleaseNullifier(r.db, m)
    PROVE  Kind
<1>1. ~IsFastPost(m) BY KindIs
<1>2. GoodStep(mdb, r.db, clock) BY <1>1, AnsweredGood DEF MailInv
<1>3. CASE mdb' = r.db BY <1>2, <1>3 DEF Kind
<1>4. CASE mdb' = ReleaseNullifier(r.db, m)
  <2>1. PICK d : d = r.db OBVIOUS
  <2>3. PICK e : e = ReleaseNullifier(d, m) OBVIOUS
  <2>4. Good(d) BY <1>2, <2>1, GoodAfter
  <2>5. GoodStep(d, e, clock) BY <2>3, <2>4, ReleaseKind
  <2>6. GoodStep(mdb, e, clock) BY <2>1, <2>5, <1>2, GoodTwice
  <2> QED BY <2>1, <2>3, <2>6, <1>4 DEF Kind
<1> QED BY <1>3, <1>4

\* A fast post under a registered key is a good step.
LEMMA FastKind ==
    ASSUME MailInv, NEW m \in Msgs, FastRegistration(mdb, m) # {}, NEW take, StoreFast(m, take)
    PROVE  Kind
<1>1. PICK r : r = StoreTmail(mdb, m, clock) OBVIOUS
<1>2. mdb' = CASE ~take.ok -> mdb [] take.ok /\ r.res = "stored" -> [r.db EXCEPT !.verdict[m] = "verified"] [] OTHER -> r.db
  BY <1>1 DEF StoreFast
<1>3. AnsweredWell(mdb, r, m, clock) BY <1>1, StoreGood DEF MailInv
<1>4. \/ mdb' = mdb
      \/ r.res # "stored" /\ mdb' = r.db
      \/ r.res = "stored" /\ mdb' = WithVerdict(r.db, m, "verified")
  <2>1. \/ mdb' = mdb
        \/ r.res # "stored" /\ mdb' = r.db
        \/ r.res = "stored" /\ mdb' = [r.db EXCEPT !.verdict[m] = "verified"]
    BY <1>2, Zenon
  <2> QED BY <2>1, Zenon DEF WithVerdict
<1>5. CASE mdb' = mdb BY <1>5, StillThere
<1>6. CASE r.res # "stored" /\ mdb' = r.db
  <2>1. r.db = mdb \/ GoodStep(mdb, r.db, clock) BY <1>3, <1>6 DEF AnsweredWell
  <2> QED BY <2>1, <1>6, StillThere DEF Kind
<1>7. CASE r.res = "stored" /\ mdb' = WithVerdict(r.db, m, "verified")
  <2>1. StoredWell(mdb, r.db, m, clock) BY <1>3, <1>7 DEF AnsweredWell
  <2>2. PICK f : f = WithVerdict(r.db, m, "verified") OBVIOUS
  <2>3. PICK e : e = r.db OBVIOUS
  <2>4. GoodStep(mdb, f, clock) BY <2>1, <2>2, <2>3, FastStored DEF MailInv, Good
  <2> QED BY <2>2, <2>4, <1>7 DEF Kind
<1> QED BY <1>4, <1>5, <1>6, <1>7

\* A fast post held back is a good step.
LEMMA HoldKind ==
    ASSUME MailInv, NEW m \in Msgs, IsFastPost(m), FastRegistration(mdb, m) = {}, NEW d, d = PruneFast(mdb, clock),
           mdb' = d \/ mdb' = HoldPending(d, m)
    PROVE  Kind
<1>1. FastPruned(mdb, d) BY PruneFastIs DEF MailInv, Good
<1>2. GoodStep(mdb, d, clock) /\ Good(d) BY <1>1, FastPrunedGood, GoodAfter DEF MailInv
<1>3. CASE mdb' = d BY <1>2, <1>3 DEF Kind
<1>4. CASE mdb' = HoldPending(d, m)
  <2>1. PICK r : r = StoreTmail(d, m, clock) OBVIOUS
  <2>2. AnsweredWell(d, r, m, clock) BY <1>2, <2>1, StoreGood
  <2>3. mdb' = IF r.res = "stored" THEN Waits(r.db, m, clock) ELSE r.db BY <1>4, <2>1 DEF HoldPending, Waits
  <2>4. CASE r.res # "stored"
    <3>1. GoodStep(d, r.db, clock) BY <2>2, <2>4, <1>2, SameGood DEF AnsweredWell
    <3>2. GoodStep(mdb, r.db, clock) BY <3>1, <1>2, GoodTwice
    <3> QED BY <3>2, <2>3, <2>4 DEF Kind
  <2>5. CASE r.res = "stored"
    <3>1. StoredWell(d, r.db, m, clock) BY <2>2, <2>5 DEF AnsweredWell
    <3>2. FastRegistration(d, m) = {} BY <1>1 DEF FastPruned, FastRegistration
    <3>3. PICK e, f : e = r.db /\ f = Waits(e, m, clock) OBVIOUS
    <3>4. clock \in Nat BY TmNats DEF MailInv
    <3>5. GoodStep(d, f, clock) BY <3>1, <3>2, <3>3, <3>4, WaitsGood
    <3>6. GoodStep(mdb, f, clock) BY <3>5, <1>2, GoodTwice
    <3> QED BY <3>3, <3>6, <2>3, <2>5 DEF Kind
  <2> QED BY <2>4, <2>5
<1> QED BY <1>3, <1>4

\* Thinning is a good step.
LEMMA ThinKind ==
    ASSUME MailInv, NEW e, Thinned(mdb, e, clock, {}), mdb' = e PROVE Kind
BY ThinnedGood DEF MailInv, Kind

\* A good step that keeps tombstones and threads in order keeps the invariant of the
\* mail.
LEMMA MailFrom ==
    ASSUME MailInv, Kind, Burns, gone \subseteq gone', clock' \in 0..MaxTime, clock <= clock', active' = active, Threads'
    PROVE  MailInv'
<1>1. Good(mdb') BY GoodAfter DEF Kind
<1>2. clock \in Nat /\ clock' \in Nat BY TmNats DEF MailInv
<1>3. \A m \in Msgs : IsExpired(m, clock) => IsExpired(m, clock') BY <1>2, ExpiryStays
<1>4. gone' \subseteq Msgs BY DEF Burns, MailInv, GoneInv
<1>5. \A m \in gone' : mdb'.index[m] = "burned" \/ IsExpired(m, clock')
  <2> SUFFICES ASSUME NEW m \in gone' PROVE mdb'.index[m] = "burned" \/ IsExpired(m, clock') OBVIOUS
  <2>1. CASE m \in gone
    <3>1. m \in Msgs /\ (mdb.index[m] = "burned" \/ IsExpired(m, clock)) BY <2>1 DEF MailInv, GoneInv
    <3> QED BY <3>1, <1>3 DEF Kind, GoodStep
  <2>2. CASE m \notin gone BY <2>2 DEF Burns
  <2> QED BY <2>1, <2>2
<1> QED BY <1>1, <1>4, <1>5 DEF MailInv, GoneInv, Good

\* A good step in which nothing is burned and no time passes keeps the invariant of the
\* mail.
LEMMA QuietMail ==
    ASSUME MailInv, Kind, gone' = gone, clock' = clock, active' = active, Threads'
    PROVE  MailInv'
<1>1. clock \in 0..MaxTime /\ clock <= clock' BY TmNats DEF MailInv
<1>2. Burns BY DEF Burns
<1> QED BY <1>1, <1>2, MailFrom

\* The messages of a behaviour are messages.
LEMMA ActiveMsgs == ASSUME MailInv, NEW m \in active PROVE m \in Msgs
BY TmSets DEF MailInv

\* The two threads work on posts with a proof.
LEMMA ProofMail ==
    ASSUME MailInv PROVE /\ sender.pc # "idle" => sender.m \in Msgs /\ IsProof(sender.m)
                         /\ swarm.pc \in {"claim", "verdict"} => swarm.m \in Msgs /\ IsProof(swarm.m) /\ swarm.m \in swarm.todo
                         /\ \A m \in swarm.todo : m \in Msgs /\ IsProof(m)
BY DEF MailInv, Threads, Swarms

\* The check of a client's proof keeps the invariant of the mail.
LEMMA SendJudgeMail == ASSUME MailInv, NEW m \in active, SendJudge(m) PROVE MailInv'
<1>1. m \in Msgs /\ IsProof(m) BY ActiveMsgs DEF SendJudge, IsProof
<1>2. Kind BY StillThere DEF SendJudge
<1>3. Threads' BY <1>1 DEF SendJudge, MailInv, Threads, Senders
<1> QED BY <1>2, <1>3, QuietMail DEF SendJudge

\* The client's claim keeps the invariant of the mail.
LEMMA SendClaimMail == ASSUME MailInv, SendClaim PROVE MailInv'
<1>1. sender.m \in Msgs /\ IsProof(sender.m) BY ProofMail DEF SendClaim
<1>2. Kind BY <1>1, ClaimKind DEF SendClaim
<1>3. Threads' BY <1>1 DEF SendClaim, MailInv, Threads, Senders
<1> QED BY <1>2, <1>3, QuietMail DEF SendClaim

\* Storing the client's post keeps the invariant of the mail.
LEMMA SendStoreMail == ASSUME MailInv, SendStore PROVE MailInv'
<1>1. sender.m \in Msgs /\ IsProof(sender.m) BY ProofMail DEF SendStore
<1>2. PICK r : /\ r = StoreTmail(mdb, sender.m, clock)
               /\ \/ mdb' = r.db /\ sender' = [sender EXCEPT !.pc = "verdict", !.stored = (r.res = "stored")]
                  \/ (mdb' = r.db \/ mdb' = ReleaseNullifier(r.db, sender.m)) /\ sender' = Idle
  BY DEF SendStore
<1>3. Kind BY <1>1, <1>2, SendKind
<1>4. Threads'
  <2>1. sender' \in Senders /\ (sender'.pc # "idle" => sender'.m = sender.m)
    <3>1. CASE sender' = Idle BY <3>1 DEF Senders, Idle
    <3>2. CASE sender' = [sender EXCEPT !.pc = "verdict", !.stored = (r.res = "stored")] BY <3>2 DEF Senders, MailInv, Threads
    <3> QED BY <1>2, <3>1, <3>2
  <2> QED BY <1>1, <2>1 DEF SendStore, MailInv, Threads
<1> QED BY <1>3, <1>4, QuietMail DEF SendStore

\* The verdict on the client's post keeps the invariant of the mail.
LEMMA SendVerdictMail == ASSUME MailInv, SendVerdict PROVE MailInv'
<1>1. sender.m \in Msgs /\ IsProof(sender.m) BY ProofMail DEF SendVerdict
<1>2. PICK v \in Verdicts : v = "verified" BY DEF Verdicts
<1>3. Kind BY <1>1, <1>2, VerdictKind DEF SendVerdict
<1>4. Threads' BY DEF SendVerdict, MailInv, Threads, Senders, Idle
<1> QED BY <1>3, <1>4, QuietMail DEF SendVerdict

\* Threads that do not move stay in order.
LEMMA SameThreads == ASSUME MailInv, sender' = sender, swarm' = swarm PROVE Threads'
BY DEF MailInv, Threads

\* A deposited receipt keeps the invariant of the mail.
LEMMA DepositMail == ASSUME MailInv, NEW c \in ReceiptIds, DepositReceipt(c) PROVE MailInv'
<1>1. Kind BY DepositKind DEF DepositReceipt
<1>2. Threads' BY SameThreads DEF DepositReceipt
<1> QED BY <1>1, <1>2, QuietMail DEF DepositReceipt

\* A named message keeps the invariant of the mail.
LEMMA NamedMail == ASSUME MailInv, NEW m \in active, StoreNamed(m) PROVE MailInv'
<1>1. m \in Msgs /\ ~IsFastPost(m) BY ActiveMsgs DEF StoreNamed, IsFastPost
<1>2. Kind BY <1>1, AnswerKind DEF StoreNamed
<1>3. Threads' BY SameThreads DEF StoreNamed
<1> QED BY <1>2, <1>3, QuietMail DEF StoreNamed

\* A post from gossip keeps the invariant of the mail.
LEMMA GossipMail == ASSUME MailInv, NEW m \in active, GossipPost(m) PROVE MailInv'
<1>1. m \in Msgs /\ IsProof(m) BY ActiveMsgs DEF GossipPost, IsProof
<1>2. PICK r : /\ r = StoreTmail(mdb, m, clock)
               /\ mdb' = r.db \/ mdb' = SetAnonVerdict(r.db, m, "pending", clock)
               /\ swarm' = swarm \/ swarm' = [pc |-> "judge", todo |-> {m}, m |-> 0]
  BY DEF GossipPost
<1>3. Kind BY <1>1, <1>2, GossipKind
<1>4. Threads'
  <2>1. CASE swarm' = swarm BY <2>1, SameThreads DEF GossipPost
  <2>2. CASE swarm' = [pc |-> "judge", todo |-> {m}, m |-> 0]
    <3>1. swarm' \in Swarms /\ swarm'.todo = {m} /\ swarm'.pc = "judge" BY <1>1, <2>2 DEF Swarms
    <3> QED BY <1>1, <3>1 DEF GossipPost, MailInv, Threads
  <2> QED BY <1>2, <2>1, <2>2
<1> QED BY <1>3, <1>4, QuietMail DEF GossipPost

\* The posts a receipt decides.
Undecided(c) == {m \in mdb.mail : Envelope[m].kind = "proof" /\ Envelope[m].receipt = c /\ mdb.verdict[m] \in {"none", "pending"}}

\* A receipt from a peer keeps the invariant of the mail.
LEMMA ArrivesMail == ASSUME MailInv, NEW c \in ReceiptIds, ReceiptArrives(c) PROVE MailInv'
<1>1. Kind BY DepositKind DEF ReceiptArrives
<1>2. Threads'
  <2>1. swarm' = [pc |-> "judge", todo |-> Undecided(c), m |-> 0] BY DEF ReceiptArrives, Undecided
  <2>2. Undecided(c) \in SUBSET Msgs /\ \A m \in Undecided(c) : IsProof(m) BY DbFields DEF Undecided, IsProof, MailInv, Good, Sane
  <2>3. swarm' \in Swarms /\ swarm'.todo = Undecided(c) /\ swarm'.pc = "judge" BY <2>1, <2>2 DEF Swarms
  <2> QED BY <2>2, <2>3 DEF ReceiptArrives, MailInv, Threads
<1> QED BY <1>1, <1>2, QuietMail DEF ReceiptArrives

\* The answers of a check.
LEMMA JudgeTags == ASSUME NEW d, NEW m, NEW t PROVE Judge(d, m, t) \in {"failed", "unknown", "verified"}
BY DEF Judge

\* The loop goes on with what is left to judge.
LEMMA LeftThreads ==
    ASSUME MailInv, NEW left \in SUBSET swarm.todo, sender' = sender,
           swarm' = [pc |-> IF left = {} THEN "idle" ELSE "judge", todo |-> left, m |-> 0]
    PROVE  Threads'
<1>1. \A m \in left : m \in Msgs /\ IsProof(m) BY ProofMail
<1>2. swarm' \in Swarms /\ swarm'.todo = left /\ swarm'.pc = (IF left = {} THEN "idle" ELSE "judge") BY <1>1 DEF Swarms
<1> QED BY <1>1, <1>2 DEF MailInv, Threads

\* What the loop's judging of m comes to.
LoopJudges(m, v, left) ==
    /\ v = Judge(mdb, m, clock) /\ left = swarm.todo \ {m}
    /\ \/ v = "verified" /\ swarm' = [swarm EXCEPT !.pc = "claim", !.m = m] /\ mdb' = mdb /\ gone' = gone
       \/ /\ v # "verified" /\ mdb' = SetAnonVerdict(mdb, m, v, clock)
          /\ gone' = IF v = "failed" THEN gone \cup ({m} \cap mdb.mail) ELSE gone
          /\ swarm' = [pc |-> IF left = {} THEN "idle" ELSE "judge", todo |-> left, m |-> 0]

\* The loop judges one of the posts it has to.
LEMMA JudgesOne == ASSUME LoopJudge PROVE \E m \in swarm.todo : \E v, left : LoopJudges(m, v, left)
BY DEF LoopJudge, LoopJudges

\* The loop's check of a proof keeps the invariant of the mail.
LEMMA LoopJudgeMail == ASSUME MailInv, LoopJudge PROVE MailInv'
<1>m. PICK m \in swarm.todo : \E v, left : LoopJudges(m, v, left) BY JudgesOne
<1>1. PICK v, left :
        /\ v = Judge(mdb, m, clock) /\ left = swarm.todo \ {m}
        /\ \/ v = "verified" /\ swarm' = [swarm EXCEPT !.pc = "claim", !.m = m] /\ mdb' = mdb /\ gone' = gone
           \/ /\ v # "verified" /\ mdb' = SetAnonVerdict(mdb, m, v, clock)
              /\ gone' = IF v = "failed" THEN gone \cup ({m} \cap mdb.mail) ELSE gone
              /\ swarm' = [pc |-> IF left = {} THEN "idle" ELSE "judge", todo |-> left, m |-> 0]
  BY <1>m DEF LoopJudges
<1>2. m \in Msgs /\ IsProof(m) BY ProofMail
<1>3. CASE v = "verified" /\ swarm' = [swarm EXCEPT !.pc = "claim", !.m = m] /\ mdb' = mdb /\ gone' = gone
  <2>1. Threads' BY <1>2, <1>3 DEF LoopJudge, MailInv, Threads, Swarms
  <2>2. Kind BY <1>3, StillThere
  <2> QED BY <1>3, <2>1, <2>2, QuietMail DEF LoopJudge
<1>4. CASE /\ v # "verified" /\ mdb' = SetAnonVerdict(mdb, m, v, clock)
           /\ gone' = IF v = "failed" THEN gone \cup ({m} \cap mdb.mail) ELSE gone
           /\ swarm' = [pc |-> IF left = {} THEN "idle" ELSE "judge", todo |-> left, m |-> 0]
  <2>1. v \in Verdicts BY <1>1, JudgeTags DEF Verdicts
  <2>2. Kind /\ VerdictSet(mdb, mdb', m, v) BY <1>2, <1>4, <2>1, VerdictKind
  <2>3. Threads' BY <1>1, <1>4, LeftThreads DEF LoopJudge
  <2>4. Burns /\ gone \subseteq gone' BY <1>2, <1>4, <2>2 DEF Burns, VerdictSet
  <2>5. clock' = clock /\ active' = active BY DEF LoopJudge
  <2>6. clock \in 0..MaxTime /\ clock <= clock' BY <2>5, TmNats DEF MailInv
  <2> QED BY <2>2, <2>3, <2>4, <2>5, <2>6, MailFrom
<1> QED BY <1>1, <1>3, <1>4

\* The loop's claim keeps the invariant of the mail.
LEMMA LoopClaimMail == ASSUME MailInv, LoopClaim PROVE MailInv'
<1>1. swarm.m \in Msgs /\ IsProof(swarm.m) /\ swarm.m \in swarm.todo BY ProofMail DEF LoopClaim
<1>2. Kind BY <1>1, ClaimKind DEF LoopClaim
<1>3. Threads' BY <1>1 DEF LoopClaim, MailInv, Threads, Swarms
<1> QED BY <1>2, <1>3, QuietMail DEF LoopClaim

\* The loop's verdict keeps the invariant of the mail.
LEMMA LoopVerdictMail == ASSUME MailInv, LoopVerdict PROVE MailInv'
<1>1. swarm.m \in Msgs /\ IsProof(swarm.m) BY ProofMail DEF LoopVerdict
<1>2. PICK v \in Verdicts : v = "verified" BY DEF Verdicts
<1>3. Kind BY <1>1, <1>2, VerdictKind DEF LoopVerdict
<1>4. Threads' BY LeftThreads DEF LoopVerdict
<1> QED BY <1>3, <1>4, QuietMail DEF LoopVerdict

\* A client's fast post keeps the invariant of the mail.
LEMMA SendFastMail == ASSUME MailInv, NEW m \in active, SendFast(m) PROVE MailInv'
<1>1. PICK take : take = FloodTake(flood, KeyOf(m), clock, TRUE) OBVIOUS
<1>2. Kind BY <1>1, ActiveMsgs, FastKind DEF SendFast
<1>3. Threads' BY SameThreads DEF SendFast
<1> QED BY <1>2, <1>3, QuietMail DEF SendFast

\* A fast post from gossip keeps the invariant of the mail.
LEMMA ReceiveFastMail == ASSUME MailInv, NEW m \in active, ReceiveFast(m) PROVE MailInv'
<1>1. PICK take : take = FloodTake(flood, KeyOf(m), clock, FALSE) OBVIOUS
<1>2. Kind BY <1>1, ActiveMsgs, FastKind DEF ReceiveFast
<1>3. Threads' BY SameThreads DEF ReceiveFast
<1> QED BY <1>2, <1>3, QuietMail DEF ReceiveFast

\* A fast post held back keeps the invariant of the mail.
LEMMA HoldFastMail == ASSUME MailInv, NEW m \in active, HoldFast(m) PROVE MailInv'
<1>1. PICK d : d = PruneFast(mdb, clock) OBVIOUS
<1>2. mdb' = d \/ mdb' = HoldPending(d, m) BY <1>1 DEF HoldFast
<1>3. m \in Msgs /\ IsFastPost(m) /\ FastRegistration(mdb, m) = {} BY ActiveMsgs DEF HoldFast, FastChecks
<1>4. Kind BY <1>1, <1>2, <1>3, HoldKind
<1>5. Threads' BY SameThreads DEF HoldFast
<1> QED BY <1>4, <1>5, QuietMail DEF HoldFast

\* A burn keeps the invariant of the mail.
LEMMA BurnMail == ASSUME MailInv, NEW m \in active, BurnRevoke(m) PROVE MailInv'
<1>0. PICK S : S = {m} OBVIOUS
<1>1. PICK e : e = DeleteByMsgId(mdb, S) OBVIOUS
<1>2. /\ Thinned(mdb, e, clock, {})
      /\ \A x \in Msgs : e.index[x] = IF x \in S /\ x \in mdb.mail THEN "burned" ELSE mdb.index[x]
  BY <1>1, DeleteThins DEF MailInv, Good
<1>3. mdb' = e /\ m \in mdb.mail /\ m \in Msgs BY <1>0, <1>1, ActiveMsgs DEF BurnRevoke, Live
<1>4. Kind BY <1>2, <1>3, ThinKind
<1>5. Threads' BY SameThreads DEF BurnRevoke
<1>6. Burns /\ gone \subseteq gone' BY <1>0, <1>2, <1>3 DEF Burns, BurnRevoke
<1>7. clock' = clock /\ active' = active BY DEF BurnRevoke
<1>8. clock \in 0..MaxTime /\ clock <= clock' BY <1>7, TmNats DEF MailInv
<1> QED BY <1>4, <1>5, <1>6, <1>7, <1>8, MailFrom

\* A new poll keeps the invariant of the mail.
LEMMA PollMail == ASSUME MailInv, NEW w \in Boards, RegisterPoll(w) PROVE MailInv'
<1>1. Kind BY PollKind DEF RegisterPoll
<1>2. Threads' BY SameThreads DEF RegisterPoll
<1> QED BY <1>1, <1>2, QuietMail DEF RegisterPoll

\* The reaper keeps the invariant of the mail.
LEMMA ReapMail == ASSUME MailInv, Reap PROVE MailInv'
<1>1. PICK e : e = PruneExpired(mdb, clock) OBVIOUS
<1>2. Thinned(mdb, e, clock, {}) BY <1>1, PruneThins DEF MailInv, Good
<1>3. Kind BY <1>1, <1>2, ThinKind DEF Reap
<1>4. Threads' BY SameThreads DEF Reap
<1> QED BY <1>3, <1>4, QuietMail DEF Reap

\* A new root keeps the invariant of the mail.
LEMMA LearnMail == ASSUME MailInv, NEW r, LearnRoot(r) PROVE MailInv'
<1>1. Kind BY StillThere DEF LearnRoot
<1>2. Threads' BY SameThreads DEF LearnRoot
<1> QED BY <1>1, <1>2, QuietMail DEF LearnRoot

\* The clock keeps the invariant of the mail.
LEMMA TickMail == ASSUME MailInv, TmailTick PROVE MailInv'
<1>1. Kind BY StillThere DEF TmailTick
<1>2. Threads' BY SameThreads DEF TmailTick
<1>3. clock' \in 0..MaxTime /\ clock <= clock' BY TmNats DEF TmailTick, MailInv
<1>4. gone' = gone /\ active' = active BY DEF TmailTick
<1>5. Burns BY <1>4 DEF Burns
<1> QED BY <1>1, <1>2, <1>3, <1>4, <1>5, MailFrom

\* A restart keeps the invariant of the mail.
LEMMA RestartMail == ASSUME MailInv, TmailRestart PROVE MailInv'
<1>1. Kind BY StillThere DEF TmailRestart
<1>2. Threads' BY DEF TmailRestart, Threads, Idle, Senders, Swarms
<1> QED BY <1>1, <1>2, QuietMail DEF TmailRestart

\* Every step keeps the invariant of the mail.
LEMMA MailKept == ASSUME MailInv, [TmailNext]_tmailVars PROVE MailInv'
<1>1. CASE UNCHANGED tmailVars
  <2>1. Kind BY <1>1, StillThere DEF tmailVars
  <2>2. Threads' BY <1>1, SameThreads DEF tmailVars
  <2> QED BY <1>1, <2>1, <2>2, QuietMail DEF tmailVars
<1>2. CASE TmailStep
  <2>1. CASE \E m \in active : \/ SendJudge(m) \/ StoreNamed(m) \/ GossipPost(m)
                               \/ SendFast(m) \/ ReceiveFast(m) \/ HoldFast(m) \/ BurnRevoke(m)
    BY <2>1, SendJudgeMail, NamedMail, GossipMail, SendFastMail, ReceiveFastMail, HoldFastMail, BurnMail
  <2>2. CASE SendClaim \/ SendStore \/ SendVerdict BY <2>2, SendClaimMail, SendStoreMail, SendVerdictMail
  <2>3. CASE \E c \in ReceiptIds : DepositReceipt(c) \/ ReceiptArrives(c) BY <2>3, DepositMail, ArrivesMail
  <2>4. CASE LoopJudge \/ LoopClaim \/ LoopVerdict BY <2>4, LoopJudgeMail, LoopClaimMail, LoopVerdictMail
  <2>5. CASE \E w \in Boards : RegisterPoll(w) BY <2>5, PollMail
  <2>6. CASE \E r \in NewRoots : LearnRoot(r) BY <2>6, LearnMail
  <2>7. CASE Reap \/ TmailTick \/ TmailRestart BY <2>7, ReapMail, TickMail, RestartMail
  <2> QED BY <1>2, <2>1, <2>2, <2>3, <2>4, <2>5, <2>6, <2>7 DEF TmailStep
<1> QED BY <1>1, <1>2 DEF TmailNext

\* The invariant of the mail gives what MailSound says.
LEMMA MailIs == ASSUME MailInv PROVE MailSound
<1>1. mdb \in DBs /\ IndexOk(mdb) /\ OneKey(mdb) /\ Cardinality(mdb.receipts) <= ReceiptCap BY DEF MailInv, Good, Sane
<1>2. TmailTypeOK
  <2>1. /\ mdb.mail \subseteq Msgs /\ mdb.index \in [Msgs -> IndexTags] /\ mdb.verdict \in [Msgs -> VerdictTags]
        /\ mdb.claims \in [Nullifiers -> Msgs \cup {Unclaimed}] /\ mdb.receipts \subseteq ReceiptIds BY <1>1, DbFields
  <2> QED BY <1>1, <2>1 DEF TmailTypeOK, MailInv, IndexTags, VerdictTags, IndexOk, OneKey, GoneInv
<1>3. BurnedNeverServed
  <2> SUFFICES ASSUME NEW m \in gone PROVE ~Served(m) BY DEF BurnedNeverServed
  <2>1. m \in Msgs /\ (mdb.index[m] = "burned" \/ IsExpired(m, clock)) BY DEF MailInv, GoneInv
  <2> QED BY <1>1, <2>1 DEF Served, IndexOk
<1>4. HeldIsTracked BY DEF MailInv, Good, Holding, HeldIsTracked
<1>5. RetentionBounds BY <1>1, BoundsAre DEF MailInv, Good
<1> QED BY <1>2, <1>3, <1>4, <1>5 DEF MailSound

\* The mail store keeps its two indexes and its bounds, tracks the fast posts it holds back,
\* and serves nothing that was burned or refused for good, whatever order messages,
\* verdicts, burns and restarts come in (store_tmail, set_anon_verdict, delete_by_msg_id).
THEOREM MailIsSound == TmailSpec => []MailSound
<1>1. TmailInit => MailInv BY MailStarts
<1>2. MailInv /\ [TmailNext]_tmailVars => MailInv' BY MailKept
<1>3. MailInv => MailSound BY MailIs
<1> QED BY <1>1, <1>2, <1>3, PTL DEF TmailSpec

-----------------------------------------------------------------------------
(* Tmail: proofs, claims and posting keys.                                   *)

\* A poll with a member list of its own.
FixedPoll(w) == w \in mdb.polls /\ PollRoot[w] # AnySetRoot
\* A post this node may have accepted: its root is known here, its day has begun.
Known(m) ==
    /\ IsProof(m) /\ Envelope[m].ok /\ Day(Envelope[m].at) <= Day(clock)
    /\ Envelope[m].root \in setRoots \/ FixedPoll(Envelope[m].to)
\* A post past its time.
Late(m) == IsExpired(m, clock) \/ ~RootAccepted(mdb, m, clock)
\* What a step never takes back: time, roots, polls.
Grows == clock \in Nat /\ clock' \in Nat /\ clock <= clock' /\ setRoots \subseteq setRoots' /\ mdb.polls \subseteq mdb'.polls

\* A post whose root this node knew stays known.
LEMMA KnownStays == ASSUME Grows, NEW m \in Msgs, Known(m) PROVE Known(m)'
<1>1. PICK at \in Nat : at = Envelope[m].at BY EnvelopeIs
<1>2. Day(at) \in Nat /\ Day(clock) \in Nat /\ Day(clock') \in Nat /\ Day(clock) <= Day(clock') BY <1>1, DayNat, DayMono DEF Grows
<1>3. Day(at) <= Day(clock') BY <1>1, <1>2 DEF Known
<1>4. Envelope[m].root \in setRoots' \/ FixedPoll(Envelope[m].to)' BY DEF Known, Grows, FixedPoll
<1> QED BY <1>1, <1>3, <1>4 DEF Known

\* A post whose root is accepted is known.
LEMMA AcceptedKnown ==
    ASSUME NEW m \in Msgs, IsProof(m), Envelope[m].ok, Day(Envelope[m].at) <= Day(clock), RootAccepted(mdb, m, clock)
    PROVE  Known(m)
BY DEF RootAccepted, Known, FixedPoll, IsPoll

\* A known post past its time stays past it: a root is not accepted again after its day.
LEMMA LateStays == ASSUME Grows, NEW m \in Msgs, Known(m), Late(m) PROVE Late(m)'
<1>1. CASE IsExpired(m, clock)
  <2>1. IsExpired(m, clock') BY <1>1, ExpiryStays DEF Grows
  <2> QED BY <2>1 DEF Late
<1>2. CASE ~RootAccepted(mdb, m, clock)
  <2>1. PICK at \in Nat : at = Envelope[m].at BY EnvelopeIs
  <2>2. PICK a \in Nat, b \in Nat, c \in Nat : a = Day(at) /\ b = Day(clock) /\ c = Day(clock') /\ b <= c
    BY <2>1, DayNat, DayMono DEF Grows
  <2>3. a <= b BY <2>1, <2>2 DEF Known
  <2>4. PICK w : w = Envelope[m].to OBVIOUS
  <2> DEFINE inSet == Envelope[m].root \in setRoots /\ a <= b + 1 /\ b <= a + 1
             inNext == Envelope[m].root \in setRoots' /\ a <= c + 1 /\ c <= a + 1
  <2>5. RootAccepted(mdb, m, clock) <=>
          IF w \in mdb.polls THEN /\ a = PollDay[w] /\ b = PollDay[w]
                                  /\ IF PollRoot[w] = AnySetRoot THEN inSet ELSE Envelope[m].root = PollRoot[w]
          ELSE inSet
    BY <2>1, <2>2, <2>4 DEF RootAccepted, IsPoll
  <2>6. RootAccepted(mdb, m, clock)' <=>
          IF w \in mdb'.polls THEN /\ a = PollDay[w] /\ c = PollDay[w]
                                   /\ IF PollRoot[w] = AnySetRoot THEN inNext ELSE Envelope[m].root = PollRoot[w]
          ELSE inNext
    BY <2>1, <2>2, <2>4 DEF RootAccepted, IsPoll
  <2>7. Envelope[m].root \in setRoots \/ (w \in mdb.polls /\ PollRoot[w] # AnySetRoot) BY <2>4 DEF Known, FixedPoll
  <2>8. mdb.polls \subseteq mdb'.polls BY DEF Grows
  <2>9. ~RootAccepted(mdb, m, clock)'
    <3>1. CASE w \notin mdb.polls
      <4>1. b > a + 1 BY <1>2, <2>3, <2>5, <2>7, <3>1
      <4>2. c > a + 1 BY <4>1, <2>2
      <4> QED BY <2>6, <4>2
    <3>2. CASE w \in mdb.polls
      <4>1. CASE a # PollDay[w] BY <4>1, <3>2, <2>6, <2>8
      <4>2. CASE a = PollDay[w] /\ b # PollDay[w]
        <5>1. c # a BY <4>2, <2>2, <2>3
        <5> QED BY <5>1, <4>2, <3>2, <2>6, <2>8
      <4>3. CASE a = PollDay[w] /\ b = PollDay[w]
        <5>1. PollRoot[w] # AnySetRoot /\ Envelope[m].root # PollRoot[w] BY <1>2, <2>2, <2>5, <2>7, <3>2, <4>3
        <5> QED BY <5>1, <3>2, <2>6, <2>8
      <4> QED BY <4>1, <4>2, <4>3
    <3> QED BY <3>1, <3>2
  <2> QED BY <2>9 DEF Late
<1> QED BY <1>1, <1>2 DEF Late

-----------------------------------------------------------------------------
\* A claim is earned while its post is in flight, once it is verified, or when it is past
\* its time; what the threads, the verdicts, the posting keys, the days and the claims
\* keep; the invariant of the gate.
Earned(m) == InFlight(m) \/ Verified(mdb, m) \/ Late(m)
SenderInv ==
    sender.pc # "idle" => /\ sender.m \in RestMsgs /\ Known(sender.m)
                          /\ sender.pc = "verdict" => mdb.index[sender.m] # "none" \/ Late(sender.m)
SwarmInv ==
    /\ \A m \in swarm.todo : Day(Envelope[m].at) <= Day(clock) /\ (mdb.index[m] # "none" \/ IsExpired(m, clock))
    /\ swarm.pc \in {"claim", "verdict"} => Known(swarm.m)
ProvenInv ==
    \A m \in Msgs : IsProof(m) /\ Verified(mdb, m) => m \in proved /\ Known(m) /\ (mdb.index[m] = "none" => Late(m))
KeyInv ==
    /\ \A r \in mdb.fastKeys : r.by \in proved /\ Envelope[r.by].ok /\ KeyOf(r.by) = r.k
    /\ \A x \in Msgs : IsFastPost(x) /\ Verified(mdb, x) => \E p \in proved : Envelope[p].ok /\ KeyOf(p) = KeyOf(x)
DayInv == \A m \in mdb.mail : IsProof(m) => Day(Envelope[m].at) <= Day(clock)
ClaimInv ==
    \A n \in Nullifiers, x \in Msgs : mdb.claims[n] = x =>
        Known(x) /\ Envelope[x].null = n /\ (tmCrashes = 0 => Earned(x))
GateInv == tmCrashes \in Nat /\ SenderInv /\ SwarmInv /\ ProvenInv /\ KeyInv /\ DayInv /\ ClaimInv

\* What a step does to the store, the posts of M aside.
Recorded == proved \subseteq proved' /\ \A m \in Msgs : IsProof(m) /\ Verified(mdb', m) => m \in proved'
StayProof(x) ==
    /\ mdb'.verdict[x] = mdb.verdict[x]
    /\ mdb'.index[x] = "none" => mdb.index[x] = "none" \/ IsExpired(x, clock)
FastBacked(x, M) ==
    Verified(mdb, x) \/ FastRegistration(mdb, x) # {} \/ \E m \in M : Verified(mdb', m) /\ KeyOf(x) = KeyOf(m)
KeyBacked(r, M) == r \in mdb.fastKeys \/ \E m \in M : Verified(mdb', m) /\ r.by = m /\ r.k = KeyOf(m)
ClaimMoved(n, M) ==
    mdb'.claims[n] = mdb.claims[n] \/ mdb'.claims[n] = Unclaimed \/ \E m \in M : n = Envelope[m].null /\ mdb'.claims[n] = m
Moves(M) ==
    /\ mdb.polls \subseteq mdb'.polls
    /\ \A m \in M : m \in Msgs /\ IsProof(m)
    /\ \A x \in Msgs \ M : IsProof(x) => StayProof(x)
    /\ \A x \in mdb'.mail : IsProof(x) => x \in mdb.mail \cup M
    /\ \A r \in mdb'.fastKeys : KeyBacked(r, M)
    /\ \A x \in Msgs : IsFastPost(x) /\ Verified(mdb', x) => FastBacked(x, M)
    /\ \A n \in Nullifiers : ClaimMoved(n, M)
Moved(m) ==
    /\ Day(Envelope[m].at) <= Day(clock)
    /\ Verified(mdb', m) => Known(m) /\ (mdb'.index[m] = "none" => Late(m))
    /\ mdb'.claims[Envelope[m].null] = m =>
         Known(m) /\ (tmCrashes = 0 => InFlight(m)' \/ Verified(mdb', m) \/ Late(m))
Flights(M) == \A x \in Msgs : InFlight(x) => InFlight(x)' \/ x \in M

\* A day that has begun has begun.
LEMMA DayStays == ASSUME Grows, NEW m \in Msgs, Day(Envelope[m].at) <= Day(clock) PROVE Day(Envelope[m].at) <= Day(clock')
<1>1. PICK at \in Nat : at = Envelope[m].at BY EnvelopeIs
<1>2. Day(at) \in Nat /\ Day(clock) \in Nat /\ Day(clock') \in Nat /\ Day(clock) <= Day(clock') BY <1>1, DayNat, DayMono DEF Grows
<1> QED BY <1>1, <1>2

\* Verified posts stay recorded, known, and in the index until they are late.
LEMMA ProvenKept == ASSUME GateInv, Grows, Recorded, NEW M, Moves(M), \A m \in M : Moved(m) PROVE ProvenInv'
<1> SUFFICES ASSUME NEW m \in Msgs, IsProof(m), Verified(mdb', m) PROVE m \in proved' /\ Known(m)' /\ (mdb'.index[m] = "none" => Late(m)')
  BY DEF ProvenInv, Verified
<1>1. m \in proved' BY DEF Recorded
<1>2. CASE m \in M
  <2>1. Known(m) /\ (mdb'.index[m] = "none" => Late(m)) BY <1>2 DEF Moved
  <2> QED BY <1>1, <2>1, KnownStays, LateStays
<1>3. CASE m \notin M
  <2>1. StayProof(m) BY <1>3 DEF Moves
  <2>2. Verified(mdb, m) BY <2>1 DEF StayProof, Verified
  <2>3. Known(m) /\ (mdb.index[m] = "none" => Late(m)) BY <2>2 DEF GateInv, ProvenInv
  <2>4. mdb'.index[m] = "none" => Late(m) BY <2>1, <2>3 DEF StayProof, Late
  <2> QED BY <1>1, <2>3, <2>4, KnownStays, LateStays
<1> QED BY <1>2, <1>3

\* Posting keys and verified fast posts stay behind a recorded proof.
LEMMA KeysKept == ASSUME GateInv, Recorded, NEW M, Moves(M), \A m \in M : Moved(m) PROVE KeyInv'
<1>0. \A m \in M : Verified(mdb', m) => m \in proved' /\ Envelope[m].ok BY DEF Recorded, Moves, Moved, Known
<1>1. \A r \in mdb'.fastKeys : r.by \in proved' /\ Envelope[r.by].ok /\ KeyOf(r.by) = r.k
  <2> SUFFICES ASSUME NEW r \in mdb'.fastKeys PROVE r.by \in proved' /\ Envelope[r.by].ok /\ KeyOf(r.by) = r.k OBVIOUS
  <2>1. KeyBacked(r, M) BY DEF Moves
  <2>2. CASE r \in mdb.fastKeys BY <2>2 DEF GateInv, KeyInv, Recorded
  <2>3. CASE \E m \in M : Verified(mdb', m) /\ r.by = m /\ r.k = KeyOf(m) BY <2>3, <1>0
  <2> QED BY <2>1, <2>2, <2>3 DEF KeyBacked
<1>2. \A x \in Msgs : IsFastPost(x) /\ Verified(mdb', x) => \E p \in proved' : Envelope[p].ok /\ KeyOf(p) = KeyOf(x)
  <2> SUFFICES ASSUME NEW x \in Msgs, IsFastPost(x), Verified(mdb', x) PROVE \E p \in proved' : Envelope[p].ok /\ KeyOf(p) = KeyOf(x) OBVIOUS
  <2>1. FastBacked(x, M) BY DEF Moves
  <2>2. CASE Verified(mdb, x) BY <2>2 DEF GateInv, KeyInv, Recorded
  <2>3. CASE FastRegistration(mdb, x) # {}
    <3>1. PICK r \in mdb.fastKeys : r.k = KeyOf(x) BY <2>3 DEF FastRegistration
    <3>2. r.by \in proved /\ Envelope[r.by].ok /\ KeyOf(r.by) = r.k BY DEF GateInv, KeyInv
    <3> QED BY <3>1, <3>2 DEF Recorded
  <2>4. CASE \E m \in M : Verified(mdb', m) /\ KeyOf(x) = KeyOf(m) BY <2>4, <1>0
  <2> QED BY <2>1, <2>2, <2>3, <2>4 DEF FastBacked
<1> QED BY <1>1, <1>2 DEF KeyInv, Verified

\* A post with a proof is not stored before its day.
LEMMA DaysKept == ASSUME GateInv, mdb'.mail \subseteq Msgs, Grows, NEW M, Moves(M), \A m \in M : Moved(m) PROVE DayInv'
<1> SUFFICES ASSUME NEW m \in mdb'.mail, IsProof(m) PROVE Day(Envelope[m].at) <= Day(clock') BY DEF DayInv
<1>1. m \in Msgs /\ m \in mdb.mail \cup M BY DEF Moves
<1>2. Day(Envelope[m].at) <= Day(clock) BY <1>1 DEF GateInv, DayInv, Moved
<1> QED BY <1>1, <1>2, DayStays

\* Claims stay with known posts and stay earned.
LEMMA ClaimsKept ==
    ASSUME MailInv, GateInv, Grows, NEW M, Moves(M), \A m \in M : Moved(m), tmCrashes' = 0 => tmCrashes = 0 /\ Flights(M)
    PROVE  ClaimInv'
<1> SUFFICES ASSUME NEW n \in Nullifiers, NEW x \in Msgs, mdb'.claims[n] = x
             PROVE  Known(x)' /\ Envelope[x].null = n /\ (tmCrashes' = 0 => Earned(x)')
  BY DEF ClaimInv
<1>2. ClaimMoved(n, M) BY DEF Moves
<1>3. CASE \E m \in M : n = Envelope[m].null /\ x = m
  <2>1. x \in M /\ x \in Msgs /\ n = Envelope[x].null BY <1>3 DEF Moves
  <2>2. Known(x) /\ (tmCrashes = 0 => InFlight(x)' \/ Verified(mdb', x) \/ Late(x)) BY <2>1 DEF Moved
  <2>3. Known(x)' BY <2>1, <2>2, KnownStays
  <2>4. tmCrashes' = 0 => InFlight(x)' \/ Verified(mdb', x) \/ Late(x)' BY <2>1, <2>2, LateStays
  <2>5. tmCrashes' = 0 => Earned(x)' BY <2>4 DEF Earned, Verified
  <2> QED BY <2>1, <2>3, <2>5
<1>4. CASE x = mdb.claims[n] /\ ~\E m \in M : n = Envelope[m].null /\ x = m
  <2>1. x \in Msgs OBVIOUS
  <2>2. Known(x) /\ Envelope[x].null = n /\ (tmCrashes = 0 => Earned(x)) BY <1>4, <2>1 DEF GateInv, ClaimInv
  <2>3. x \notin M BY <1>4, <2>2
  <2>4. IsProof(x) BY <2>2 DEF Known
  <2>5. mdb'.verdict[x] = mdb.verdict[x] BY <2>1, <2>3, <2>4 DEF Moves, StayProof
  <2>6. Known(x)' BY <2>1, <2>2, KnownStays
  <2>7. tmCrashes' = 0 => Earned(x)'
    <3> SUFFICES ASSUME tmCrashes' = 0 PROVE Earned(x)' OBVIOUS
    <3>1. Earned(x) /\ Flights(M) BY <2>2
    <3>2. CASE InFlight(x) BY <3>1, <3>2, <2>1, <2>3 DEF Flights, Earned
    <3>3. CASE Verified(mdb, x) BY <3>3, <2>5 DEF Earned, Verified
    <3>4. CASE Late(x)
      <4>1. Late(x)' BY <3>4, <2>1, <2>2, LateStays
      <4> QED BY <4>1 DEF Earned
    <3> QED BY <3>1, <3>2, <3>3, <3>4 DEF Earned
  <2> QED BY <2>2, <2>6, <2>7
<1>5. x = mdb.claims[n] \/ x = Unclaimed \/ \E m \in M : n = Envelope[m].null /\ x = m BY <1>2 DEF ClaimMoved
<1>6. x # Unclaimed BY TmSets DEF Unclaimed
<1> QED BY <1>3, <1>4, <1>5, <1>6

\* The client's thread stays on a known post.
LEMMA SenderKept ==
    ASSUME GateInv, MailInv, Grows, NEW M, Moves(M), sender' = sender,
           \A m \in M : mdb'.index[m] = "none" => mdb.index[m] = "none" \/ Late(m)
    PROVE  SenderInv'
<1> SUFFICES ASSUME sender.pc # "idle"
             PROVE  /\ sender.m \in RestMsgs /\ Known(sender.m)'
                    /\ sender.pc = "verdict" => mdb'.index[sender.m] # "none" \/ Late(sender.m)'
  BY DEF SenderInv, Known, Late, RootAccepted, FixedPoll, IsPoll
<1>1. PICK x : x = sender.m OBVIOUS
<1>2. x \in RestMsgs /\ Known(x) /\ x \in Msgs /\ IsProof(x) BY <1>1, TmSets DEF GateInv, SenderInv, Known
<1>3. Known(x)' BY <1>2, KnownStays
<1>4. sender.pc = "verdict" => mdb'.index[x] # "none" \/ Late(x)'
  <2> SUFFICES ASSUME sender.pc = "verdict", mdb'.index[x] = "none" PROVE Late(x)' OBVIOUS
  <2>1. mdb.index[x] # "none" \/ Late(x) BY <1>1 DEF GateInv, SenderInv
  <2>2. mdb.index[x] = "none" \/ Late(x) BY <1>2 DEF Moves, StayProof, Late
  <2> QED BY <1>2, <2>1, <2>2, LateStays
<1> QED BY <1>1, <1>2, <1>3, <1>4

\* What the loop has to judge stays in the index until it expires.
LEMMA TodoKept ==
    ASSUME GateInv, MailInv, Grows, NEW M, Moves(M), NEW x \in swarm.todo,
           x \in M => (mdb'.index[x] = "none" => mdb.index[x] = "none" \/ IsExpired(x, clock))
    PROVE  Day(Envelope[x].at) <= Day(clock') /\ (mdb'.index[x] # "none" \/ IsExpired(x, clock'))
<1>1. x \in Msgs /\ IsProof(x) BY ProofMail
<1>2. Day(Envelope[x].at) <= Day(clock) /\ (mdb.index[x] # "none" \/ IsExpired(x, clock)) BY DEF GateInv, SwarmInv
<1>3. mdb'.index[x] = "none" => IsExpired(x, clock) BY <1>1, <1>2 DEF Moves, StayProof
<1>4. IsExpired(x, clock) => IsExpired(x, clock') BY <1>1, ExpiryStays DEF Grows
<1> QED BY <1>1, <1>2, <1>3, <1>4, DayStays

\* The loop stays on known posts.
LEMMA SwarmKept ==
    ASSUME GateInv, MailInv, Grows, NEW M, Moves(M), swarm' = swarm,
           \A m \in M : mdb'.index[m] = "none" => mdb.index[m] = "none" \/ IsExpired(m, clock)
    PROVE  SwarmInv'
<1>1. \A x \in swarm.todo : Day(Envelope[x].at) <= Day(clock') /\ (mdb'.index[x] # "none" \/ IsExpired(x, clock')) BY TodoKept
<1>2. swarm.pc \in {"claim", "verdict"} => Known(swarm.m)'
  <2> SUFFICES ASSUME swarm.pc \in {"claim", "verdict"} PROVE Known(swarm.m)' OBVIOUS
  <2>1. PICK x : x = swarm.m OBVIOUS
  <2>2. x \in Msgs /\ Known(x) BY <2>1, ProofMail DEF GateInv, SwarmInv
  <2>3. Known(x)' BY <2>2, KnownStays
  <2> QED BY <2>1, <2>3 DEF Known, FixedPoll
<1> QED BY <1>1, <1>2 DEF SwarmInv, Known, FixedPoll

\* A step that touches the posts of M alone, each lawfully, keeps the invariant of the
\* gate.
LEMMA GateFrom ==
    ASSUME MailInv, MailInv', GateInv, Grows, Recorded, NEW M, Moves(M), \A m \in M : Moved(m),
           tmCrashes' \in Nat, tmCrashes' = 0 => tmCrashes = 0 /\ Flights(M), SenderInv', SwarmInv'
    PROVE  GateInv'
<1>1. mdb'.mail \subseteq Msgs BY DbFields DEF MailInv, Good, Sane
<1>2. ProvenInv' BY ProvenKept
<1>3. KeyInv' BY KeysKept
<1>4. DayInv' BY <1>1, DaysKept
<1>5. ClaimInv' BY ClaimsKept
<1> QED BY <1>2, <1>3, <1>4, <1>5 DEF GateInv

-----------------------------------------------------------------------------
\* A change of the store that leaves every proof alone.
KeepsProof(d, e, t, x) ==
    e.verdict[x] = d.verdict[x] /\ (e.index[x] = "none" => d.index[x] = "none" \/ IsExpired(x, t))
CalmTo(d, e, t) ==
    /\ \A x \in Msgs : IsProof(x) => KeepsProof(d, e, t, x)
    /\ \A x \in e.mail : IsProof(x) => x \in d.mail
    /\ e.fastKeys \subseteq d.fastKeys /\ e.claims = d.claims /\ d.polls \subseteq e.polls
    /\ \A x \in Msgs : IsFastPost(x) /\ Verified(e, x) => Verified(d, x) \/ FastRegistration(d, x) # {}

\* Two such changes are one.
LEMMA CalmTwice == ASSUME NEW d, NEW e, NEW f, NEW t, CalmTo(d, e, t), CalmTo(e, f, t) PROVE CalmTo(d, f, t)
<1>1. \A x \in Msgs : IsProof(x) => KeepsProof(d, f, t, x) BY DEF CalmTo, KeepsProof
<1>2. \A x : FastRegistration(e, x) # {} => FastRegistration(d, x) # {} BY DEF CalmTo, FastRegistration
<1> QED BY <1>1, <1>2 DEF CalmTo

\* Such a change touches the proof of no post.
LEMMA CalmMoves == ASSUME CalmTo(mdb, mdb', clock) PROVE Moves({})
<1>1. \A x \in Msgs \ {} : IsProof(x) => StayProof(x) BY DEF CalmTo, KeepsProof, StayProof
<1>2. \A r \in mdb'.fastKeys : KeyBacked(r, {}) BY DEF CalmTo, KeyBacked
<1>3. \A x \in Msgs : IsFastPost(x) /\ Verified(mdb', x) => FastBacked(x, {}) BY DEF CalmTo, FastBacked
<1>4. \A n \in Nullifiers : ClaimMoved(n, {}) BY DEF CalmTo, ClaimMoved
<1> QED BY <1>1, <1>2, <1>3, <1>4 DEF Moves, CalmTo

\* Receipts, held posts and new polls are such a change.
LEMMA SameCalm ==
    ASSUME NEW d, NEW e, NEW t, e.mail = d.mail, e.index = d.index, e.verdict = d.verdict, e.claims = d.claims, e.fastKeys = d.fastKeys,
           d.polls \subseteq e.polls
    PROVE  CalmTo(d, e, t)
<1>1. \A x \in Msgs : KeepsProof(d, e, t, x) BY DEF KeepsProof
<1>2. \A x \in Msgs : Verified(e, x) => Verified(d, x) BY DEF Verified
<1> QED BY <1>1, <1>2 DEF CalmTo

\* Thinning is such a change.
LEMMA ThinnedCalm == ASSUME NEW d, NEW e, NEW t, Thinned(d, e, t, {}) PROVE CalmTo(d, e, t)
<1>1. SameRest(d, e) /\ e.mail \subseteq d.mail /\ \A x \in Msgs : Marked(d, e, t, {}, x) BY DEF Thinned
<1>2. \A x \in Msgs : KeepsProof(d, e, t, x) BY <1>1 DEF KeepsProof, Marked, SameRest
<1>3. \A x \in Msgs : Verified(e, x) => Verified(d, x) BY <1>1 DEF Verified, SameRest
<1> QED BY <1>1, <1>2, <1>3 DEF CalmTo, SameRest

\* Dropping held posts is such a change.
LEMMA FastPrunedCalm == ASSUME NEW d, Good(d), NEW e, NEW t, FastPruned(d, e) PROVE CalmTo(d, e, t)
<1>1. \A x \in Msgs : Left(d, e, x) BY DEF FastPruned
<1>2. \A x \in Msgs : IsProof(x) => e.index[x] = d.index[x]
  <2> SUFFICES ASSUME NEW x \in Msgs, IsProof(x) PROVE e.index[x] = d.index[x] OBVIOUS
  <2>1. \A h \in d.held : h.m # x BY KindIs DEF Good, Holding
  <2> QED BY <1>1, <2>1 DEF Left
<1>3. \A x \in Msgs : IsProof(x) => KeepsProof(d, e, t, x) BY <1>2 DEF KeepsProof, FastPruned
<1>4. \A x \in Msgs : Verified(e, x) => Verified(d, x) BY DEF Verified, FastPruned
<1>5. e.mail \subseteq Msgs /\ IndexOk(e) /\ IndexOk(d) BY DbFields DEF FastPruned, Sane, Good
<1>6. \A x \in e.mail : IsProof(x) => x \in d.mail BY <1>2, <1>5 DEF IndexOk
<1> QED BY <1>3, <1>4, <1>6 DEF CalmTo, FastPruned

\* A post without a proof, stored outside a poll, changes no proof.
LEMMA StoredCalm ==
    ASSUME NEW d, NEW e, NEW m \in Msgs, NEW t, StoredAs(d, e, m, t), ~IsProof(m)
    PROVE  CalmTo(d, e, t) /\ e.verdict = d.verdict /\ e.claims = d.claims
<1>1. e.verdict = d.verdict /\ e.claims = d.claims
  <2>1. ~BallotOk(d, m, t) BY DEF BallotOk, IsProof
  <2> QED BY <2>1 DEF StoredAs, PassedAs
<1>2. \A x \in Msgs : x # m => Marked(d, e, t, {}, x) BY DEF StoredAs
<1>3. \A x \in Msgs : IsProof(x) => x # m OBVIOUS
<1>4. \A x \in Msgs : IsProof(x) => KeepsProof(d, e, t, x) BY <1>1, <1>2, <1>3 DEF KeepsProof, Marked
<1>5. \A x \in Msgs : Verified(e, x) => Verified(d, x) BY <1>1 DEF Verified
<1>6. \A x \in e.mail : IsProof(x) => x \in d.mail BY DEF StoredAs
<1> QED BY <1>1, <1>4, <1>5, <1>6 DEF CalmTo, StoredAs

\* Whatever store_tmail answers for a message without a proof is such a change.
LEMMA AnsweredCalm ==
    ASSUME NEW d, NEW m \in Msgs, NEW t, NEW r, AnsweredWell(d, r, m, t), ~IsProof(m)
    PROVE  CalmTo(d, r.db, t)
<1>1. CASE r.db = d BY <1>1, SameCalm
<1>2. CASE Thinned(d, r.db, t, {}) BY <1>2, ThinnedCalm
<1>3. CASE StoredWell(d, r.db, m, t) BY <1>3, StoredCalm DEF StoredWell
<1> QED BY <1>1, <1>2, <1>3 DEF AnsweredWell

\* A verdict on a fast post with a registered key is such a change.
LEMMA RewordedCalm ==
    ASSUME NEW d, NEW e, NEW m \in Msgs, ~IsProof(m), NEW t, NEW v, NEW V, NEW B, NEW G, Refit(d, e, V, d.fastKeys, B, G),
           \A x \in Msgs : e.verdict[x] = IF x = m THEN v ELSE d.verdict[x],
           v = "verified" => FastRegistration(d, m) # {}
    PROVE  CalmTo(d, e, t)
<1>1. \A x \in Msgs : IsProof(x) => KeepsProof(d, e, t, x) BY DEF KeepsProof, Refit
<1>2. \A x \in Msgs : IsFastPost(x) /\ Verified(e, x) => Verified(d, x) \/ FastRegistration(d, x) # {} BY DEF Verified
<1> QED BY <1>1, <1>2 DEF CalmTo, Refit

\* A fast post under a registered key is such a change.
LEMMA FastCalm ==
    ASSUME MailInv, NEW m \in Msgs, IsFastPost(m), FastRegistration(mdb, m) # {}, NEW take, StoreFast(m, take)
    PROVE  CalmTo(mdb, mdb', clock)
<1>0. ~IsProof(m) BY KindIs
<1>1. PICK r : r = StoreTmail(mdb, m, clock) OBVIOUS
<1>2. mdb' = CASE ~take.ok -> mdb [] take.ok /\ r.res = "stored" -> [r.db EXCEPT !.verdict[m] = "verified"] [] OTHER -> r.db
  BY <1>1 DEF StoreFast
<1>3. AnsweredWell(mdb, r, m, clock) BY <1>1, StoreGood DEF MailInv
<1>4. \/ mdb' = mdb
      \/ mdb' = r.db
      \/ r.res = "stored" /\ mdb' = WithVerdict(r.db, m, "verified")
  <2>1. \/ mdb' = mdb
        \/ mdb' = r.db
        \/ r.res = "stored" /\ mdb' = [r.db EXCEPT !.verdict[m] = "verified"]
    BY <1>2, Zenon
  <2> QED BY <2>1, Zenon DEF WithVerdict
<1>5. CASE mdb' = mdb BY <1>5, SameCalm
<1>6. CASE mdb' = r.db BY <1>0, <1>3, <1>6, AnsweredCalm
<1>7. CASE r.res = "stored" /\ mdb' = WithVerdict(r.db, m, "verified")
  <2>0. PICK v \in VerdictTags : v = "verified" BY DEF VerdictTags
  <2>1. PICK e, f : e = r.db /\ f = WithVerdict(e, m, v) OBVIOUS
  <2>2. StoredWell(mdb, e, m, clock) BY <1>3, <1>7, <2>1 DEF AnsweredWell
  <2>3. Sane(e) /\ e.fastKeys = mdb.fastKeys BY <2>2 DEF StoredWell, StoredAs
  <2>4. CalmTo(mdb, e, clock) BY <1>0, <2>2, StoredCalm DEF StoredWell
  <2>5. /\ Refit(e, f, f.verdict, e.fastKeys, e.held, e.regPending)
        /\ \A x \in Msgs : f.verdict[x] = IF x = m THEN v ELSE e.verdict[x] BY <2>1, <2>3, VerdictOnly
  <2>6. FastRegistration(e, m) # {} BY <2>3 DEF FastRegistration
  <2>7. CalmTo(e, f, clock) BY <1>0, <2>5, <2>6, RewordedCalm
  <2>8. CalmTo(mdb, f, clock) BY <2>4, <2>7, CalmTwice
  <2> QED BY <2>0, <2>1, <2>8, <1>7
<1> QED BY <1>4, <1>5, <1>6, <1>7

\* A fast post held back is such a change.
LEMMA HoldCalm ==
    ASSUME MailInv, NEW m \in Msgs, IsFastPost(m), NEW d, d = PruneFast(mdb, clock), mdb' = d \/ mdb' = HoldPending(d, m)
    PROVE  CalmTo(mdb, mdb', clock)
<1>0. ~IsProof(m) BY KindIs
<1>1. FastPruned(mdb, d) BY PruneFastIs DEF MailInv, Good
<1>2. Good(d) /\ CalmTo(mdb, d, clock)
  <2>1. GoodStep(mdb, d, clock) BY <1>1, FastPrunedGood DEF MailInv
  <2> QED BY <1>1, <2>1, GoodAfter, FastPrunedCalm DEF MailInv
<1>3. CASE mdb' = d BY <1>2, <1>3
<1>4. CASE mdb' = HoldPending(d, m)
  <2>1. PICK r : r = StoreTmail(d, m, clock) OBVIOUS
  <2>2. AnsweredWell(d, r, m, clock) BY <1>2, <2>1, StoreGood
  <2>3. mdb' = IF r.res = "stored" THEN Waits(r.db, m, clock) ELSE r.db BY <1>4, <2>1 DEF HoldPending, Waits
  <2>4. CalmTo(mdb, r.db, clock)
    <3>1. CalmTo(d, r.db, clock) BY <1>0, <2>2, AnsweredCalm
    <3> QED BY <3>1, <1>2, CalmTwice
  <2>5. CASE r.res # "stored" BY <2>3, <2>4, <2>5
  <2>6. CASE r.res = "stored"
    <3>1. PICK e, f : e = r.db /\ f = Waits(e, m, clock) OBVIOUS
    <3>2. Sane(e) BY <2>2, <2>6, <3>1 DEF AnsweredWell, StoredWell, StoredAs
    <3>3. clock \in Nat BY TmNats DEF MailInv
    <3>4. Waited(e, f, m, clock) BY <3>1, <3>2, <3>3, WaitsIs
    <3>5. PICK v : v = "pending" OBVIOUS
    <3>6. \A x \in Msgs : f.verdict[x] = IF x = m THEN v ELSE e.verdict[x] BY <3>4, <3>5 DEF Waited
    <3>7. PICK B : Refit(e, f, f.verdict, e.fastKeys, B, e.regPending) BY <3>4 DEF Waited
    <3>8. v # "verified" BY <3>5
    <3>9. CalmTo(e, f, clock) BY <1>0, <3>6, <3>7, <3>8, RewordedCalm
    <3>10. CalmTo(mdb, f, clock) BY <3>1, <3>9, <2>4, CalmTwice
    <3> QED BY <3>1, <3>10, <2>3, <2>6
  <2> QED BY <2>5, <2>6
<1> QED BY <1>3, <1>4

-----------------------------------------------------------------------------

\* A verdict touches its own post, and fast posts of its key when it is good.
LEMMA VerdictMoves ==
    ASSUME MailInv, NEW m \in Msgs, IsProof(m), NEW v, VerdictSet(mdb, mdb', m, v)
    PROVE  Moves({m}) /\ mdb'.verdict[m] = v /\ mdb'.claims = mdb.claims
<1>0. \A x \in Msgs : VerdictOf(mdb, mdb', m, v, x) BY DEF VerdictSet
<1>1. \A x \in Msgs : IsProof(x) => mdb'.verdict[x] = IF x = m THEN v ELSE mdb.verdict[x] BY <1>0, KindIs DEF VerdictOf
<1>2. \A x \in Msgs : IsProof(x) /\ x # m => mdb'.index[x] = mdb.index[x]
  <2> SUFFICES ASSUME NEW x \in Msgs, IsProof(x), x # m PROVE mdb'.index[x] = mdb.index[x] OBVIOUS
  <2>1. \A h \in mdb.held : h.m # x BY KindIs DEF MailInv, Good, Holding
  <2>2. Judged(mdb, mdb', m, v, x) BY DEF VerdictSet
  <2> QED BY <2>1, <2>2 DEF Judged
<1>3. \A x \in Msgs \ {m} : IsProof(x) => StayProof(x) BY <1>1, <1>2 DEF StayProof
<1>4. mdb'.mail \subseteq Msgs /\ IndexOk(mdb') /\ IndexOk(mdb) BY DbFields DEF VerdictSet, Sane, MailInv, Good
<1>5. \A x \in mdb'.mail : IsProof(x) => x \in mdb.mail \cup {m} BY <1>2, <1>4 DEF IndexOk
<1>6. Verified(mdb', m) <=> v = "verified" BY <1>1 DEF Verified
<1>7. \A r \in mdb'.fastKeys : KeyBacked(r, {m}) BY <1>6 DEF VerdictSet, KeyBacked
<1>8. \A x \in Msgs : IsFastPost(x) /\ Verified(mdb', x) => FastBacked(x, {m})
  <2> SUFFICES ASSUME NEW x \in Msgs, IsFastPost(x), Verified(mdb', x) PROVE FastBacked(x, {m}) OBVIOUS
  <2>1. x # m BY KindIs
  <2>2. VerdictOf(mdb, mdb', m, v, x) BY <1>0
  <2> QED BY <2>1, <2>2, <1>6 DEF VerdictOf, FastBacked, Verified
<1>9. \A n \in Nullifiers : ClaimMoved(n, {m}) BY DEF VerdictSet, ClaimMoved
<1> QED BY <1>1, <1>3, <1>5, <1>7, <1>8, <1>9 DEF Moves, VerdictSet

\* A claim touches its own post.
LEMMA ClaimingMoves ==
    ASSUME NEW m \in Msgs, IsProof(m), SameBox(mdb, mdb'), mdb'.verdict = mdb.verdict,
           \A n \in Nullifiers : mdb'.claims[n] = IF n = Envelope[m].null THEN m ELSE mdb.claims[n]
    PROVE  Moves({m})
<1>1. \A x \in Msgs \ {m} : IsProof(x) => StayProof(x) BY DEF StayProof, SameBox
<1>2. \A r \in mdb'.fastKeys : KeyBacked(r, {m}) BY DEF SameBox, KeyBacked
<1>3. \A x \in Msgs : Verified(mdb', x) => FastBacked(x, {m}) BY DEF Verified, FastBacked
<1>4. \A n \in Nullifiers : ClaimMoved(n, {m}) BY DEF ClaimMoved
<1>5. mdb'.mail = mdb.mail /\ mdb.polls \subseteq mdb'.polls BY DEF SameBox
<1> QED BY <1>1, <1>2, <1>3, <1>4, <1>5 DEF Moves

\* A post with a proof, stored.
LEMMA StoringMoves ==
    ASSUME NEW m \in Msgs, IsProof(m), NEW e, StoredAs(mdb, e, m, clock),
           mdb'.mail = e.mail, mdb'.index = e.index, mdb'.fastKeys = e.fastKeys, mdb'.claims = e.claims, mdb'.polls = e.polls,
           \A x \in Msgs : x # m => mdb'.verdict[x] = e.verdict[x]
    PROVE  Moves({m})
<1>1. \A x \in Msgs : x # m => Marked(mdb, e, clock, {}, x) /\ e.verdict[x] = mdb.verdict[x] BY DEF StoredAs, PassedAs
<1>2. \A x \in Msgs \ {m} : IsProof(x) => StayProof(x) BY <1>1 DEF StayProof, Marked
<1>3. \A r \in mdb'.fastKeys : KeyBacked(r, {m}) BY DEF StoredAs, KeyBacked
<1>4. \A x \in Msgs : IsFastPost(x) /\ Verified(mdb', x) => FastBacked(x, {m}) BY <1>1, KindIs DEF Verified, FastBacked
<1>5. \A n \in Nullifiers : ClaimMoved(n, {m}) BY DEF ClaimMoved, StoredAs, PassedAs
<1>6. mdb'.mail \subseteq mdb.mail \cup {m} /\ mdb.polls \subseteq mdb'.polls BY DEF StoredAs
<1> QED BY <1>2, <1>3, <1>4, <1>5, <1>6 DEF Moves

-----------------------------------------------------------------------------
(* Tmail: every action keeps the gate.                                       *)

\* The clock is a number.
LEMMA ClockNat == ASSUME MailInv PROVE clock \in Nat
BY TmNats DEF MailInv

\* Every step that touches posts lawfully keeps time, roots and polls.
LEMMA GrowsOn == ASSUME MailInv, MailInv', clock <= clock', setRoots \subseteq setRoots', NEW M, Moves(M) PROVE Grows
<1>1. clock \in Nat BY ClockNat
<1>2. clock' \in Nat BY TmNats DEF MailInv
<1> QED BY <1>1, <1>2 DEF Grows, Moves

\* No proof is touched: the threads say the rest.
LEMMA CalmGateWith ==
    ASSUME MailInv, MailInv', GateInv, Recorded, CalmTo(mdb, mdb', clock), clock <= clock', setRoots \subseteq setRoots',
           tmCrashes' \in Nat, tmCrashes' = 0 => tmCrashes = 0 /\ Flights({}),
           Grows => SenderInv', Grows => SwarmInv'
    PROVE  GateInv'
<1>1. Moves({}) BY CalmMoves
<1>2. Grows BY <1>1, GrowsOn
<1>3. \A m \in {} : Moved(m) OBVIOUS
<1> QED BY <1>1, <1>2, <1>3, GateFrom

\* A client's thread that does not move stays in order.
LEMMA SameSender ==
    ASSUME GateInv, MailInv, CalmTo(mdb, mdb', clock), Grows, sender' = sender PROVE SenderInv'
<1>1. Moves({}) BY CalmMoves
<1>2. \A m \in {} : mdb'.index[m] = "none" => mdb.index[m] = "none" \/ Late(m) OBVIOUS
<1> QED BY <1>1, <1>2, SenderKept

\* A loop that does not move stays in order.
LEMMA SameSwarm ==
    ASSUME GateInv, MailInv, CalmTo(mdb, mdb', clock), Grows, swarm' = swarm PROVE SwarmInv'
<1>1. Moves({}) BY CalmMoves
<1>2. \A m \in {} : mdb'.index[m] = "none" => mdb.index[m] = "none" \/ IsExpired(m, clock) OBVIOUS
<1> QED BY <1>1, <1>2, SwarmKept

\* A step that touches no proof and no thread keeps the gate.
LEMMA CalmGate ==
    ASSUME MailInv, MailInv', GateInv, Recorded, CalmTo(mdb, mdb', clock), clock <= clock', setRoots \subseteq setRoots',
           tmCrashes' = tmCrashes, sender' = sender, swarm' = swarm
    PROVE  GateInv'
<1>1. Flights({}) BY DEF Flights, InFlight
<1>2. tmCrashes' \in Nat BY DEF GateInv
<1>3. Grows => SenderInv' BY SameSender
<1>4. Grows => SwarmInv' BY SameSwarm
<1> QED BY <1>1, <1>2, <1>3, <1>4, CalmGateWith

\* A step that leaves the store alone touches no proof.
LEMMA StillCalm == ASSUME mdb' = mdb PROVE CalmTo(mdb, mdb', clock)
BY SameCalm

\* A clock that stands does not go back.
LEMMA StillClock == ASSUME MailInv, clock' = clock PROVE clock <= clock'
BY ClockNat

\* A named message keeps the invariant of the gate.
LEMMA NamedGate == ASSUME MailInv, MailInv', GateInv, Recorded, NEW m \in active, StoreNamed(m) PROVE GateInv'
<1>1. m \in Msgs /\ ~IsProof(m) BY ActiveMsgs DEF StoreNamed, IsProof
<1>2. PICK r : r = StoreTmail(mdb, m, clock) OBVIOUS
<1>3. AnsweredWell(mdb, r, m, clock) BY <1>1, <1>2, StoreGood DEF MailInv
<1>4. CalmTo(mdb, mdb', clock) BY <1>1, <1>2, <1>3, AnsweredCalm DEF StoreNamed
<1>5. clock <= clock' BY StillClock DEF StoreNamed
<1> QED BY <1>4, <1>5, CalmGate DEF StoreNamed

\* A deposited receipt keeps the invariant of the gate.
LEMMA DepositGate == ASSUME MailInv, MailInv', GateInv, Recorded, NEW c \in ReceiptIds, DepositReceipt(c) PROVE GateInv'
<1>1. PICK e : e = [mdb EXCEPT !.receipts = PutReceipt(@, c)] OBVIOUS
<1>2. Deposited(mdb, e) BY <1>1, DepositIs DEF MailInv, Good
<1>3. CalmTo(mdb, e, clock) BY <1>2, SameCalm DEF Deposited
<1>4. mdb' = e BY <1>1 DEF DepositReceipt
<1>5. clock <= clock' BY StillClock DEF DepositReceipt
<1> QED BY <1>3, <1>4, <1>5, CalmGate DEF DepositReceipt

\* A new poll keeps the invariant of the gate.
LEMMA PollGate == ASSUME MailInv, MailInv', GateInv, Recorded, NEW w \in Boards, RegisterPoll(w) PROVE GateInv'
<1>1. PICK e : e = [mdb EXCEPT !.polls = @ \cup {w}] OBVIOUS
<1>0. w \in DOMAIN PollRoot BY DEF RegisterPoll
<1>2. /\ e.mail = mdb.mail /\ e.index = mdb.index /\ e.verdict = mdb.verdict /\ e.claims = mdb.claims
      /\ e.polls = mdb.polls \cup {w} /\ e.fastKeys = mdb.fastKeys BY <1>0, <1>1, PollIs DEF MailInv, Good
<1>3. CalmTo(mdb, e, clock) BY <1>2, SameCalm
<1>4. mdb' = e BY <1>1 DEF RegisterPoll
<1>5. clock <= clock' BY StillClock DEF RegisterPoll
<1> QED BY <1>3, <1>4, <1>5, CalmGate DEF RegisterPoll

\* A client's fast post keeps the invariant of the gate.
LEMMA SendFastGate == ASSUME MailInv, MailInv', GateInv, Recorded, NEW m \in active, SendFast(m) PROVE GateInv'
<1>1. PICK take : take = FloodTake(flood, KeyOf(m), clock, TRUE) OBVIOUS
<1>2. CalmTo(mdb, mdb', clock) BY <1>1, ActiveMsgs, FastCalm DEF SendFast, FastChecks
<1>5. clock <= clock' BY StillClock DEF SendFast
<1> QED BY <1>2, <1>5, CalmGate DEF SendFast

\* A fast post from gossip keeps the invariant of the gate.
LEMMA ReceiveFastGate == ASSUME MailInv, MailInv', GateInv, Recorded, NEW m \in active, ReceiveFast(m) PROVE GateInv'
<1>1. PICK take : take = FloodTake(flood, KeyOf(m), clock, FALSE) OBVIOUS
<1>2. CalmTo(mdb, mdb', clock) BY <1>1, ActiveMsgs, FastCalm DEF ReceiveFast, FastChecks
<1>5. clock <= clock' BY StillClock DEF ReceiveFast
<1> QED BY <1>2, <1>5, CalmGate DEF ReceiveFast

\* A fast post held back keeps the invariant of the gate.
LEMMA HoldFastGate == ASSUME MailInv, MailInv', GateInv, Recorded, NEW m \in active, HoldFast(m) PROVE GateInv'
<1>1. PICK d : d = PruneFast(mdb, clock) OBVIOUS
<1>2. mdb' = d \/ mdb' = HoldPending(d, m) BY <1>1 DEF HoldFast
<1>3. m \in Msgs /\ IsFastPost(m) BY ActiveMsgs DEF HoldFast, FastChecks
<1>4. CalmTo(mdb, mdb', clock) BY <1>1, <1>2, <1>3, HoldCalm
<1>5. clock <= clock' BY StillClock DEF HoldFast
<1> QED BY <1>4, <1>5, CalmGate DEF HoldFast

\* A burn keeps the invariant of the gate.
LEMMA BurnGate == ASSUME MailInv, MailInv', GateInv, Recorded, NEW m \in active, BurnRevoke(m) PROVE GateInv'
<1>0. PICK S : S = {m} OBVIOUS
<1>1. PICK e : e = DeleteByMsgId(mdb, S) OBVIOUS
<1>2. Thinned(mdb, e, clock, {}) BY <1>1, DeleteThins DEF MailInv, Good
<1>3. CalmTo(mdb, e, clock) BY <1>2, ThinnedCalm
<1>4. mdb' = e BY <1>0, <1>1 DEF BurnRevoke
<1>5. clock <= clock' BY StillClock DEF BurnRevoke
<1> QED BY <1>3, <1>4, <1>5, CalmGate DEF BurnRevoke

\* The reaper keeps the invariant of the gate.
LEMMA ReapGate == ASSUME MailInv, MailInv', GateInv, Recorded, Reap PROVE GateInv'
<1>1. PICK e : e = PruneExpired(mdb, clock) OBVIOUS
<1>2. Thinned(mdb, e, clock, {}) BY <1>1, PruneThins DEF MailInv, Good
<1>3. CalmTo(mdb, e, clock) BY <1>2, ThinnedCalm
<1>4. mdb' = e BY <1>1 DEF Reap
<1>5. clock <= clock' BY StillClock DEF Reap
<1> QED BY <1>3, <1>4, <1>5, CalmGate DEF Reap

\* A new root keeps the invariant of the gate.
LEMMA LearnGate == ASSUME MailInv, MailInv', GateInv, Recorded, NEW r, LearnRoot(r) PROVE GateInv'
<1>1. CalmTo(mdb, mdb', clock) BY StillCalm DEF LearnRoot
<1>5. clock <= clock' BY StillClock DEF LearnRoot
<1> QED BY <1>1, <1>5, CalmGate DEF LearnRoot

\* The clock keeps the invariant of the gate.
LEMMA TickGate == ASSUME MailInv, MailInv', GateInv, Recorded, TmailTick PROVE GateInv'
<1>1. CalmTo(mdb, mdb', clock) BY StillCalm DEF TmailTick
<1>5. clock <= clock' BY ClockNat DEF TmailTick
<1> QED BY <1>1, <1>5, CalmGate DEF TmailTick

\* A step that changes nothing keeps the invariant of the gate.
LEMMA StutterGate == ASSUME MailInv, MailInv', GateInv, UNCHANGED tmailVars PROVE GateInv'
<1>1. CalmTo(mdb, mdb', clock) BY StillCalm DEF tmailVars
<1>2. Recorded BY DEF tmailVars, Recorded, GateInv, ProvenInv
<1>5. clock <= clock' BY StillClock DEF tmailVars
<1> QED BY <1>1, <1>2, <1>5, CalmGate DEF tmailVars

\* A restart keeps the invariant of the gate.
LEMMA RestartGate == ASSUME MailInv, MailInv', GateInv, Recorded, TmailRestart PROVE GateInv'
<1>1. CalmTo(mdb, mdb', clock) BY StillCalm DEF TmailRestart
<1>2. SenderInv' /\ SwarmInv' BY DEF TmailRestart, SenderInv, SwarmInv, Idle
<1>3. tmCrashes' \in Nat /\ tmCrashes' # 0 BY DEF TmailRestart, GateInv
<1>5. clock <= clock' /\ setRoots \subseteq setRoots' BY StillClock DEF TmailRestart
<1> QED BY <1>1, <1>2, <1>3, <1>5, CalmGateWith

\* A good check means a known root and a nullifier that is free or the post's own.
LEMMA JudgedGood ==
    ASSUME NEW m \in Msgs, IsProof(m), Judge(mdb, m, clock) = "verified", Day(Envelope[m].at) <= Day(clock)
    PROVE  Known(m) /\ mdb.claims[Envelope[m].null] \in {Unclaimed, m}
<1>1. Envelope[m].ok \in BOOLEAN /\ (RootAccepted(mdb, m, clock) \in BOOLEAN) BY EnvelopeIs DEF RootAccepted
<1>2. Envelope[m].ok /\ RootAccepted(mdb, m, clock) /\ mdb.claims[Envelope[m].null] \in {Unclaimed, m} BY <1>1 DEF Judge
<1> QED BY <1>2, AcceptedKnown

\* What passes check_sent_at is not from a day to come.
LEMMA SentToday == ASSUME MailInv, NEW m \in Msgs, IsProof(m), SentAtOk(m, clock) PROVE Day(Envelope[m].at) <= Day(clock)
<1>1. Anonymous(m) BY KindIs
<1>2. Day(Envelope[m].at) = Day(clock) BY <1>1 DEF SentAtOk
<1>3. Day(clock) \in Nat BY ClockNat, DayNat
<1> QED BY <1>2, <1>3

\* The check of a client's proof keeps the invariant of the gate.
LEMMA SendJudgeGate == ASSUME MailInv, MailInv', GateInv, Recorded, NEW m \in active, SendJudge(m) PROVE GateInv'
<1>1. m \in Msgs /\ IsProof(m) /\ m \in RestMsgs BY ActiveMsgs DEF SendJudge, IsProof
<1>2. CalmTo(mdb, mdb', clock) BY StillCalm DEF SendJudge
<1>3. Day(Envelope[m].at) <= Day(clock) BY <1>1, SentToday DEF SendJudge
<1>4. Known(m) BY <1>1, <1>3, JudgedGood DEF SendJudge
<1>5. clock <= clock' /\ setRoots \subseteq setRoots' BY StillClock DEF SendJudge
<1>6. Grows => SenderInv'
  <2> SUFFICES ASSUME Grows PROVE SenderInv' OBVIOUS
  <2>1. Known(m)' BY <1>1, <1>4, KnownStays
  <2>2. sender'.m = m /\ sender'.pc = "claim" BY DEF SendJudge
  <2> QED BY <1>1, <2>1, <2>2 DEF SenderInv, Known, FixedPoll
<1>7. Grows => SwarmInv' BY <1>2, SameSwarm DEF SendJudge
<1>8. Flights({}) BY DEF SendJudge, Flights, InFlight
<1>9. tmCrashes' = tmCrashes BY DEF SendJudge
<1> QED BY <1>2, <1>5, <1>6, <1>7, <1>8, <1>9, CalmGateWith DEF GateInv

\* A receipt from a peer keeps the invariant of the gate.
LEMMA ArrivesGate == ASSUME MailInv, MailInv', GateInv, Recorded, NEW c \in ReceiptIds, ReceiptArrives(c) PROVE GateInv'
<1>1. PICK e : e = [mdb EXCEPT !.receipts = PutReceipt(@, c)] OBVIOUS
<1>2. Deposited(mdb, e) BY <1>1, DepositIs DEF MailInv, Good
<1>3. CalmTo(mdb, e, clock) BY <1>2, SameCalm DEF Deposited
<1>4. mdb' = e BY <1>1 DEF ReceiptArrives
<1>5. clock <= clock' /\ setRoots \subseteq setRoots' /\ tmCrashes' = tmCrashes /\ sender' = sender BY StillClock DEF ReceiptArrives
<1>6. Grows => SenderInv' BY <1>3, <1>4, <1>5, SameSender
<1>7. swarm' = [pc |-> "judge", todo |-> Undecided(c), m |-> 0] BY DEF ReceiptArrives, Undecided
<1>8. Grows => SwarmInv'
  <2> SUFFICES ASSUME Grows PROVE SwarmInv' OBVIOUS
  <2>1. ASSUME NEW x \in Undecided(c) PROVE Day(Envelope[x].at) <= Day(clock') /\ mdb'.index[x] # "none"
    <3>1. x \in mdb.mail /\ IsProof(x) BY DEF Undecided, IsProof
    <3>2. x \in Msgs /\ mdb.index[x] = "live" BY <3>1, DbFields DEF MailInv, Good, Sane, IndexOk
    <3>3. Day(Envelope[x].at) <= Day(clock) BY <3>1 DEF GateInv, DayInv
    <3>4. mdb'.index[x] = "live" BY <3>2, <1>2, <1>4 DEF Deposited
    <3> QED BY <3>2, <3>3, <3>4, DayStays
  <2> QED BY <1>7, <2>1 DEF SwarmInv
<1>9. Flights({})
  <2>1. swarm.todo = {} BY DEF ReceiptArrives, MailInv, Threads
  <2> QED BY <2>1, <1>5 DEF Flights, InFlight
<1> QED BY <1>3, <1>4, <1>5, <1>6, <1>8, <1>9, CalmGateWith DEF GateInv

\* A step that touches the proof of m alone.
LEMMA OneGate ==
    ASSUME MailInv, MailInv', GateInv, Recorded, NEW m \in Msgs, Moves({m}), Moved(m), clock' = clock, setRoots' = setRoots,
           tmCrashes' = tmCrashes, Flights({m}), Grows => SenderInv', Grows => SwarmInv'
    PROVE  GateInv'
<1>0. PICK M : M = {m} OBVIOUS
<1>1. clock <= clock' BY StillClock
<1>2. Grows BY <1>0, <1>1, GrowsOn
<1>3. \A x \in M : Moved(x) BY <1>0
<1>4. tmCrashes' \in Nat BY DEF GateInv
<1> QED BY <1>0, <1>2, <1>3, <1>4, GateFrom

\* The client's thread stays in order when another post is touched.
LEMMA OneSender ==
    ASSUME GateInv, MailInv, Grows, NEW m \in Msgs, Moves({m}), sender' = sender,
           mdb'.index[m] = "none" => mdb.index[m] = "none" \/ Late(m)
    PROVE  SenderInv'
<1>0. PICK M : M = {m} OBVIOUS
<1>1. \A x \in M : mdb'.index[x] = "none" => mdb.index[x] = "none" \/ Late(x) BY <1>0
<1> QED BY <1>0, <1>1, SenderKept

\* The loop stays in order when a post it does not lose is touched.
LEMMA OneSwarm ==
    ASSUME GateInv, MailInv, Grows, NEW m \in Msgs, Moves({m}), swarm' = swarm,
           mdb'.index[m] = "none" => mdb.index[m] = "none" \/ IsExpired(m, clock)
    PROVE  SwarmInv'
<1>0. PICK M : M = {m} OBVIOUS
<1>1. \A x \in M : mdb'.index[x] = "none" => mdb.index[x] = "none" \/ IsExpired(x, clock) BY <1>0
<1> QED BY <1>0, <1>1, SwarmKept

\* What is left of the loop's list once m is judged.
LEMMA LeftSwarm ==
    ASSUME GateInv, MailInv, Grows, NEW m \in Msgs, Moves({m}), NEW left, left = swarm.todo \ {m},
           swarm' = [pc |-> IF left = {} THEN "idle" ELSE "judge", todo |-> left, m |-> 0]
    PROVE  SwarmInv'
<1>0. PICK M : M = {m} OBVIOUS
<1>1. \A x \in left : Day(Envelope[x].at) <= Day(clock') /\ (mdb'.index[x] # "none" \/ IsExpired(x, clock'))
  <2> SUFFICES ASSUME NEW x \in left PROVE Day(Envelope[x].at) <= Day(clock') /\ (mdb'.index[x] # "none" \/ IsExpired(x, clock')) OBVIOUS
  <2>1. x \in swarm.todo /\ x \notin M BY <1>0
  <2> QED BY <1>0, <2>1, TodoKept
<1>2. swarm'.todo = left /\ swarm'.pc \notin {"claim", "verdict"} OBVIOUS
<1> QED BY <1>1, <1>2 DEF SwarmInv

\* Only the touched post may land.
LEMMA OneFlight ==
    ASSUME NEW m, \A x \in swarm.todo : x \in swarm'.todo \/ x = m,
           sender.pc # "idle" => sender.m = m \/ sender' = sender \/ (sender'.pc # "idle" /\ sender'.m = sender.m)
    PROVE  Flights({m})
BY DEF Flights, InFlight

\* A verified post that is not in the index is late.
LEMMA StoreNone == ASSUME GateInv, NEW m \in Msgs, IsProof(m), Verified(mdb, m) PROVE Known(m) /\ (mdb.index[m] = "none" => Late(m))
BY DEF GateInv, ProvenInv

\* The client's claim keeps the invariant of the gate.
LEMMA SendClaimGate == ASSUME MailInv, MailInv', GateInv, Recorded, SendClaim PROVE GateInv'
<1>1. PICK m \in Msgs : m = sender.m /\ IsProof(m) BY ProofMail DEF SendClaim
<1>2. /\ sender.pc = "claim" /\ sender'.pc = "store" /\ sender'.m = m /\ swarm' = swarm /\ mdb' = ClaimNullifier(mdb, m)
      /\ clock' = clock /\ setRoots' = setRoots /\ tmCrashes' = tmCrashes
  BY <1>1 DEF SendClaim, MailInv, Threads, Senders
<1>3. /\ SameBox(mdb, mdb') /\ mdb'.verdict = mdb.verdict
      /\ \A n \in Nullifiers : mdb'.claims[n] = IF n = Envelope[m].null THEN m ELSE mdb.claims[n]
  BY <1>2, ClaimIs DEF MailInv, Good
<1>4. Moves({m}) BY <1>1, <1>3, ClaimingMoves
<1>5. m \in RestMsgs /\ Known(m) BY <1>1, <1>2 DEF GateInv, SenderInv
<1>6. mdb'.index = mdb.index BY <1>3 DEF SameBox
<1>7. Moved(m)
  <2>1. Verified(mdb', m) => Verified(mdb, m) BY <1>3 DEF Verified
  <2>2. InFlight(m)' BY <1>2 DEF InFlight
  <2> QED BY <1>1, <1>5, <1>6, <2>1, <2>2, StoreNone DEF Moved, Known
<1>8. Flights({m}) BY <1>1, <1>2, OneFlight
<1>9. Grows => SenderInv'
  <2> SUFFICES ASSUME Grows PROVE SenderInv' OBVIOUS
  <2>1. Known(m)' BY <1>5, KnownStays
  <2> QED BY <2>1, <1>2, <1>5 DEF SenderInv, Known, FixedPoll
<1>10. Grows => SwarmInv' BY <1>2, <1>4, <1>6, OneSwarm
<1> QED BY <1>2, <1>4, <1>7, <1>8, <1>9, <1>10, OneGate

\* The loop's claim keeps the invariant of the gate.
LEMMA LoopClaimGate == ASSUME MailInv, MailInv', GateInv, Recorded, LoopClaim PROVE GateInv'
<1>1. PICK m \in Msgs : m = swarm.m /\ IsProof(m) /\ m \in swarm.todo BY ProofMail DEF LoopClaim
<1>2. /\ swarm.pc = "claim" /\ swarm'.pc = "verdict" /\ swarm'.m = m /\ swarm'.todo = swarm.todo /\ sender' = sender /\ mdb' = ClaimNullifier(mdb, m)
      /\ clock' = clock /\ setRoots' = setRoots /\ tmCrashes' = tmCrashes
  BY <1>1 DEF LoopClaim, MailInv, Threads, Swarms
<1>3. /\ SameBox(mdb, mdb') /\ mdb'.verdict = mdb.verdict
      /\ \A n \in Nullifiers : mdb'.claims[n] = IF n = Envelope[m].null THEN m ELSE mdb.claims[n]
  BY <1>2, ClaimIs DEF MailInv, Good
<1>4. Moves({m}) BY <1>1, <1>3, ClaimingMoves
<1>5. Known(m) BY <1>1, <1>2 DEF GateInv, SwarmInv
<1>6. mdb'.index = mdb.index BY <1>3 DEF SameBox
<1>7. Moved(m)
  <2>1. Verified(mdb', m) => Verified(mdb, m) BY <1>3 DEF Verified
  <2>2. InFlight(m)' BY <1>1, <1>2 DEF InFlight
  <2> QED BY <1>1, <1>5, <1>6, <2>1, <2>2, StoreNone DEF Moved, Known
<1>8. Flights({m}) BY <1>1, <1>2, OneFlight
<1>9. Grows => SenderInv' BY <1>2, <1>4, <1>6, OneSender
<1>10. Grows => SwarmInv'
  <2> SUFFICES ASSUME Grows PROVE SwarmInv' OBVIOUS
  <2>1. Known(m)' BY <1>5, KnownStays
  <2>2. PICK M : M = {m} OBVIOUS
  <2>3. \A x \in swarm.todo : Day(Envelope[x].at) <= Day(clock') /\ (mdb'.index[x] # "none" \/ IsExpired(x, clock'))
    BY <2>2, <1>4, <1>6, TodoKept
  <2> QED BY <2>1, <2>3, <1>2 DEF SwarmInv, Known, FixedPoll
<1> QED BY <1>2, <1>4, <1>7, <1>8, <1>9, <1>10, OneGate

-----------------------------------------------------------------------------

\* The verdict on the client's post keeps the invariant of the gate.
LEMMA SendVerdictGate == ASSUME MailInv, MailInv', GateInv, Recorded, SendVerdict PROVE GateInv'
<1>1. PICK m \in Msgs : m = sender.m /\ IsProof(m) BY ProofMail DEF SendVerdict
<1>2. PICK v \in Verdicts : v = "verified" BY DEF Verdicts
<1>3. /\ sender.pc = "verdict" /\ sender' = Idle /\ swarm' = swarm /\ mdb' = SetAnonVerdict(mdb, m, v, clock)
      /\ clock' = clock /\ setRoots' = setRoots /\ tmCrashes' = tmCrashes
  BY <1>1, <1>2 DEF SendVerdict
<1>4. VerdictSet(mdb, mdb', m, v) BY <1>1, <1>3, VerdictKind
<1>5. Moves({m}) /\ mdb'.verdict[m] = v /\ mdb'.claims = mdb.claims BY <1>1, <1>4, VerdictMoves
<1>6. mdb'.index[m] = mdb.index[m]
  <2>1. \A h \in mdb.held : h.m # m BY <1>1, KindIs DEF MailInv, Good, Holding
  <2>2. Judged(mdb, mdb', m, v, m) BY <1>4 DEF VerdictSet
  <2> QED BY <1>2, <2>1, <2>2 DEF Judged
<1>7. Known(m) /\ (mdb.index[m] = "none" => Late(m)) BY <1>1, <1>3 DEF GateInv, SenderInv
<1>8. Moved(m) BY <1>2, <1>5, <1>6, <1>7 DEF Moved, Verified, Known
<1>9. Flights({m}) BY <1>1, <1>3, OneFlight
<1>10. Grows => SenderInv' BY <1>3 DEF SenderInv, Idle
<1>11. Grows => SwarmInv' BY <1>3, <1>5, <1>6, OneSwarm
<1> QED BY <1>3, <1>5, <1>8, <1>9, <1>10, <1>11, OneGate

\* The loop's verdict keeps the invariant of the gate.
LEMMA LoopVerdictGate == ASSUME MailInv, MailInv', GateInv, Recorded, LoopVerdict PROVE GateInv'
<1>1. PICK m \in Msgs : m = swarm.m /\ IsProof(m) /\ m \in swarm.todo BY ProofMail DEF LoopVerdict
<1>2. PICK v \in Verdicts : v = "verified" BY DEF Verdicts
<1>3. PICK left : /\ left = swarm.todo \ {m}
                  /\ swarm' = [pc |-> IF left = {} THEN "idle" ELSE "judge", todo |-> left, m |-> 0]
  BY <1>1 DEF LoopVerdict
<1>4. /\ swarm.pc = "verdict" /\ sender' = sender /\ mdb' = SetAnonVerdict(mdb, m, v, clock)
      /\ clock' = clock /\ setRoots' = setRoots /\ tmCrashes' = tmCrashes
  BY <1>1, <1>2 DEF LoopVerdict
<1>5. VerdictSet(mdb, mdb', m, v) BY <1>1, <1>4, VerdictKind
<1>6. Moves({m}) /\ mdb'.verdict[m] = v /\ mdb'.claims = mdb.claims BY <1>1, <1>5, VerdictMoves
<1>7. mdb'.index[m] = mdb.index[m]
  <2>1. \A h \in mdb.held : h.m # m BY <1>1, KindIs DEF MailInv, Good, Holding
  <2>2. Judged(mdb, mdb', m, v, m) BY <1>5 DEF VerdictSet
  <2> QED BY <1>2, <2>1, <2>2 DEF Judged
<1>8. Known(m) /\ (mdb.index[m] = "none" => Late(m)) BY <1>1, <1>4 DEF GateInv, SwarmInv, Late
<1>9. Moved(m) BY <1>2, <1>6, <1>7, <1>8 DEF Moved, Verified, Known
<1>10. Flights({m})
  <2>1. swarm'.todo = left BY <1>3
  <2> QED BY <1>3, <1>4, <2>1, OneFlight
<1>11. Grows => SenderInv' BY <1>4, <1>6, <1>7, OneSender
<1>12. Grows => SwarmInv' BY <1>3, <1>6, LeftSwarm
<1> QED BY <1>4, <1>6, <1>9, <1>10, <1>11, <1>12, OneGate

\* The loop's check of a proof keeps the invariant of the gate.
LEMMA LoopJudgeGate == ASSUME MailInv, MailInv', GateInv, Recorded, LoopJudge PROVE GateInv'
<1>m. PICK m \in swarm.todo : \E v, left : LoopJudges(m, v, left) BY JudgesOne
<1>1. PICK v, left :
        /\ v = Judge(mdb, m, clock) /\ left = swarm.todo \ {m}
        /\ \/ v = "verified" /\ swarm' = [swarm EXCEPT !.pc = "claim", !.m = m] /\ mdb' = mdb
           \/ /\ v # "verified" /\ mdb' = SetAnonVerdict(mdb, m, v, clock)
              /\ swarm' = [pc |-> IF left = {} THEN "idle" ELSE "judge", todo |-> left, m |-> 0]
  BY <1>m DEF LoopJudges
<1>2. m \in Msgs /\ IsProof(m) BY ProofMail
<1>3. Day(Envelope[m].at) <= Day(clock) BY DEF GateInv, SwarmInv
<1>4. sender' = sender /\ clock' = clock /\ setRoots' = setRoots /\ tmCrashes' = tmCrashes BY DEF LoopJudge
<1>5. CASE v = "verified" /\ swarm' = [swarm EXCEPT !.pc = "claim", !.m = m] /\ mdb' = mdb
  <2>1. Known(m) BY <1>1, <1>2, <1>3, <1>5, JudgedGood
  <2>2. CalmTo(mdb, mdb', clock) BY <1>5, StillCalm
  <2>3. swarm'.todo = swarm.todo /\ swarm'.m = m /\ swarm'.pc = "claim" BY <1>5 DEF MailInv, Threads, Swarms
  <2>4. Flights({}) BY <1>4, <2>3 DEF Flights, InFlight
  <2>5. Grows => SenderInv' BY <1>4, <2>2, SameSender
  <2>6. Grows => SwarmInv'
    <3>1. SUFFICES ASSUME Grows PROVE SwarmInv' OBVIOUS
    <3>2. Known(m)' BY <1>2, <2>1, <3>1, KnownStays
    <3> QED BY <3>2, <2>3, <1>4, <1>5 DEF SwarmInv, GateInv, Known, FixedPoll
  <2>7. clock <= clock' /\ setRoots \subseteq setRoots' BY <1>4, StillClock
  <2> QED BY <1>4, <2>2, <2>4, <2>5, <2>6, <2>7, CalmGateWith DEF GateInv
<1>6. CASE /\ v # "verified" /\ mdb' = SetAnonVerdict(mdb, m, v, clock)
           /\ swarm' = [pc |-> IF left = {} THEN "idle" ELSE "judge", todo |-> left, m |-> 0]
  <2>1. v \in Verdicts /\ v \in {"failed", "unknown"} BY <1>1, <1>6, JudgeTags DEF Verdicts
  <2>2. VerdictSet(mdb, mdb', m, v) BY <1>2, <1>6, <2>1, VerdictKind
  <2>3. Moves({m}) /\ mdb'.verdict[m] = v /\ mdb'.claims = mdb.claims BY <1>2, <2>2, VerdictMoves
  <2>4. v = "unknown" => Late(m)
    <3>1. RootAccepted(mdb, m, clock) \in BOOLEAN BY DEF RootAccepted
    <3>2. v = "unknown" => ~RootAccepted(mdb, m, clock) BY <1>1, <3>1 DEF Judge
    <3> QED BY <3>2 DEF Late
  <2>5. mdb.claims[Envelope[m].null] = m /\ Known(m) => v = "unknown" BY <1>1, <2>1 DEF Judge, Known
  <2>6. mdb'.claims[Envelope[m].null] = m => Known(m) /\ Late(m)
    <3>1. Envelope[m].null \in Nullifiers BY <1>2 DEF Nullifiers
    <3> QED BY <1>2, <2>3, <2>4, <2>5, <3>1 DEF GateInv, ClaimInv
  <2>7. Moved(m) BY <1>3, <2>1, <2>3, <2>6 DEF Moved, Verified
  <2>8. mdb'.index[m] = "none" => mdb.index[m] = "none" \/ Late(m)
    <3>1. \A h \in mdb.held : h.m # m BY <1>2, KindIs DEF MailInv, Good, Holding
    <3>2. Judged(mdb, mdb', m, v, m) BY <1>2, <2>2 DEF VerdictSet
    <3> QED BY <2>4, <3>1, <3>2 DEF Judged
  <2>9. Flights({m})
    <3>1. swarm'.todo = left BY <1>6
    <3> QED BY <1>1, <1>4, <3>1, OneFlight
  <2>10. Grows => SenderInv' BY <1>2, <1>4, <2>3, <2>8, OneSender
  <2>11. Grows => SwarmInv' BY <1>1, <1>2, <1>6, <2>3, LeftSwarm
  <2> QED BY <1>2, <1>4, <2>3, <2>7, <2>9, <2>10, <2>11, OneGate
<1> QED BY <1>1, <1>5, <1>6

\* A claim given back.
LEMMA ReleasingMoves ==
    ASSUME NEW m \in Msgs, IsProof(m), NEW e, CalmTo(mdb, e, clock), SameBox(e, mdb'), mdb'.verdict = e.verdict,
           \A n \in Nullifiers : mdb'.claims[n] = IF n = Envelope[m].null /\ e.claims[n] = m THEN Unclaimed ELSE e.claims[n]
    PROVE  Moves({m})
<1>1. \A x \in Msgs \ {m} : IsProof(x) => StayProof(x) BY DEF StayProof, SameBox, CalmTo, KeepsProof
<1>2. \A r \in mdb'.fastKeys : KeyBacked(r, {m}) BY DEF SameBox, KeyBacked, CalmTo
<1>3. \A x \in Msgs : IsFastPost(x) /\ Verified(mdb', x) => FastBacked(x, {m}) BY DEF Verified, FastBacked, CalmTo
<1>4. \A n \in Nullifiers : ClaimMoved(n, {m}) BY DEF ClaimMoved, CalmTo
<1>5. \A x \in mdb'.mail : IsProof(x) => x \in mdb.mail BY DEF SameBox, CalmTo
<1>6. mdb.polls \subseteq mdb'.polls BY DEF SameBox, CalmTo
<1> QED BY <1>1, <1>2, <1>3, <1>4, <1>5, <1>6 DEF Moves

\* Storing the client's post keeps the invariant of the gate.
LEMMA SendStoreGate == ASSUME MailInv, MailInv', GateInv, Recorded, SendStore PROVE GateInv'
<1>1. PICK m \in Msgs : m = sender.m /\ IsProof(m) BY ProofMail DEF SendStore
<1>2. /\ sender.pc = "store" /\ sender \in Senders /\ swarm' = swarm
      /\ clock' = clock /\ setRoots' = setRoots /\ tmCrashes' = tmCrashes
  BY DEF SendStore, MailInv, Threads
<1>3. PICK r : /\ r = StoreTmail(mdb, m, clock)
               /\ IF r.res \in {"stored", "duplicate"}
                  THEN mdb' = r.db /\ sender' = [sender EXCEPT !.pc = "verdict", !.stored = (r.res = "stored")]
                  ELSE mdb' = (IF Live(r.db, m) THEN r.db ELSE ReleaseNullifier(r.db, m)) /\ sender' = Idle
  BY <1>1 DEF SendStore
<1>4. AnsweredWell(mdb, r, m, clock) BY <1>3, StoreGood DEF MailInv
<1>5. m \in RestMsgs /\ Known(m) BY <1>1, <1>2 DEF GateInv, SenderInv
<1>6. CASE r.res = "stored"
  <2>1. mdb' = r.db /\ sender'.pc = "verdict" /\ sender'.m = m BY <1>1, <1>2, <1>3, <1>6 DEF Senders
  <2>2. StoredAs(mdb, mdb', m, clock) BY <1>4, <1>6, <2>1 DEF AnsweredWell, StoredWell
  <2>3. PICK e : e = mdb' OBVIOUS
  <2>4. Moves({m}) BY <1>1, <2>2, <2>3, StoringMoves
  <2>5. mdb'.index[m] = "none" => IsExpired(m, clock) BY <2>2 DEF StoredAs
  <2>6. Moved(m)
    <3>1. InFlight(m)' BY <2>1 DEF InFlight
    <3> QED BY <1>5, <2>5, <3>1 DEF Moved, Known, Late
  <2>7. Flights({m}) BY <1>1, <1>2, OneFlight
  <2>8. Grows => SenderInv'
    <3> SUFFICES ASSUME Grows PROVE SenderInv' OBVIOUS
    <3>1. Known(m)' BY <1>5, KnownStays
    <3>2. mdb'.index[m] = "none" => Late(m)' BY <1>5, <2>5, LateStays DEF Late
    <3> QED BY <1>5, <2>1, <3>1, <3>2 DEF SenderInv, Known, FixedPoll, Late, RootAccepted, IsPoll
  <2>9. Grows => SwarmInv' BY <1>2, <2>4, <2>5, OneSwarm
  <2> QED BY <1>2, <2>4, <2>6, <2>7, <2>8, <2>9, OneGate
<1>7. CASE r.res = "duplicate"
  <2>1. mdb' = mdb /\ mdb.index[m] # "none" /\ sender'.pc = "verdict" /\ sender'.m = m BY <1>1, <1>2, <1>3, <1>4, <1>7 DEF Senders, AnsweredWell
  <2>2. CalmTo(mdb, mdb', clock) BY <2>1, StillCalm
  <2>3. clock <= clock' /\ setRoots \subseteq setRoots' BY <1>2, StillClock
  <2>4. Flights({}) BY <1>1, <1>2, <2>1 DEF Flights, InFlight
  <2>5. Grows => SenderInv'
    <3> SUFFICES ASSUME Grows PROVE SenderInv' OBVIOUS
    <3>1. Known(m)' BY <1>5, KnownStays
    <3> QED BY <1>5, <2>1, <3>1 DEF SenderInv, Known, FixedPoll
  <2>6. Grows => SwarmInv' BY <1>2, <2>2, SameSwarm
  <2> QED BY <1>2, <2>2, <2>3, <2>4, <2>5, <2>6, CalmGateWith DEF GateInv
<1>8. CASE r.res \in {"full", "ballot"}
  <2>1. PICK e : e = r.db OBVIOUS
  <2>2. mdb.index[m] = "none" /\ Thinned(mdb, e, clock, {}) BY <1>4, <1>8, <2>1 DEF AnsweredWell
  <2>3. ~Live(e, m)
    <3>1. m \notin mdb.mail BY <2>2 DEF MailInv, Good, Sane, IndexOk
    <3> QED BY <2>2, <3>1 DEF Thinned, Live
  <2>4. mdb' = ReleaseNullifier(e, m) /\ sender' = Idle BY <1>3, <1>8, <2>1, <2>3
  <2>5. Sane(e) /\ CalmTo(mdb, e, clock) BY <2>2, ThinnedCalm DEF Thinned
  <2>6. /\ SameBox(e, mdb') /\ mdb'.verdict = e.verdict
        /\ \A n \in Nullifiers : mdb'.claims[n] = IF n = Envelope[m].null /\ e.claims[n] = m THEN Unclaimed ELSE e.claims[n]
    BY <2>4, <2>5, ReleaseIs
  <2>7. Moves({m}) BY <1>1, <2>5, <2>6, ReleasingMoves
  <2>8. mdb'.claims[Envelope[m].null] # m
    <3>1. Envelope[m].null \in Nullifiers /\ m # Unclaimed BY TmSets DEF Nullifiers, Unclaimed
    <3> QED BY <2>6, <3>1
  <2>9. Moved(m)
    <3>1. mdb'.verdict = mdb.verdict BY <2>2, <2>6 DEF Thinned, SameRest
    <3>2. Verified(mdb', m) => Verified(mdb, m) BY <3>1 DEF Verified
    <3>3. Verified(mdb', m) => Late(m) BY <1>1, <2>2, <3>2, StoreNone
    <3> QED BY <1>5, <2>8, <3>3 DEF Moved, Known
  <2>10. Flights({m}) BY <1>1, <1>2, OneFlight
  <2>11. Grows => SenderInv' BY <2>4 DEF SenderInv, Idle
  <2>12. Grows => SwarmInv' BY <1>2, <2>2, <2>7, OneSwarm
  <2> QED BY <1>2, <2>7, <2>9, <2>10, <2>11, <2>12, OneGate
<1> QED BY <1>4, <1>6, <1>7, <1>8 DEF AnsweredWell

-----------------------------------------------------------------------------
\* A post from gossip, stored; its verdict set back to pending when it stayed.
GossipTo(e, m) ==
    \/ mdb' = e /\ ~Live(e, m) /\ swarm' = swarm
    \/ /\ Live(e, m) /\ mdb' = SetAnonVerdict(e, m, "pending", clock)
       /\ IF Envelope[m].receipt \in e.receipts THEN swarm' = [pc |-> "judge", todo |-> {m}, m |-> 0] ELSE swarm' = swarm
\* What setting a stored post to pending leaves alone.
PendingAfter(e, m) ==
    /\ mdb'.mail = e.mail /\ mdb'.index = e.index /\ mdb'.fastKeys = e.fastKeys /\ mdb'.claims = e.claims /\ mdb'.polls = e.polls
    /\ \A x \in Msgs : x # m => mdb'.verdict[x] = e.verdict[x]

\* A pending verdict moves no message, no key and no claim.
LEMMA PendingIs ==
    ASSUME NEW e, Good(e), NEW m \in Msgs, IsProof(m), mdb' = SetAnonVerdict(e, m, "pending", clock)
    PROVE  PendingAfter(e, m) /\ mdb'.verdict[m] = "pending"
<1>1. PICK v \in Verdicts : v = "pending" BY DEF Verdicts
<1>2. VerdictSet(e, mdb', m, v) BY <1>1, VerdictGood
<1>3. \A x \in Msgs : mdb'.index[x] = e.index[x] BY <1>1, <1>2 DEF VerdictSet, Judged
<1>4. \A x \in Msgs : mdb'.verdict[x] = IF x = m THEN v ELSE e.verdict[x] BY <1>1, <1>2 DEF VerdictSet, VerdictOf
<1>5. mdb' \in DBs /\ e \in DBs /\ IndexOk(mdb') /\ IndexOk(e) BY <1>2 DEF VerdictSet, Sane, Good
<1>6. mdb'.index \in [Msgs -> IndexTags] /\ e.index \in [Msgs -> IndexTags] /\ mdb'.mail \in SUBSET Msgs /\ e.mail \in SUBSET Msgs BY <1>5, DbFields
<1>7. mdb'.index = e.index BY <1>3, <1>6
<1>8. mdb'.mail = e.mail BY <1>5, <1>6, <1>3 DEF IndexOk
<1>9. mdb'.fastKeys = e.fastKeys /\ mdb'.claims = e.claims /\ mdb'.polls = e.polls BY <1>1, <1>2 DEF VerdictSet
<1> QED BY <1>1, <1>4, <1>7, <1>8, <1>9 DEF PendingAfter

\* A post that gossip brings is touched lawfully: its earlier verdict is gone only if it
\* was late.
LEMMA GossipMoved ==
    ASSUME MailInv, GateInv, NEW m \in Msgs, IsProof(m), Day(Envelope[m].at) <= Day(clock), swarm.todo = {}, sender' = sender,
           NEW e, StoredWell(mdb, e, m, clock), GossipTo(e, m), PendingAfter(e, m), Live(e, m) => mdb'.verdict[m] = "pending"
    PROVE  Moved(m)
<1>1. PICK n \in Nullifiers : n = Envelope[m].null BY DEF Nullifiers
<1>2. StoredAs(mdb, e, m, clock) /\ mdb.index[m] = "none" BY DEF StoredWell
<1>3. mdb'.index[m] = "none" => Late(m) BY <1>2 DEF PendingAfter, StoredAs, Late
<1>4. Verified(mdb', m) => mdb' = e BY DEF GossipTo, Verified
<1>5. CASE IsPoll(mdb, Envelope[m].to)
  <2>1. BallotOk(mdb, m, clock) /\ e.verdict[m] = "verified" BY <1>2, <1>5 DEF StoredAs, PassedAs
  <2>2. Known(m) BY <2>1, JudgedGood DEF BallotOk
  <2>3. Envelope[m].receipt \in e.receipts BY <1>2, <2>1 DEF BallotOk, StoredAs
  <2>4. Verified(mdb', m) \/ InFlight(m)'
    <3>1. CASE mdb' = e BY <3>1, <2>1 DEF Verified
    <3>2. CASE swarm' = [pc |-> "judge", todo |-> {m}, m |-> 0] BY <3>2 DEF InFlight
    <3> QED BY <2>3, <3>1, <3>2 DEF GossipTo
  <2> QED BY <1>3, <2>2, <2>4 DEF Moved
<1>6. CASE ~IsPoll(mdb, Envelope[m].to)
  <2>1. e.verdict = mdb.verdict /\ e.claims = mdb.claims BY <1>2, <1>6 DEF StoredAs, PassedAs
  <2>2. Verified(mdb, m) => Known(m) /\ Late(m) BY <1>2, StoreNone
  <2>3. Verified(mdb', m) => Verified(mdb, m) BY <1>4, <2>1 DEF Verified
  <2>4. mdb'.claims[n] = m => Known(m) /\ (tmCrashes = 0 => Earned(m)) BY <1>1, <2>1 DEF PendingAfter, GateInv, ClaimInv
  <2>5. InFlight(m) => InFlight(m)' BY DEF InFlight
  <2>6. Earned(m) => InFlight(m)' \/ Late(m) BY <2>2, <2>5 DEF Earned
  <2> QED BY <1>1, <1>3, <2>2, <2>3, <2>4, <2>6 DEF Moved
<1> QED BY <1>5, <1>6

\* A post from gossip keeps the invariant of the gate.
LEMMA GossipGate == ASSUME MailInv, MailInv', GateInv, Recorded, NEW m \in active, GossipPost(m) PROVE GateInv'
<1>1. m \in Msgs /\ IsProof(m) BY ActiveMsgs DEF GossipPost, IsProof
<1>2. /\ swarm.pc = "idle" /\ SentAtOk(m, clock) /\ sender' = sender
      /\ clock' = clock /\ setRoots' = setRoots /\ tmCrashes' = tmCrashes
  BY DEF GossipPost
<1>3. swarm.todo = {} BY <1>2 DEF MailInv, Threads
<1>4. PICK r : /\ r = StoreTmail(mdb, m, clock)
               /\ \/ r.res # "stored" /\ mdb' = r.db /\ swarm' = swarm
                  \/ r.res = "stored" /\ GossipTo(r.db, m)
  BY DEF GossipPost, GossipTo
<1>5. AnsweredWell(mdb, r, m, clock) BY <1>1, <1>4, StoreGood DEF MailInv
<1>6. Day(Envelope[m].at) <= Day(clock) BY <1>1, <1>2, SentToday
<1>7. clock <= clock' /\ setRoots \subseteq setRoots' BY <1>2, StillClock
<1>8. CASE r.res # "stored" /\ mdb' = r.db /\ swarm' = swarm
  <2>1. CalmTo(mdb, mdb', clock) BY <1>5, <1>8, StillCalm, ThinnedCalm DEF AnsweredWell
  <2> QED BY <1>2, <1>7, <1>8, <2>1, CalmGate
<1>9. CASE r.res = "stored" /\ GossipTo(r.db, m)
  <2>1. PICK e : e = r.db OBVIOUS
  <2>2. StoredWell(mdb, e, m, clock) /\ GossipTo(e, m) BY <1>5, <1>9, <2>1 DEF AnsweredWell
  <2>3. Good(e)
    <3>1. ~IsFastPost(m) BY <1>1, KindIs
    <3>2. GoodStep(mdb, e, clock) BY <2>2, <3>1, StoredGood
    <3> QED BY <3>2, GoodAfter
  <2>4. PendingAfter(e, m) /\ (Live(e, m) => mdb'.verdict[m] = "pending")
    <3>1. CASE mdb' = e /\ ~Live(e, m) BY <3>1 DEF PendingAfter
    <3>2. CASE mdb' = SetAnonVerdict(e, m, "pending", clock) BY <1>1, <2>3, <3>2, PendingIs
    <3> QED BY <2>2, <3>1, <3>2 DEF GossipTo
  <2>5. StoredAs(mdb, e, m, clock) /\ mdb.index[m] = "none" BY <2>2 DEF StoredWell
  <2>6. Moves({m}) BY <1>1, <2>4, <2>5, StoringMoves DEF PendingAfter
  <2>7. Moved(m) BY <1>1, <1>2, <1>3, <1>6, <2>2, <2>4, GossipMoved
  <2>8. Flights({m}) BY <1>2, <1>3, OneFlight
  <2>9. Grows => SenderInv' BY <1>1, <1>2, <2>5, <2>6, OneSender
  <2>10. Grows => SwarmInv'
    <3> SUFFICES ASSUME Grows PROVE SwarmInv' OBVIOUS
    <3>1. CASE swarm' = swarm BY <1>1, <2>5, <2>6, <3>1, OneSwarm
    <3>2. CASE Live(e, m) /\ swarm' = [pc |-> "judge", todo |-> {m}, m |-> 0]
      <4>1. mdb'.index[m] = "live" BY <2>4, <3>2 DEF Live, PendingAfter
      <4>2. swarm'.todo = {m} /\ swarm'.pc = "judge" BY <3>2
      <4>3. Day(Envelope[m].at) <= Day(clock') BY <1>1, <1>6, DayStays
      <4> QED BY <4>1, <4>2, <4>3 DEF SwarmInv
    <3> QED BY <2>2, <3>1, <3>2 DEF GossipTo
  <2> QED BY <1>1, <1>2, <2>6, <2>7, <2>8, <2>9, <2>10, OneGate
<1> QED BY <1>4, <1>8, <1>9

-----------------------------------------------------------------------------

\* The empty store satisfies the invariant of the gate.
LEMMA GateStarts == ASSUME TmailInit PROVE GateInv
<1>1. /\ mdb.mail = {} /\ mdb.fastKeys = {} /\ (\A m \in Msgs : mdb.verdict[m] = "none") /\ \A n \in Nullifiers : mdb.claims[n] = Unclaimed
  BY DEF TmailInit, EmptyMail
<1>2. sender.pc = "idle" /\ swarm.pc = "idle" /\ swarm.todo = {} /\ tmCrashes = 0 BY DEF TmailInit, Idle
<1>3. SenderInv /\ SwarmInv BY <1>2 DEF SenderInv, SwarmInv
<1>4. ProvenInv /\ KeyInv /\ DayInv BY <1>1 DEF ProvenInv, KeyInv, DayInv, Verified
<1>5. \A x \in Msgs : x # Unclaimed BY TmSets DEF Unclaimed
<1>6. ClaimInv BY <1>1, <1>5 DEF ClaimInv
<1> QED BY <1>2, <1>3, <1>4, <1>6 DEF GateInv

\* Every step keeps the invariant of the gate.
LEMMA GateKept == ASSUME MailInv, MailInv', GateInv, [TmailNext]_tmailVars PROVE GateInv'
<1>1. CASE UNCHANGED tmailVars BY <1>1, StutterGate
<1>2. CASE TmailNext
  <2>0. Recorded BY <1>2 DEF TmailNext, Recorded, IsProof
  <2>1. CASE \E m \in active : \/ SendJudge(m) \/ StoreNamed(m) \/ GossipPost(m)
                               \/ SendFast(m) \/ ReceiveFast(m) \/ HoldFast(m) \/ BurnRevoke(m)
    BY <2>0, <2>1, SendJudgeGate, NamedGate, GossipGate, SendFastGate, ReceiveFastGate, HoldFastGate, BurnGate
  <2>2. CASE SendClaim \/ SendStore \/ SendVerdict BY <2>0, <2>2, SendClaimGate, SendStoreGate, SendVerdictGate
  <2>3. CASE \E c \in ReceiptIds : DepositReceipt(c) \/ ReceiptArrives(c) BY <2>0, <2>3, DepositGate, ArrivesGate
  <2>4. CASE LoopJudge \/ LoopClaim \/ LoopVerdict BY <2>0, <2>4, LoopJudgeGate, LoopClaimGate, LoopVerdictGate
  <2>5. CASE \E w \in Boards : RegisterPoll(w) BY <2>0, <2>5, PollGate
  <2>6. CASE \E r \in NewRoots : LearnRoot(r) BY <2>0, <2>6, LearnGate
  <2>7. CASE Reap \/ TmailTick \/ TmailRestart BY <2>0, <2>7, ReapGate, TickGate, RestartGate
  <2> QED BY <1>2, <2>1, <2>2, <2>3, <2>4, <2>5, <2>6, <2>7 DEF TmailNext, TmailStep
<1> QED BY <1>1, <1>2

\* The invariant of the gate gives earned claims and fast posts behind proofs.
LEMMA GateGives == ASSUME MailInv, GateInv PROVE ClaimIsEarned /\ FastFollowsProof
<1>1. ClaimIsEarned
  <2> SUFFICES ASSUME tmCrashes = 0, NEW n \in Nullifiers, mdb.claims[n] # Unclaimed
               PROVE  LET m == mdb.claims[n] IN InFlight(m) \/ Verified(mdb, m) \/ IsExpired(m, clock) \/ ~RootAccepted(mdb, m, clock)
    BY DEF ClaimIsEarned
  <2>1. mdb.claims[n] \in Msgs BY DbFields DEF MailInv, Good, Sane
  <2>2. PICK x \in Msgs : x = mdb.claims[n] BY <2>1
  <2>3. Earned(x) BY <2>2 DEF GateInv, ClaimInv
  <2> QED BY <2>2, <2>3 DEF Earned, Late
<1>2. FastFollowsProof
  <2>1. mdb.mail \subseteq Msgs BY DbFields DEF MailInv, Good, Sane
  <2> QED BY <2>1 DEF FastFollowsProof, GateInv, KeyInv
<1> QED BY <1>1, <1>2

-----------------------------------------------------------------------------
(* Tmail: one verified post a nullifier.                                     *)

\* No client of this node shares a nullifier with another post.
NullifiersApart ==
    \A m \in RestMsgs, n \in Msgs : IsProof(m) /\ IsProof(n) /\ Envelope[m].null = Envelope[n].null => m = n

\* Who holds a nullifier; every verified post from gossip holds its own, and so does the
\* one the loop is at.
Owner(d, m) == d.claims[Envelope[m].null]
AllHeld == \A m \in Msgs \ RestMsgs : IsProof(m) /\ Verified(mdb, m) => Owner(mdb, m) = m
LoopHeld ==
    swarm.m \notin RestMsgs =>
        /\ swarm.pc = "claim" => Owner(mdb, swarm.m) \in {Unclaimed, swarm.m}
        /\ swarm.pc = "verdict" => Owner(mdb, swarm.m) = swarm.m
UniqueInv == AllHeld /\ LoopHeld

\* The step judges or claims for m alone.
Touched(m) ==
    /\ \A x \in Msgs \ {m} : IsProof(x) => mdb'.verdict[x] = mdb.verdict[x]
    /\ \A n \in Nullifiers : n # Envelope[m].null => mdb'.claims[n] = mdb.claims[n]
\* The post m leaves its nullifier alone or takes it from nobody.
TakesIt(m) ==
    /\ Owner(mdb', m) = Owner(mdb, m) \/ (Owner(mdb, m) \in {Unclaimed, m} /\ Owner(mdb', m) = m)
    /\ Verified(mdb', m) => Owner(mdb', m) = m

\* The nullifier of a message is a nullifier.
LEMMA NullIs == ASSUME NEW m \in Msgs PROVE Envelope[m].null \in Nullifiers
BY DEF Nullifiers

\* Verified posts keep their nullifiers when one post takes a free one, or a client's
\* post its own.
LEMMA HeldOne ==
    ASSUME NullifiersApart, AllHeld, NEW m \in Msgs, IsProof(m), Touched(m), m \in RestMsgs \/ TakesIt(m)
    PROVE  AllHeld'
<1> SUFFICES ASSUME NEW x \in Msgs \ RestMsgs, IsProof(x), Verified(mdb', x) PROVE Owner(mdb', x) = x
  BY DEF AllHeld, Verified, Owner
<1>1. CASE x = m BY <1>1 DEF TakesIt
<1>2. CASE x # m
  <2>1. Verified(mdb, x) BY <1>2 DEF Touched, Verified
  <2>2. Owner(mdb, x) = x BY <2>1 DEF AllHeld
  <2>3. CASE Envelope[x].null # Envelope[m].null
    <3>1. Envelope[x].null \in Nullifiers BY NullIs
    <3> QED BY <2>2, <2>3, <3>1 DEF Touched, Owner
  <2>4. CASE Envelope[x].null = Envelope[m].null
    <3>1. m \notin RestMsgs BY <1>2, <2>4 DEF NullifiersApart
    <3>2. x # Unclaimed BY TmSets DEF Unclaimed
    <3>3. Owner(mdb, x) = Owner(mdb, m) /\ Owner(mdb', x) = Owner(mdb', m) BY <2>4 DEF Owner
    <3> QED BY <1>2, <2>2, <3>1, <3>2, <3>3 DEF TakesIt
  <2> QED BY <2>3, <2>4
<1> QED BY <1>1, <1>2

\* A client's step leaves the loop's nullifier alone.
LEMMA LoopOther ==
    ASSUME NullifiersApart, MailInv, LoopHeld, NEW m \in RestMsgs, IsProof(m), Touched(m), swarm' = swarm
    PROVE  LoopHeld'
<1> SUFFICES ASSUME swarm.m \notin RestMsgs, swarm.pc \in {"claim", "verdict"}
             PROVE  Owner(mdb', swarm.m) = Owner(mdb, swarm.m)
  BY DEF LoopHeld, Owner
<1>1. swarm.m \in Msgs /\ IsProof(swarm.m) BY ProofMail
<1>2. Envelope[m].null # Envelope[swarm.m].null BY <1>1 DEF NullifiersApart
<1>3. Envelope[swarm.m].null \in Nullifiers BY <1>1, NullIs
<1> QED BY <1>2, <1>3 DEF Touched, Owner

\* A step that touches no proof leaves every nullifier with its post.
LEMMA CalmHeld == ASSUME MailInv, AllHeld, CalmTo(mdb, mdb', clock) PROVE AllHeld'
<1>1. \A x \in Msgs : IsProof(x) => mdb'.verdict[x] = mdb.verdict[x] BY DEF CalmTo, KeepsProof
<1>2. mdb'.claims = mdb.claims BY DEF CalmTo
<1> QED BY <1>1, <1>2 DEF AllHeld, Verified, Owner

\* A step that touches no proof keeps the invariant of the nullifiers.
LEMMA CalmUnique ==
    ASSUME MailInv, UniqueInv, CalmTo(mdb, mdb', clock), swarm' = swarm \/ swarm'.pc \notin {"claim", "verdict"}
    PROVE  UniqueInv'
<1>1. AllHeld' BY CalmHeld DEF UniqueInv
<1>2. mdb'.claims = mdb.claims BY DEF CalmTo
<1>3. LoopHeld' BY <1>2 DEF UniqueInv, LoopHeld, Owner
<1> QED BY <1>1, <1>3 DEF UniqueInv

\* A verdict touches one post and no claim.
LEMMA VerdictTouched ==
    ASSUME NEW m \in Msgs, IsProof(m), NEW v, VerdictSet(mdb, mdb', m, v) PROVE Touched(m) /\ mdb'.verdict[m] = v /\ mdb'.claims = mdb.claims
<1>1. \A x \in Msgs : IsProof(x) => mdb'.verdict[x] = IF x = m THEN v ELSE mdb.verdict[x] BY KindIs DEF VerdictSet, VerdictOf
<1> QED BY <1>1 DEF Touched, VerdictSet

-----------------------------------------------------------------------------
\* The steps that touch no proof.
LEMMA CalmSteps ==
    ASSUME MailInv,
           \/ \E m \in active : SendJudge(m) \/ StoreNamed(m) \/ SendFast(m) \/ ReceiveFast(m) \/ HoldFast(m) \/ BurnRevoke(m)
           \/ \E c \in ReceiptIds : DepositReceipt(c) \/ ReceiptArrives(c)
           \/ \E w \in Boards : RegisterPoll(w)
           \/ \E r \in NewRoots : LearnRoot(r)
           \/ Reap \/ TmailTick \/ TmailRestart \/ UNCHANGED tmailVars
    PROVE  CalmTo(mdb, mdb', clock) /\ (swarm' = swarm \/ swarm'.pc \notin {"claim", "verdict"})
<1>1. ASSUME NEW m \in active, SendJudge(m) PROVE CalmTo(mdb, mdb', clock) /\ swarm' = swarm BY <1>1, StillCalm DEF SendJudge
<1>2. ASSUME NEW m \in active, StoreNamed(m) PROVE CalmTo(mdb, mdb', clock) /\ swarm' = swarm
  <2>1. m \in Msgs /\ ~IsProof(m) BY <1>2, ActiveMsgs DEF StoreNamed, IsProof
  <2>2. PICK r : r = StoreTmail(mdb, m, clock) OBVIOUS
  <2>3. AnsweredWell(mdb, r, m, clock) BY <2>1, <2>2, StoreGood DEF MailInv
  <2> QED BY <1>2, <2>1, <2>2, <2>3, AnsweredCalm DEF StoreNamed
<1>3. ASSUME NEW m \in active, SendFast(m) PROVE CalmTo(mdb, mdb', clock) /\ swarm' = swarm
  <2>1. PICK take : take = FloodTake(flood, KeyOf(m), clock, TRUE) OBVIOUS
  <2> QED BY <1>3, <2>1, ActiveMsgs, FastCalm DEF SendFast, FastChecks
<1>4. ASSUME NEW m \in active, ReceiveFast(m) PROVE CalmTo(mdb, mdb', clock) /\ swarm' = swarm
  <2>1. PICK take : take = FloodTake(flood, KeyOf(m), clock, FALSE) OBVIOUS
  <2> QED BY <1>4, <2>1, ActiveMsgs, FastCalm DEF ReceiveFast, FastChecks
<1>5. ASSUME NEW m \in active, HoldFast(m) PROVE CalmTo(mdb, mdb', clock) /\ swarm' = swarm
  <2>1. PICK d : d = PruneFast(mdb, clock) OBVIOUS
  <2>2. mdb' = d \/ mdb' = HoldPending(d, m) BY <1>5, <2>1 DEF HoldFast
  <2>3. m \in Msgs /\ IsFastPost(m) BY <1>5, ActiveMsgs DEF HoldFast, FastChecks
  <2> QED BY <1>5, <2>1, <2>2, <2>3, HoldCalm DEF HoldFast
<1>6. ASSUME NEW m \in active, BurnRevoke(m) PROVE CalmTo(mdb, mdb', clock) /\ swarm' = swarm
  <2>0. PICK S : S = {m} OBVIOUS
  <2>1. PICK e : e = DeleteByMsgId(mdb, S) OBVIOUS
  <2>2. CalmTo(mdb, e, clock) BY <2>1, DeleteThins, ThinnedCalm DEF MailInv, Good
  <2> QED BY <1>6, <2>0, <2>1, <2>2 DEF BurnRevoke
<1>7. ASSUME NEW c \in ReceiptIds, DepositReceipt(c) \/ ReceiptArrives(c)
      PROVE  CalmTo(mdb, mdb', clock) /\ (swarm' = swarm \/ swarm'.pc \notin {"claim", "verdict"})
  <2>1. PICK e : e = [mdb EXCEPT !.receipts = PutReceipt(@, c)] OBVIOUS
  <2>2. Deposited(mdb, e) BY <2>1, DepositIs DEF MailInv, Good
  <2>3. CalmTo(mdb, e, clock) BY <2>2, SameCalm DEF Deposited
  <2>4. mdb' = e BY <1>7, <2>1 DEF DepositReceipt, ReceiptArrives
  <2>5. swarm' = swarm \/ swarm'.pc = "judge" BY <1>7 DEF DepositReceipt, ReceiptArrives
  <2> QED BY <2>3, <2>4, <2>5
<1>8. ASSUME NEW w \in Boards, RegisterPoll(w) PROVE CalmTo(mdb, mdb', clock) /\ swarm' = swarm
  <2>1. PICK e : e = [mdb EXCEPT !.polls = @ \cup {w}] OBVIOUS
  <2>2. w \in DOMAIN PollRoot /\ mdb' = e BY <1>8, <2>1 DEF RegisterPoll
  <2>3. /\ e.mail = mdb.mail /\ e.index = mdb.index /\ e.verdict = mdb.verdict /\ e.claims = mdb.claims
        /\ e.polls = mdb.polls \cup {w} /\ e.fastKeys = mdb.fastKeys BY <2>1, <2>2, PollIs DEF MailInv, Good
  <2>4. CalmTo(mdb, e, clock) BY <2>3, SameCalm
  <2> QED BY <1>8, <2>2, <2>4 DEF RegisterPoll
<1>9. ASSUME NEW r \in NewRoots, LearnRoot(r) PROVE CalmTo(mdb, mdb', clock) /\ swarm' = swarm BY <1>9, StillCalm DEF LearnRoot
<1>10. ASSUME Reap PROVE CalmTo(mdb, mdb', clock) /\ swarm' = swarm
  <2>1. PICK e : e = PruneExpired(mdb, clock) OBVIOUS
  <2>2. CalmTo(mdb, e, clock) BY <2>1, PruneThins, ThinnedCalm DEF MailInv, Good
  <2> QED BY <1>10, <2>1, <2>2 DEF Reap
<1>11. ASSUME TmailTick PROVE CalmTo(mdb, mdb', clock) /\ swarm' = swarm BY <1>11, StillCalm DEF TmailTick
<1>12. ASSUME TmailRestart PROVE CalmTo(mdb, mdb', clock) /\ swarm'.pc = "idle" BY <1>12, StillCalm DEF TmailRestart
<1>13. ASSUME UNCHANGED tmailVars PROVE CalmTo(mdb, mdb', clock) /\ swarm' = swarm BY <1>13, StillCalm DEF tmailVars
<1> QED BY <1>1, <1>2, <1>3, <1>4, <1>5, <1>6, <1>7, <1>8, <1>9, <1>10, <1>11, <1>12, <1>13

\* The client's thread works for a post of its own.
LEMMA ClientTouches ==
    ASSUME MailInv, GateInv, SendClaim \/ SendStore \/ SendVerdict
    PROVE  swarm' = swarm /\ \E m \in RestMsgs : m \in Msgs /\ IsProof(m) /\ Touched(m)
<1>1. swarm' = swarm /\ sender.pc # "idle" BY DEF SendClaim, SendStore, SendVerdict
<1>2. PICK m \in Msgs : m = sender.m /\ IsProof(m) /\ m \in RestMsgs BY <1>1, ProofMail DEF GateInv, SenderInv
<1>3. CASE SendClaim
  <2>1. mdb' = ClaimNullifier(mdb, m) BY <1>2, <1>3 DEF SendClaim
  <2>2. Touched(m) BY <2>1, ClaimIs DEF MailInv, Good, Touched
  <2> QED BY <1>1, <1>2, <2>2
<1>4. CASE SendVerdict
  <2>1. PICK v \in Verdicts : v = "verified" BY DEF Verdicts
  <2>2. mdb' = SetAnonVerdict(mdb, m, v, clock) BY <1>2, <1>4, <2>1 DEF SendVerdict
  <2>3. VerdictSet(mdb, mdb', m, v) BY <1>2, <2>2, VerdictKind
  <2> QED BY <1>1, <1>2, <2>3, VerdictTouched
<1>5. CASE SendStore
  <2>1. PICK r : r = StoreTmail(mdb, m, clock) /\ (mdb' = r.db \/ (r.res \notin {"stored", "duplicate"} /\ mdb' = ReleaseNullifier(r.db, m)))
    BY <1>2, <1>5 DEF SendStore
  <2>2. AnsweredWell(mdb, r, m, clock) BY <2>1, StoreGood DEF MailInv
  <2>3. PICK e : e = r.db OBVIOUS
  <2>4. CASE StoredWell(mdb, e, m, clock) /\ mdb' = e
    <3>1. \A x \in Msgs \ {m} : mdb'.verdict[x] = mdb.verdict[x] BY <2>4 DEF StoredWell, StoredAs, PassedAs
    <3>2. \A n \in Nullifiers : n # Envelope[m].null => mdb'.claims[n] = mdb.claims[n] BY <2>4 DEF StoredWell, StoredAs, PassedAs
    <3> QED BY <1>1, <1>2, <3>1, <3>2 DEF Touched
  <2>5. CASE (e = mdb \/ Thinned(mdb, e, clock, {})) /\ (mdb' = e \/ mdb' = ReleaseNullifier(e, m))
    <3>1. e.verdict = mdb.verdict /\ e.claims = mdb.claims /\ Sane(e) BY <2>5 DEF Thinned, SameRest, MailInv, Good
    <3>2. CASE mdb' = e BY <1>1, <1>2, <3>1, <3>2 DEF Touched
    <3>3. CASE mdb' = ReleaseNullifier(e, m)
      <4>1. Touched(m) BY <3>1, <3>3, ReleaseIs DEF Touched
      <4> QED BY <1>1, <1>2, <4>1
    <3> QED BY <2>5, <3>2, <3>3
  <2> QED BY <2>1, <2>2, <2>3, <2>4, <2>5 DEF AnsweredWell
<1> QED BY <1>3, <1>4, <1>5

\* A post from gossip keeps the invariant of the nullifiers.
LEMMA GossipUnique ==
    ASSUME NullifiersApart, MailInv, UniqueInv, NEW m \in active, GossipPost(m) PROVE UniqueInv'
<1>1. m \in Msgs /\ IsProof(m) BY ActiveMsgs DEF GossipPost, IsProof
<1>2. swarm.pc = "idle" /\ SentAtOk(m, clock) BY DEF GossipPost
<1>3. PICK r : /\ r = StoreTmail(mdb, m, clock)
               /\ \/ r.res # "stored" /\ mdb' = r.db /\ swarm' = swarm
                  \/ r.res = "stored" /\ GossipTo(r.db, m)
  BY DEF GossipPost, GossipTo
<1>4. AnsweredWell(mdb, r, m, clock) BY <1>1, <1>3, StoreGood DEF MailInv
<1>5. Day(Envelope[m].at) <= Day(clock) BY <1>1, <1>2, SentToday
<1>6. CASE r.res # "stored" /\ mdb' = r.db /\ swarm' = swarm
  <2>1. CalmTo(mdb, mdb', clock) BY <1>4, <1>6, StillCalm, ThinnedCalm DEF AnsweredWell
  <2> QED BY <1>6, <2>1, CalmUnique
<1>7. CASE r.res = "stored" /\ GossipTo(r.db, m)
  <2>1. PICK e : e = r.db OBVIOUS
  <2>2. StoredWell(mdb, e, m, clock) /\ GossipTo(e, m) BY <1>4, <1>7, <2>1 DEF AnsweredWell
  <2>3. Good(e)
    <3>1. ~IsFastPost(m) BY <1>1, KindIs
    <3>2. GoodStep(mdb, e, clock) BY <2>2, <3>1, StoredGood
    <3> QED BY <3>2, GoodAfter
  <2>4. PendingAfter(e, m) /\ (mdb' = e \/ mdb'.verdict[m] = "pending")
    <3>1. CASE mdb' = e /\ ~Live(e, m) BY <3>1 DEF PendingAfter
    <3>2. CASE mdb' = SetAnonVerdict(e, m, "pending", clock) BY <1>1, <2>3, <3>2, PendingIs
    <3> QED BY <2>2, <3>1, <3>2 DEF GossipTo
  <2>5. StoredAs(mdb, e, m, clock) BY <2>2 DEF StoredWell
  <2>6. Touched(m)
    <3>1. \A x \in Msgs \ {m} : mdb'.verdict[x] = mdb.verdict[x] BY <2>4, <2>5 DEF PendingAfter, StoredAs, PassedAs
    <3>2. \A n \in Nullifiers : n # Envelope[m].null => mdb'.claims[n] = mdb.claims[n] BY <2>4, <2>5 DEF PendingAfter, StoredAs, PassedAs
    <3> QED BY <3>1, <3>2 DEF Touched
  <2>7. m \in RestMsgs \/ TakesIt(m)
    <3>1. CASE IsPoll(mdb, Envelope[m].to)
      <4>1. BallotOk(mdb, m, clock) BY <2>5, <3>1 DEF StoredAs, PassedAs
      <4>2. Owner(mdb, m) \in {Unclaimed, m} BY <1>1, <1>5, <4>1, JudgedGood DEF BallotOk, Owner
      <4>3. Owner(mdb', m) = m BY <1>1, <2>4, <2>5, <3>1, NullIs DEF Owner, PendingAfter, StoredAs, PassedAs
      <4> QED BY <4>2, <4>3 DEF TakesIt
    <3>2. CASE ~IsPoll(mdb, Envelope[m].to) /\ m \notin RestMsgs
      <4>1. Owner(mdb', m) = Owner(mdb, m) BY <2>4, <2>5, <3>2 DEF Owner, PendingAfter, StoredAs, PassedAs
      <4>2. Verified(mdb', m) => Verified(mdb, m) BY <2>4, <2>5, <3>2 DEF StoredAs, PassedAs, Verified
      <4> QED BY <1>1, <3>2, <4>1, <4>2 DEF TakesIt, UniqueInv, AllHeld
    <3> QED BY <3>1, <3>2
  <2>8. AllHeld' BY <1>1, <2>6, <2>7, HeldOne DEF UniqueInv
  <2>9. swarm'.pc \notin {"claim", "verdict"}
    <3>1. CASE swarm' = swarm BY <1>2, <3>1
    <3>2. CASE swarm' = [pc |-> "judge", todo |-> {m}, m |-> 0] BY <3>2
    <3> QED BY <2>2, <3>1, <3>2 DEF GossipTo
  <2> QED BY <2>8, <2>9 DEF UniqueInv, LoopHeld
<1> QED BY <1>3, <1>6, <1>7

\* The loop's check finds a free nullifier or refuses.
LEMMA LoopJudgeUnique ==
    ASSUME NullifiersApart, MailInv, GateInv, UniqueInv, LoopJudge PROVE UniqueInv'
<1>m. PICK m \in swarm.todo : \E v, left : LoopJudges(m, v, left) BY JudgesOne
<1>1. PICK v, left :
        /\ v = Judge(mdb, m, clock)
        /\ \/ v = "verified" /\ swarm' = [swarm EXCEPT !.pc = "claim", !.m = m] /\ mdb' = mdb
           \/ /\ v # "verified" /\ mdb' = SetAnonVerdict(mdb, m, v, clock)
              /\ swarm' = [pc |-> IF left = {} THEN "idle" ELSE "judge", todo |-> left, m |-> 0]
  BY <1>m DEF LoopJudges
<1>2. m \in Msgs /\ IsProof(m) /\ Day(Envelope[m].at) <= Day(clock) BY ProofMail DEF GateInv, SwarmInv
<1>3. CASE v = "verified" /\ swarm' = [swarm EXCEPT !.pc = "claim", !.m = m] /\ mdb' = mdb
  <2>1. Owner(mdb, m) \in {Unclaimed, m} BY <1>1, <1>2, <1>3, JudgedGood DEF Owner
  <2>2. swarm'.m = m /\ swarm'.pc = "claim" BY <1>3 DEF MailInv, Threads, Swarms
  <2>3. LoopHeld' BY <1>3, <2>1, <2>2 DEF LoopHeld, Owner
  <2>4. AllHeld' BY <1>3 DEF UniqueInv, AllHeld, Owner, Verified
  <2> QED BY <2>3, <2>4 DEF UniqueInv
<1>4. CASE /\ v # "verified" /\ mdb' = SetAnonVerdict(mdb, m, v, clock)
           /\ swarm' = [pc |-> IF left = {} THEN "idle" ELSE "judge", todo |-> left, m |-> 0]
  <2>1. v \in Verdicts BY <1>1, JudgeTags DEF Verdicts
  <2>2. VerdictSet(mdb, mdb', m, v) BY <1>2, <1>4, <2>1, VerdictKind
  <2>3. Touched(m) /\ mdb'.verdict[m] = v /\ mdb'.claims = mdb.claims BY <1>2, <2>2, VerdictTouched
  <2>4. TakesIt(m) BY <1>4, <2>3 DEF TakesIt, Owner, Verified
  <2>5. AllHeld' BY <1>2, <2>3, <2>4, HeldOne DEF UniqueInv
  <2>6. swarm'.pc \notin {"claim", "verdict"} BY <1>4
  <2> QED BY <2>5, <2>6 DEF UniqueInv, LoopHeld
<1> QED BY <1>1, <1>3, <1>4

\* The loop's claim takes no nullifier from another post.
LEMMA LoopClaimUnique == ASSUME NullifiersApart, MailInv, UniqueInv, LoopClaim PROVE UniqueInv'
<1>1. PICK m \in Msgs : m = swarm.m /\ IsProof(m) BY ProofMail DEF LoopClaim
<1>2. swarm.pc = "claim" /\ swarm'.pc = "verdict" /\ swarm'.m = m /\ mdb' = ClaimNullifier(mdb, m)
  BY <1>1 DEF LoopClaim, MailInv, Threads, Swarms
<1>3. /\ SameBox(mdb, mdb') /\ mdb'.verdict = mdb.verdict
      /\ \A n \in Nullifiers : mdb'.claims[n] = IF n = Envelope[m].null THEN m ELSE mdb.claims[n]
  BY <1>2, ClaimIs DEF MailInv, Good
<1>4. Touched(m) BY <1>3 DEF Touched
<1>5. Owner(mdb', m) = m BY <1>3, NullIs DEF Owner
<1>6. m \in RestMsgs \/ TakesIt(m) BY <1>1, <1>2, <1>5 DEF UniqueInv, LoopHeld, TakesIt
<1>7. AllHeld' BY <1>1, <1>4, <1>6, HeldOne DEF UniqueInv
<1>8. LoopHeld' BY <1>2, <1>5 DEF LoopHeld, Owner
<1> QED BY <1>7, <1>8 DEF UniqueInv

\* The loop verifies the post that holds the nullifier.
LEMMA LoopVerdictUnique == ASSUME NullifiersApart, MailInv, UniqueInv, LoopVerdict PROVE UniqueInv'
<1>1. PICK m \in Msgs : m = swarm.m /\ IsProof(m) BY ProofMail DEF LoopVerdict
<1>2. PICK v \in Verdicts : v = "verified" BY DEF Verdicts
<1>3. swarm.pc = "verdict" /\ mdb' = SetAnonVerdict(mdb, m, v, clock) /\ swarm'.pc \notin {"claim", "verdict"}
  BY <1>1, <1>2 DEF LoopVerdict
<1>4. VerdictSet(mdb, mdb', m, v) BY <1>1, <1>3, VerdictKind
<1>5. Touched(m) /\ mdb'.claims = mdb.claims BY <1>1, <1>4, VerdictTouched
<1>6. m \in RestMsgs \/ TakesIt(m) BY <1>1, <1>3, <1>5 DEF UniqueInv, LoopHeld, TakesIt, Owner
<1>7. AllHeld' BY <1>1, <1>5, <1>6, HeldOne DEF UniqueInv
<1> QED BY <1>3, <1>7 DEF UniqueInv, LoopHeld

\* The client's thread takes a nullifier no other post has.
LEMMA ClientUnique ==
    ASSUME NullifiersApart, MailInv, GateInv, UniqueInv, SendClaim \/ SendStore \/ SendVerdict PROVE UniqueInv'
<1>1. PICK m \in RestMsgs : m \in Msgs /\ IsProof(m) /\ Touched(m) BY ClientTouches
<1>2. swarm' = swarm BY ClientTouches
<1> QED BY <1>1, <1>2, HeldOne, LoopOther DEF UniqueInv

\* The empty store satisfies the invariant of the nullifiers.
LEMMA UniqueStarts == ASSUME TmailInit PROVE UniqueInv
<1>1. \A m \in Msgs : mdb.verdict[m] = "none" BY DEF TmailInit, EmptyMail
<1>2. swarm.pc = "idle" BY DEF TmailInit
<1> QED BY <1>1, <1>2 DEF UniqueInv, AllHeld, LoopHeld, Verified

\* Every step keeps the invariant of the nullifiers.
LEMMA UniqueKept ==
    ASSUME NullifiersApart, MailInv, GateInv, UniqueInv, [TmailNext]_tmailVars PROVE UniqueInv'
<1>1. CASE \/ \E m \in active : SendJudge(m) \/ StoreNamed(m) \/ SendFast(m) \/ ReceiveFast(m) \/ HoldFast(m) \/ BurnRevoke(m)
           \/ \E c \in ReceiptIds : DepositReceipt(c) \/ ReceiptArrives(c)
           \/ \E w \in Boards : RegisterPoll(w)
           \/ \E r \in NewRoots : LearnRoot(r)
           \/ Reap \/ TmailTick \/ TmailRestart \/ UNCHANGED tmailVars
  BY <1>1, CalmSteps, CalmUnique
<1>2. CASE \E m \in active : GossipPost(m) BY <1>2, GossipUnique
<1>3. CASE SendClaim \/ SendStore \/ SendVerdict BY <1>3, ClientUnique
<1>4. CASE LoopJudge \/ LoopClaim \/ LoopVerdict BY <1>4, LoopJudgeUnique, LoopClaimUnique, LoopVerdictUnique
<1> QED BY <1>1, <1>2, <1>3, <1>4 DEF TmailNext, TmailStep

\* That every verified post holds its nullifier gives one verified post a nullifier.
LEMMA UniqueGives == ASSUME NullifiersApart, UniqueInv PROVE OneVerifiedPerNullifier
<1> SUFFICES ASSUME NEW m \in Msgs, NEW n \in Msgs, IsProof(m), IsProof(n), Verified(mdb, m), Verified(mdb, n), Envelope[m].null = Envelope[n].null
             PROVE  m = n
  BY DEF OneVerifiedPerNullifier, IsProof
<1>1. CASE m \in RestMsgs BY <1>1 DEF NullifiersApart
<1>2. CASE n \in RestMsgs BY <1>2 DEF NullifiersApart
<1>3. CASE m \notin RestMsgs /\ n \notin RestMsgs BY <1>3 DEF UniqueInv, AllHeld, Owner
<1> QED BY <1>1, <1>2, <1>3

\* The three invariants together.
AllMailInv == MailInv /\ GateInv /\ UniqueInv

\* The three invariants hold in every behaviour.
LEMMA AllMailKept == ASSUME NullifiersApart PROVE TmailSpec => []AllMailInv
<1>1. TmailInit => AllMailInv BY MailStarts, GateStarts, UniqueStarts DEF AllMailInv
<1>2. ASSUME AllMailInv, [TmailNext]_tmailVars PROVE AllMailInv'
  <2>1. MailInv' BY <1>2, MailKept DEF AllMailInv
  <2>2. GateInv' BY <1>2, <2>1, GateKept DEF AllMailInv
  <2>3. UniqueInv' BY <1>2, UniqueKept DEF AllMailInv
  <2> QED BY <2>1, <2>2, <2>3 DEF AllMailInv
<1> QED BY <1>1, <1>2, PTL DEF TmailSpec

\* One verified post a nullifier, claims for accepted posts only, fast posts behind a proof
\* only (claim_anon_nullifier, send_anonymous, register_fast_key), when no client of this
\* node shares a nullifier with another post.
THEOREM GateIsKept == ASSUME NullifiersApart PROVE TmailSpec => []AnonymousGate
<1>1. AllMailInv => AnonymousGate BY GateGives, UniqueGives DEF AllMailInv, AnonymousGate
<1> QED BY <1>1, AllMailKept, PTL

\* Whoever shares a nullifier with whom, a used nullifier belongs to an accepted post and a
\* verified fast post follows a proof (send_anonymous's release, register_fast_key).
THEOREM ClaimsAreEarned == TmailSpec => [](ClaimIsEarned /\ FastFollowsProof)
<1> DEFINE GInv == MailInv /\ GateInv
<1>1. TmailInit => GInv BY MailStarts, GateStarts
<1>2. GInv /\ [TmailNext]_tmailVars => GInv' BY MailKept, GateKept
<1>3. GInv => ClaimIsEarned /\ FastFollowsProof BY GateGives
<1> QED BY <1>1, <1>2, <1>3, PTL DEF TmailSpec

-----------------------------------------------------------------------------
(* Tmail: who gives way on a board.                                          *)

\* The newest of a conversation stays.
LEMMA FirstStays ==
    ASSUME NEW R \in SUBSET Msgs, NEW k \in Nat \ {0}, NEW x \in Excess(R, k)
    PROVE  \E z \in R \ Excess(R, k) : Newer(z, x)
<1>1. IsFiniteSet(R) /\ x \in R BY TmSets, FS_Subset DEF Excess
<1>2. Ordered(NewerPairs, R) BY NewerOrdered
<1>3. PICK z \in R : \A y \in R : y # z => <<z, y>> \in NewerPairs
  <2>1. PICK K \in SUBSET R : K = R /\ K # {} BY <1>1
  <2> QED BY <1>1, <1>2, <2>1, FirstOf
<1>4. \A y \in R : y # z => Newer(z, y) BY <1>3 DEF NewerPairs
<1>5. {y \in R : Newer(y, z)} = {} BY <1>4, NewerOrder
<1>6. Cardinality({y \in R : Newer(y, z)}) = 0 BY <1>5, FS_EmptySet
<1>7. z \notin Excess(R, k) BY <1>6 DEF Excess
<1> QED BY <1>1, <1>4, <1>7

\* The posts that stay before x.
Before(d, R, x) == {y \in R : Earlier(d, y, x)}

\* The cap drops the posts with RetainAnon others before them.
LEMMA OverCapIs == ASSUME NEW d, NEW R, NEW x PROVE x \in OverCap(d, R) <=> x \in R /\ Cardinality(Before(d, R, x)) >= RetainAnon
BY DEF OverCap, Before

\* On a board of k + 1 posts at most k are before any one of them.
LEMMA BeforeSmall ==
    ASSUME NEW d, NEW R \in SUBSET Msgs, NEW x \in R, NEW k \in Nat, Cardinality(R) <= k + 1
    PROVE  /\ IsFiniteSet(R) /\ Cardinality(R) \in Nat
           /\ Cardinality(Before(d, R, x)) \in Nat /\ Cardinality(Before(d, R, x)) <= k
           /\ \A y \in R : y # x /\ y \notin Before(d, R, x) => Cardinality(Before(d, R, x)) < k
<1>1. IsFiniteSet(R) /\ Cardinality(R) \in Nat BY TmSets, FS_Subset, FS_CardinalityType
<1>2. PICK A : A = R \ {x} OBVIOUS
<1>3. IsFiniteSet(A) /\ Cardinality(A) = Cardinality(R) - 1 BY <1>1, <1>2, FS_RemoveElement
<1>4. Before(d, R, x) \in SUBSET A
  <2>1. ~Earlier(d, x, x) BY EarlierOrder
  <2> QED BY <1>2, <2>1 DEF Before
<1>5. IsFiniteSet(Before(d, R, x)) /\ Cardinality(Before(d, R, x)) <= Cardinality(A) BY <1>3, <1>4, FS_Subset
<1>6. Cardinality(Before(d, R, x)) \in Nat /\ Cardinality(A) \in Nat BY <1>3, <1>5, FS_CardinalityType
<1>7. ASSUME NEW y \in R, y # x, y \notin Before(d, R, x) PROVE Cardinality(Before(d, R, x)) < k
  <2>1. PICK B : B = A \ {y} OBVIOUS
  <2>2. y \in A BY <1>2, <1>7
  <2>3. IsFiniteSet(B) /\ Cardinality(B) = Cardinality(A) - 1 BY <1>3, <2>1, <2>2, FS_RemoveElement
  <2>4. Before(d, R, x) \in SUBSET B BY <1>4, <1>7, <2>1
  <2>5. Cardinality(Before(d, R, x)) <= Cardinality(B) BY <2>3, <2>4, FS_Subset
  <2> QED BY <1>1, <1>3, <1>6, <2>3, <2>5
<1>8. Cardinality(Before(d, R, x)) <= k BY <1>1, <1>3, <1>5, <1>6
<1> QED BY <1>1, <1>6, <1>7, <1>8

\* A board that is not over its cap loses nothing.
LEMMA CapIdle ==
    ASSUME NEW d, NEW R \in SUBSET Msgs, Cardinality(R) <= RetainAnon
    PROVE  OverCap(d, R) = {}
<1> SUFFICES ASSUME NEW x \in OverCap(d, R) PROVE FALSE OBVIOUS
<1>1. x \in R /\ Cardinality(Before(d, R, x)) >= RetainAnon BY OverCapIs
<1>2. PICK k \in Nat : RetainAnon = k + 1
  <2>1. RetainAnon \in Nat \ {0} BY TmNats
  <2>2. RetainAnon - 1 \in Nat /\ RetainAnon = (RetainAnon - 1) + 1 BY <2>1
  <2> QED BY <2>2
<1>3. Cardinality(R) <= k + 1 BY <1>2
<1>4. Cardinality(Before(d, R, x)) \in Nat /\ Cardinality(Before(d, R, x)) <= k BY <1>1, <1>3, BeforeSmall
<1> QED BY <1>1, <1>2, <1>4

\* One post over the cap: what goes, goes after the new one.
LEMMA CapEvicts ==
    ASSUME NEW d, NEW R \in SUBSET Msgs, NEW m \in R, Cardinality(R) <= RetainAnon + 1, NEW x \in OverCap(d, R), x # m
    PROVE  m \notin OverCap(d, R) /\ Earlier(d, m, x)
<1>1. x \in R /\ Cardinality(Before(d, R, x)) >= RetainAnon BY OverCapIs
<1>2. RetainAnon \in Nat BY TmNats
<1>3. m \in Before(d, R, x)
  <2> SUFFICES ASSUME m \notin Before(d, R, x) PROVE FALSE OBVIOUS
  <2>1. Cardinality(Before(d, R, x)) \in Nat /\ Cardinality(Before(d, R, x)) < RetainAnon BY <1>1, <1>2, BeforeSmall
  <2> QED BY <1>1, <1>2, <2>1
<1>4. Earlier(d, m, x) BY <1>3 DEF Before
<1>5. x \notin Before(d, R, m)
  <2>1. m \in Msgs /\ x \in Msgs BY <1>1
  <2> QED BY <1>4, <2>1, EarlierOrder DEF Before
<1>6. Cardinality(Before(d, R, m)) \in Nat /\ Cardinality(Before(d, R, m)) < RetainAnon BY <1>1, <1>2, <1>5, BeforeSmall
<1>7. m \notin OverCap(d, R)
  <2> SUFFICES ASSUME m \in OverCap(d, R) PROVE FALSE OBVIOUS
  <2>1. Cardinality(Before(d, R, m)) >= RetainAnon BY OverCapIs
  <2> QED BY <1>2, <1>6, <2>1
<1> QED BY <1>4, <1>7

\* The conversation of a message follows from its own verdict and the registered keys.
LEMMA SameKey ==
    ASSUME NEW d, NEW e, NEW x, e.fastKeys = d.fastKeys, ~IsProof(x) \/ e.verdict[x] = d.verdict[x]
    PROVE  ConversationKey(e, x) = ConversationKey(d, x)
<1>1. FastRegistration(e, x) = FastRegistration(d, x) BY DEF FastRegistration
<1>2. IsProof(x) => (Verified(e, x) <=> Verified(d, x)) BY DEF Verified
<1>3. PICK F : F = FastRegistration(d, x) OBVIOUS
<1>4. CASE IsProof(x) BY <1>2, <1>4 DEF ConversationKey, IsProof, IsFastPost
<1>5. CASE ~IsProof(x)
  <2>1. Envelope[x].kind # "proof" BY <1>5 DEF IsProof
  <2>2. PICK K : K = Envelope[x].kind OBVIOUS
  <2> QED BY <1>1, <1>3, <2>1 DEF ConversationKey, IsFastPost
<1> QED BY <1>4, <1>5

\* A group that two posts share is that of one daily identity.
LEMMA SharedKey ==
    ASSUME NEW d, NEW x \in Msgs, NEW m \in Msgs, x # m, Anonymous(x), ConversationKey(d, x) = ConversationKey(d, m)
    PROVE  Anonymous(m) /\ \E n : ConversationKey(d, m) = <<"anonymous", n>>
<1>1. Anonymous(m)
  <2> SUFFICES ASSUME ~Anonymous(m) PROVE FALSE OBVIOUS
  <2> QED BY SameTalk
<1>2. \A y \in {x, m} : \/ \E n : ConversationKey(d, y) = <<"anonymous", n>>
                        \/ ConversationKey(d, y) = <<"unverified", y>> BY <1>1, KeyIs
<1>3. ~(ConversationKey(d, x) = <<"unverified", x>> /\ ConversationKey(d, m) = <<"unverified", m>>) OBVIOUS
<1> QED BY <1>1, <1>2, <1>3

\* x gave way to a newer post of its own identity, or to the new post m, verified before.
Grouped(g, m, x) == \E n : ConversationKey(g, m) = <<"anonymous", n>> /\ ConversationKey(g, x) = <<"anonymous", n>>
GaveWay(g, e, m, x) ==
    \/ Grouped(g, m, x) /\ \E z \in e.mail : Newer(z, x) /\ ConversationKey(g, z) = ConversationKey(g, x)
    \/ m \in e.mail /\ Newer(m, x) /\ Verified(g, m)

\* Keeping a new message drops a verified post only for a newer one of its identity, or
\* for the new one when it is verified.
LEMMA KeepsVerified ==
    ASSUME NEW g, Sane(g), Bounded(g.mail, g.polls), NEW m \in Msgs \ g.mail, NEW e, e = Kept(g, m),
           NEW x \in g.mail, x \notin e.mail, Anonymous(x), Verified(g, x)
    PROVE  /\ Anonymous(m) /\ Envelope[x].to = Envelope[m].to
           /\ IsPoll(g, Envelope[m].to) => Grouped(g, m, x)
           /\ ~IsPoll(g, Envelope[m].to) => GaveWay(g, e, m, x)
<1>1. PICK a, b : Keeping(g, m, a, b, e) BY KeepSteps
<1>2. Thinned(a, b, 0, {}) /\ Thinned(b, e, 0, {}) /\ Sane(a) /\ Sane(b) BY <1>1, KeptThins
<1>3. a.mail = g.mail \cup {m} /\ SameRest(g, a) BY <1>1, InsertIs DEF Keeping
<1>4. SameRest(g, b) /\ b.mail \subseteq a.mail BY <1>2, <1>3 DEF Thinned, SameRest
<1>5. g.mail \in SUBSET Msgs /\ a.mail \in SUBSET Msgs /\ b.mail \in SUBSET Msgs BY <1>2, DbFields DEF Sane
<1>6. \A y : ConversationKey(a, y) = ConversationKey(g, y) BY <1>3, SameKey DEF SameRest
<1>7. PICK w \in Boards : w = Envelope[m].to BY EnvelopeIs
<1>8. PICK K, q : K = ConversationKey(a, m) /\ q = Quota(K) OBVIOUS
<1>9. PICK R : R = Rows(a, w, K) OBVIOUS
<1>10. R \in SUBSET Msgs /\ q \in Nat \ {0} BY <1>5, <1>8, <1>9, TmNats DEF Rows, Quota
<1>11. b.mail = a.mail \ Excess(R, q)
  <2>1. b = Retained(a, m) BY <1>1 DEF Keeping
  <2> QED BY <2>1, <1>2, <1>7, <1>8, <1>9, RetainedIs
<1>12. PICK P : P = Posts(b.mail, w) OBVIOUS
<1>13. P \in SUBSET Msgs BY <1>5, <1>12 DEF Posts
<1>14. Anonymous(m) => e.mail = IF IsPoll(g, w) THEN b.mail ELSE b.mail \ OverCap(b, P)
  <2> SUFFICES ASSUME Anonymous(m) PROVE e.mail = IF IsPoll(g, w) THEN b.mail ELSE b.mail \ OverCap(b, P) OBVIOUS
  <2>1. e = EnforceAnonymousCap(b, w) BY <1>1, <1>7 DEF Keeping
  <2>2. IsPoll(b, w) <=> IsPoll(g, w) BY <1>4 DEF IsPoll, SameRest
  <2>3. /\ IsPoll(b, w) => e.mail = b.mail
        /\ ~IsPoll(b, w) => e.mail = b.mail \ OverCap(b, Posts(b.mail, w)) BY <2>1, <1>2, CappedIs
  <2> QED BY <2>2, <2>3, <1>12, Zenon
<1>15. ~IsPoll(g, w) => /\ IsFiniteSet(Posts(g.mail, w)) /\ Cardinality(Posts(g.mail, w)) \in Nat
                        /\ Cardinality(Posts(g.mail, w)) <= RetainAnon
  <2> SUFFICES ASSUME ~IsPoll(g, w) PROVE /\ IsFiniteSet(Posts(g.mail, w)) /\ Cardinality(Posts(g.mail, w)) \in Nat
                                          /\ Cardinality(Posts(g.mail, w)) <= RetainAnon OBVIOUS
  <2>1. Posts(g.mail, w) \in SUBSET Msgs BY <1>5 DEF Posts
  <2>2. Cardinality(Posts(g.mail, w)) <= RetainAnon BY <1>7 DEF Bounded, IsPoll
  <2> QED BY <2>1, <2>2, TmSets, FS_Subset, FS_CardinalityType
<1>16. x \in Msgs /\ x # m BY <1>5
<1>17. CASE x \notin b.mail
  <2>1. x \in Excess(R, q) BY <1>3, <1>11, <1>17
  <2>2. x \in R /\ Envelope[x].to = w /\ ConversationKey(a, x) = K BY <2>1, <1>9 DEF Excess, Rows
  <2>3. Anonymous(m) /\ \E n : ConversationKey(g, m) = <<"anonymous", n>>
    <3>1. ConversationKey(g, x) = ConversationKey(g, m) BY <2>2, <1>6, <1>8
    <3> QED BY <3>1, <1>16, SharedKey
  <2>4. Grouped(g, m, x) BY <2>2, <2>3, <1>6, <1>8 DEF Grouped
  <2>5. ~IsPoll(g, w) => GaveWay(g, e, m, x)
    <3> SUFFICES ASSUME ~IsPoll(g, w) PROVE GaveWay(g, e, m, x) OBVIOUS
    <3>1. PICK z \in R \ Excess(R, q) : Newer(z, x) BY <1>10, <2>1, FirstStays
    <3>2. z \in b.mail /\ ConversationKey(g, z) = ConversationKey(g, x) BY <1>6, <1>9, <1>11, <2>2 DEF Rows
    <3>3. Cardinality(P) <= RetainAnon
      <4>1. PICK G, H : G = Posts(g.mail, w) /\ H = G \ {x} OBVIOUS
      <4>2. x \in G BY <2>2, <4>1 DEF Posts
      <4>3. IsFiniteSet(G) /\ Cardinality(G) \in Nat /\ Cardinality(G) <= RetainAnon BY <1>15, <4>1
      <4>4. IsFiniteSet(H) /\ Cardinality(H) = Cardinality(G) - 1 BY <4>1, <4>2, <4>3, FS_RemoveElement
      <4>5. P \in SUBSET (H \cup {m}) BY <1>3, <1>4, <1>12, <1>17, <4>1 DEF Posts
      <4>6. IsFiniteSet(H \cup {m}) /\ Cardinality(H \cup {m}) <= Cardinality(G)
        <5>1. Cardinality(H) \in Nat BY <4>4, FS_CardinalityType
        <5>2. /\ IsFiniteSet(H \cup {m})
              /\ Cardinality(H \cup {m}) = IF m \in H THEN Cardinality(H) ELSE Cardinality(H) + 1 BY <4>4, FS_AddElement
        <5>3. PICK J : J = H \cup {m} OBVIOUS
        <5>4. Cardinality(J) <= Cardinality(G) BY <4>3, <4>4, <5>1, <5>2, <5>3
        <5> QED BY <5>2, <5>3, <5>4
      <4>7. Cardinality(P) <= Cardinality(H \cup {m}) BY <4>5, <4>6, FS_Subset
      <4>8. Cardinality(P) \in Nat /\ Cardinality(H \cup {m}) \in Nat /\ RetainAnon \in Nat BY <4>5, <4>6, FS_Subset, FS_CardinalityType, TmNats
      <4> QED BY <4>3, <4>6, <4>7, <4>8
    <3>4. OverCap(b, P) = {} BY <1>13, <3>3, CapIdle
    <3>5. z \in e.mail BY <1>14, <2>3, <3>2, <3>4
    <3> QED BY <2>4, <3>1, <3>2, <3>5 DEF GaveWay
  <2> QED BY <1>7, <2>2, <2>3, <2>4, <2>5
<1>18. CASE x \in b.mail
  <2>1. Anonymous(m)
    <3> SUFFICES ASSUME ~Anonymous(m) PROVE FALSE OBVIOUS
    <3>1. e = b BY <1>1 DEF Keeping
    <3> QED BY <3>1, <1>18
  <2>2. ~IsPoll(g, w) /\ x \in OverCap(b, P) BY <1>14, <1>18, <2>1
  <2>3. x \in P /\ Envelope[x].to = w BY <2>2, <1>12 DEF OverCap, Posts
  <2>4. m \in P
    <3> SUFFICES ASSUME m \notin P PROVE FALSE OBVIOUS
    <3>1. P \in SUBSET Posts(g.mail, w) BY <1>3, <1>4, <1>12 DEF Posts
    <3>2. Cardinality(P) <= RetainAnon
      <4>1. PICK G : G = Posts(g.mail, w) OBVIOUS
      <4>2. IsFiniteSet(G) /\ Cardinality(G) \in Nat /\ Cardinality(G) <= RetainAnon BY <1>15, <2>2, <4>1
      <4>3. Cardinality(P) <= Cardinality(G) /\ IsFiniteSet(P) BY <3>1, <4>1, <4>2, FS_Subset
      <4>4. Cardinality(P) \in Nat /\ RetainAnon \in Nat BY <4>3, FS_CardinalityType, TmNats
      <4> QED BY <4>2, <4>3, <4>4
    <3> QED BY <2>2, <3>2, <1>13, CapIdle
  <2>5. Cardinality(P) <= RetainAnon + 1
    <3>1. PICK G : G = Posts(g.mail, w) OBVIOUS
    <3>2. IsFiniteSet(G) /\ Cardinality(G) \in Nat /\ Cardinality(G) <= RetainAnon BY <1>15, <2>2, <3>1
    <3>3. P \in SUBSET (G \cup {m}) BY <1>3, <1>4, <1>12, <3>1 DEF Posts
    <3>4. IsFiniteSet(G \cup {m}) /\ Cardinality(G \cup {m}) <= Cardinality(G) + 1 BY <3>2, FS_AddElement
    <3>5. Cardinality(P) <= Cardinality(G \cup {m}) /\ IsFiniteSet(P) BY <3>3, <3>4, FS_Subset
    <3>6. Cardinality(P) \in Nat /\ Cardinality(G \cup {m}) \in Nat /\ RetainAnon \in Nat BY <3>4, <3>5, FS_CardinalityType, TmNats
    <3> QED BY <3>2, <3>4, <3>5, <3>6
  <2>6. m \notin OverCap(b, P) /\ Earlier(b, m, x) BY <1>13, <1>16, <2>2, <2>4, <2>5, CapEvicts
  <2>7. m \in e.mail BY <1>12, <1>14, <2>1, <2>2, <2>4, <2>6 DEF Posts
  <2>8. Newer(m, x) /\ Verified(g, m)
    <3>1. \A y : Verified(b, y) <=> Verified(g, y) BY <1>4 DEF SameRest, Verified
    <3> QED BY <2>6, <3>1 DEF Earlier
  <2> QED BY <1>7, <2>1, <2>2, <2>3, <2>7, <2>8 DEF GaveWay
<1> QED BY <1>17, <1>18

-----------------------------------------------------------------------------
\* A ballot that gave way to another of its nullifier, and a post that gave way.
Rivals(d, m, x, t) ==
    IsPoll(d, Envelope[x].to) /\ (IsProof(x) => BallotOk(d, m, t) /\ Envelope[m].null = Envelope[x].null /\ x # m)
Displaced(d, e, m, x) ==
    ~IsPoll(d, Envelope[m].to) /\ Envelope[x].to = Envelope[m].to /\ m \notin d.mail /\ GaveWay(d, e, m, x)

\* store_tmail removes a verified post only when it is expired, a rival ballot, or
\* displaced.
LEMMA StoreKeeps ==
    ASSUME NEW d, Good(d), NEW m \in Msgs, NEW t, NEW r, r = StoreTmail(d, m, t),
           NEW x \in d.mail, x \notin r.db.mail, Anonymous(x), Verified(d, x)
    PROVE  IsExpired(x, t) \/ (r.res = "stored" /\ (Rivals(d, m, x, t) \/ Displaced(d, r.db, m, x)))
<1>0. Sane(d) /\ Bounded(d.mail, d.polls) BY DEF Good
<1>1. Answered(d, r, m, t) BY <1>0, StoreSteps
<1>2. CASE r.res = "duplicate" /\ r.db = d BY <1>2
<1>3. CASE Swept(d, r.db, t) BY <1>3 DEF Swept
<1>4. CASE r.res = "stored" /\ \E c, g : Storing(d, c, g, r.db, m, t)
  <2>1. PICK e : e = r.db OBVIOUS
  <2>2. PICK c, g : Storing(d, c, g, e, m, t) BY <1>4, <2>1
  <2>3. Thinned(d, c, t, {}) /\ Swept(d, c, t) /\ c.index[m] = "none" /\ Passed(c, g, m, t) /\ e = Kept(g, m) /\ Sane(c) BY <2>2 DEF Storing, Thinned
  <2>4. Sane(g) /\ SameBox(c, g) /\ PassedAs(c, g, m, t) BY <2>3, PassIs
  <2>5. SameRest(d, c) /\ c.mail \subseteq d.mail /\ g.mail = c.mail /\ g.polls = d.polls /\ g.fastKeys = d.fastKeys BY <2>3, <2>4 DEF Thinned, SameRest, SameBox
  <2>6. CASE x \notin c.mail BY <2>3, <2>6 DEF Swept
  <2>7. CASE x \in c.mail
    <3>1. m \in Msgs \ g.mail /\ m \notin d.mail
      <4>1. m \notin c.mail BY <2>3 DEF Sane, IndexOk
      <4>2. d.index[m] = "none" BY <1>1, <1>4 DEF Answered
      <4>3. m \notin d.mail BY <1>0, <4>2 DEF Sane, IndexOk
      <4> QED BY <2>5, <4>1, <4>3
    <3>2. x \in Msgs /\ x # m /\ x \in g.mail BY <1>0, <2>5, <2>7, <3>1, DbFields DEF Sane
    <3>3. \A y \in Msgs : y # m => g.verdict[y] = d.verdict[y] BY <2>4, <2>5 DEF PassedAs, SameRest
    <3>4. Verified(g, x) BY <3>2, <3>3 DEF Verified
    <3>5. Bounded(g.mail, g.polls)
      <4>1. d.mail \in SUBSET Msgs /\ g.mail \in SUBSET d.mail BY <1>0, <2>5, DbFields DEF Sane
      <4> QED BY <1>0, <2>5, <4>1, BoundedLess
    <3>6. x \notin e.mail BY <2>1
    <3>7. /\ Anonymous(m) /\ Envelope[x].to = Envelope[m].to
          /\ IsPoll(g, Envelope[m].to) => Grouped(g, m, x)
          /\ ~IsPoll(g, Envelope[m].to) => GaveWay(g, e, m, x)
      BY <2>3, <2>4, <3>1, <3>2, <3>4, <3>5, <3>6, KeepsVerified
    <3>8. CASE IsPoll(d, Envelope[m].to)
      <4>1. IsPoll(g, Envelope[m].to) /\ IsPoll(c, Envelope[m].to) BY <2>5, <3>8 DEF IsPoll, SameRest
      <4>2. BallotOk(c, m, t) /\ g.verdict[m] = "verified" BY <2>4, <4>1 DEF PassedAs
      <4>3. BallotOk(d, m, t) BY <2>5, <4>2, BallotSame
      <4>4. ConversationKey(g, m) = <<"anonymous", Envelope[m].null>> BY <4>2 DEF BallotOk, ConversationKey, Verified, IsFastPost
      <4>5. IsProof(x) => ConversationKey(g, x) = <<"anonymous", Envelope[x].null>> BY <3>4 DEF IsProof, ConversationKey, IsFastPost
      <4>6. IsProof(x) => Envelope[m].null = Envelope[x].null BY <3>7, <4>1, <4>4, <4>5 DEF Grouped
      <4> QED BY <1>4, <3>2, <3>7, <3>8, <4>3, <4>6 DEF Rivals
    <3>9. CASE ~IsPoll(d, Envelope[m].to)
      <4>1. ~IsPoll(g, Envelope[m].to) /\ ~IsPoll(c, Envelope[m].to) BY <2>5, <3>9 DEF IsPoll, SameRest
      <4>2. g.verdict = d.verdict /\ g.fastKeys = d.fastKeys BY <2>4, <2>5, <4>1 DEF PassedAs, SameRest
      <4>3. \A y : ConversationKey(g, y) = ConversationKey(d, y) BY <4>2, SameKey
      <4>4. Verified(g, m) <=> Verified(d, m) BY <4>2 DEF Verified
      <4>5. GaveWay(g, e, m, x) BY <3>7, <4>1
      <4>6. GaveWay(d, e, m, x) BY <4>3, <4>4, <4>5 DEF GaveWay, Grouped
      <4> QED BY <1>4, <2>1, <3>1, <3>7, <3>9, <4>6 DEF Displaced
    <3> QED BY <3>8, <3>9
  <2> QED BY <2>6, <2>7
<1> QED BY <1>1, <1>2, <1>3, <1>4 DEF Answered

-----------------------------------------------------------------------------
(* Tmail: verified posts stay.                                               *)

\* Why a verified post may leave.
Excused(x) == IsExpired(x, clock) \/ x \in gone' \/ JudgedAgain(x)
Succeeded(x) ==
    \E z \in mdb'.mail : Newer(z, x) /\ (ConversationKey(mdb', z) = ConversationKey(mdb, x) \/ (z \notin mdb.mail /\ Verified(mdb, z)))
Leaves(x) ==
    Excused(x) \/ (IsPoll(mdb, Envelope[x].to) /\ ~IsProof(x)) \/ (~IsPoll(mdb, Envelope[x].to) /\ Succeeded(x))
BoardStep == \A x \in mdb.mail \ mdb'.mail : Anonymous(x) /\ Verified(mdb, x) => Leaves(x)

\* A step that moves no message leaves every post where it is.
LEMMA SameBoard == ASSUME mdb'.mail = mdb.mail PROVE BoardStep
BY DEF BoardStep

\* A displaced post has a newer one of its identity on the board, or gave way to a post
\* that was verified.
LEMMA DisplacedGives ==
    ASSUME MailInv, NEW m \in Msgs, NEW x, NEW e, Displaced(mdb, e, m, x), StoredAs(mdb, e, m, clock), mdb'.mail = e.mail,
           mdb'.fastKeys = e.fastKeys, \A z \in Msgs : z # m => mdb'.verdict[z] = e.verdict[z]
    PROVE  ~IsPoll(mdb, Envelope[x].to) /\ Succeeded(x)
<1>1. ~IsPoll(mdb, Envelope[m].to) /\ Envelope[x].to = Envelope[m].to /\ m \notin mdb.mail /\ GaveWay(mdb, e, m, x) BY DEF Displaced
<1>2. e.verdict = mdb.verdict /\ mdb'.fastKeys = mdb.fastKeys /\ e.mail \subseteq Msgs BY <1>1, DbFields DEF StoredAs, PassedAs, Sane
<1>3. CASE m \in e.mail /\ Newer(m, x) /\ Verified(mdb, m) BY <1>1, <1>3 DEF Succeeded
<1>4. CASE Grouped(mdb, m, x) /\ \E z \in e.mail : Newer(z, x) /\ ConversationKey(mdb, z) = ConversationKey(mdb, x)
  <2>1. PICK z \in e.mail : Newer(z, x) /\ ConversationKey(mdb, z) = ConversationKey(mdb, x) BY <1>4
  <2>2. CASE z # m \/ ~IsProof(m)
    <3>1. ConversationKey(mdb', z) = ConversationKey(mdb, z)
      <4>1. ~IsProof(z) \/ mdb'.verdict[z] = mdb.verdict[z] BY <1>2, <2>2
      <4>2. PICK f : f = mdb' OBVIOUS
      <4> QED BY <1>2, <4>1, <4>2, SameKey
    <3> QED BY <1>1, <2>1, <3>1 DEF Succeeded
  <2>3. CASE z = m /\ IsProof(m)
    <3>1. PICK n : ConversationKey(mdb, m) = <<"anonymous", n>> BY <1>4 DEF Grouped
    <3>2. Verified(mdb, m)
      <4> SUFFICES ASSUME ~Verified(mdb, m) PROVE FALSE OBVIOUS
      <4>1. ConversationKey(mdb, m) = <<"unverified", m>> BY <2>3 DEF ConversationKey, IsProof, IsFastPost
      <4> QED BY <3>1, <4>1
    <3> QED BY <1>1, <2>1, <2>3, <3>2 DEF Succeeded
  <2> QED BY <2>2, <2>3
<1> QED BY <1>1, <1>3, <1>4 DEF GaveWay

\* A verified ballot has no rival: it holds its nullifier, so the gate refuses every
\* other.
LEMMA NoRivals ==
    ASSUME NullifiersApart, UniqueInv, NEW m \in Msgs, NEW x \in Msgs, Rivals(mdb, m, x, clock), Verified(mdb, x)
    PROVE  ~IsProof(x)
<1> SUFFICES ASSUME IsProof(x) PROVE FALSE OBVIOUS
<1>1. BallotOk(mdb, m, clock) /\ Envelope[m].null = Envelope[x].null /\ x # m BY DEF Rivals
<1>2. IsProof(m) /\ Judge(mdb, m, clock) = "verified" BY <1>1 DEF BallotOk, IsProof
<1>3. Owner(mdb, m) \in {Unclaimed, m}
  <2>1. Envelope[m].ok \in BOOLEAN /\ (RootAccepted(mdb, m, clock) \in BOOLEAN) BY EnvelopeIs DEF RootAccepted
  <2> QED BY <1>2, <2>1 DEF Judge, Owner
<1>4. m \notin RestMsgs /\ x \notin RestMsgs BY <1>1, <1>2 DEF NullifiersApart
<1>5. Owner(mdb, x) = x BY <1>4 DEF UniqueInv, AllHeld
<1>6. x # Unclaimed BY TmSets DEF Unclaimed
<1> QED BY <1>1, <1>3, <1>5, <1>6 DEF Owner

\* Storing a message keeps verified posts where they are.
LEMMA StoreBoard ==
    ASSUME NullifiersApart, MailInv, UniqueInv, NEW m \in Msgs, NEW r, r = StoreTmail(mdb, m, clock), mdb'.mail = r.db.mail,
           r.res = "stored" => mdb'.fastKeys = r.db.fastKeys /\ \A z \in Msgs : z # m => mdb'.verdict[z] = r.db.verdict[z]
    PROVE  BoardStep
<1> SUFFICES ASSUME NEW x \in mdb.mail \ mdb'.mail, Anonymous(x), Verified(mdb, x) PROVE Leaves(x) BY DEF BoardStep
<1>1. Good(mdb) /\ x \in Msgs /\ x \notin r.db.mail BY DbFields DEF MailInv, Good, Sane
<1>2. IsExpired(x, clock) \/ (r.res = "stored" /\ (Rivals(mdb, m, x, clock) \/ Displaced(mdb, r.db, m, x))) BY <1>1, StoreKeeps
<1>3. CASE IsExpired(x, clock) BY <1>3 DEF Leaves, Excused
<1>4. CASE Rivals(mdb, m, x, clock) BY <1>1, <1>4, NoRivals DEF Leaves, Rivals
<1>5. CASE r.res = "stored" /\ Displaced(mdb, r.db, m, x)
  <2>1. PICK e : e = r.db OBVIOUS
  <2>2. AnsweredWell(mdb, r, m, clock) BY <1>1, StoreGood
  <2>3. StoredAs(mdb, e, m, clock) BY <1>5, <2>1, <2>2 DEF AnsweredWell, StoredWell
  <2>4. ~IsPoll(mdb, Envelope[x].to) /\ Succeeded(x) BY <1>5, <2>1, <2>3, DisplacedGives
  <2> QED BY <2>4 DEF Leaves
<1> QED BY <1>2, <1>3, <1>4, <1>5

\* A verdict removes no verified post but its own, on a refusal.
LEMMA VerdictBoard ==
    ASSUME MailInv, NEW m \in Msgs, NEW v, VerdictSet(mdb, mdb', m, v), v = "failed" => {m} \cap mdb.mail \subseteq gone',
           v = "unknown" => JudgedAgain(m)
    PROVE  BoardStep
<1> SUFFICES ASSUME NEW x \in mdb.mail \ mdb'.mail, Anonymous(x), Verified(mdb, x) PROVE Leaves(x) BY DEF BoardStep
<1>1. Sane(mdb') /\ Judged(mdb, mdb', m, v, x) /\ Sane(mdb) /\ Holding(mdb, {}) /\ x \in Msgs BY DbFields DEF VerdictSet, MailInv, Good, Sane
<1>2. mdb.index[x] = "live" /\ mdb'.index[x] # "live" BY <1>1 DEF Sane, IndexOk
<1>3. \A h \in mdb.held : h.m # x BY <1>1 DEF Holding
<1>4. x = m /\ v \in {"failed", "unknown"} BY <1>1, <1>2, <1>3 DEF Judged
<1> QED BY <1>4 DEF Leaves, Excused

\* A fast post under a registered key keeps verified posts where they are.
LEMMA FastBoard ==
    ASSUME NullifiersApart, MailInv, UniqueInv, NEW m \in Msgs, NEW take, StoreFast(m, take) PROVE BoardStep
<1>1. PICK r : r = StoreTmail(mdb, m, clock) OBVIOUS
<1>2. mdb' = CASE ~take.ok -> mdb [] take.ok /\ r.res = "stored" -> [r.db EXCEPT !.verdict[m] = "verified"] [] OTHER -> r.db
  BY <1>1 DEF StoreFast
<1>3. AnsweredWell(mdb, r, m, clock) BY <1>1, StoreGood DEF MailInv
<1>4. \/ mdb' = mdb
      \/ mdb' = r.db
      \/ r.res = "stored" /\ mdb' = WithVerdict(r.db, m, "verified")
  <2>1. \/ mdb' = mdb
        \/ mdb' = r.db
        \/ r.res = "stored" /\ mdb' = [r.db EXCEPT !.verdict[m] = "verified"]
    BY <1>2, Zenon
  <2> QED BY <2>1, Zenon DEF WithVerdict
<1>5. CASE mdb' = mdb BY <1>5, SameBoard
<1>6. CASE mdb' = r.db BY <1>1, <1>6, StoreBoard
<1>7. CASE r.res = "stored" /\ mdb' = WithVerdict(r.db, m, "verified")
  <2>0. PICK v \in VerdictTags : v = "verified" BY DEF VerdictTags
  <2>1. PICK e : e = r.db OBVIOUS
  <2>2. Sane(e) /\ mdb' = WithVerdict(e, m, v) BY <1>3, <1>7, <2>0, <2>1 DEF AnsweredWell, StoredWell, StoredAs
  <2>3. PICK f : f = WithVerdict(e, m, v) OBVIOUS
  <2>4. /\ Refit(e, f, f.verdict, e.fastKeys, e.held, e.regPending)
        /\ \A x \in Msgs : f.verdict[x] = IF x = m THEN v ELSE e.verdict[x] BY <2>2, <2>3, VerdictOnly
  <2>5. f.mail = e.mail /\ f.fastKeys = e.fastKeys BY <2>4 DEF Refit
  <2> QED BY <1>1, <2>1, <2>2, <2>3, <2>4, <2>5, StoreBoard
<1> QED BY <1>4, <1>5, <1>6, <1>7

\* A fast post held back keeps verified posts where they are.
LEMMA HoldBoard == ASSUME MailInv, NEW m \in active, HoldFast(m) PROVE BoardStep
<1> SUFFICES ASSUME NEW x \in mdb.mail \ mdb'.mail, Anonymous(x), Verified(mdb, x) PROVE Leaves(x) BY DEF BoardStep
<1>1. PICK d : d = PruneFast(mdb, clock) OBVIOUS
<1>2. mdb' = d \/ mdb' = HoldPending(d, m) BY <1>1 DEF HoldFast
<1>3. m \in Msgs /\ IsFastPost(m) /\ FastRegistration(mdb, m) = {} /\ mdb.index[m] = "none" BY ActiveMsgs DEF HoldFast, FastChecks
<1>4. FastPruned(mdb, d) BY <1>1, PruneFastIs DEF MailInv, Good
<1>5. Good(d)
  <2>1. GoodStep(mdb, d, clock) BY <1>4, FastPrunedGood DEF MailInv
  <2> QED BY <2>1, GoodAfter
<1>6. x \in Msgs /\ x \in d.mail /\ Verified(d, x)
  <2>1. Sane(d) /\ Left(mdb, d, x) /\ Sane(mdb) /\ Holding(mdb, {}) /\ x \in Msgs BY <1>4, DbFields DEF FastPruned, MailInv, Good, Sane
  <2>2. \A h \in mdb.held : h.m # x BY <2>1 DEF Holding
  <2>3. d.index[x] = "live" BY <2>1, <2>2 DEF Left, Sane, IndexOk
  <2>4. Verified(d, x) BY <1>4 DEF FastPruned, Verified
  <2> QED BY <2>1, <2>3, <2>4 DEF Sane, IndexOk
<1>7. mdb' = HoldPending(d, m) BY <1>2, <1>6
<1>8. PICK r : r = StoreTmail(d, m, clock) OBVIOUS
<1>9. mdb'.mail = r.db.mail
  <2>1. AnsweredWell(d, r, m, clock) BY <1>3, <1>5, <1>8, StoreGood
  <2>2. mdb' = IF r.res = "stored" THEN Waits(r.db, m, clock) ELSE r.db BY <1>7, <1>8 DEF HoldPending, Waits
  <2>3. CASE r.res # "stored" BY <2>2, <2>3
  <2>4. CASE r.res = "stored"
    <3>1. PICK e, f : e = r.db /\ f = Waits(e, m, clock) OBVIOUS
    <3>2. Sane(e) BY <2>1, <2>4, <3>1 DEF AnsweredWell, StoredWell, StoredAs
    <3>3. Waited(e, f, m, clock) BY <1>3, <3>1, <3>2, ClockNat, WaitsIs
    <3> QED BY <2>2, <2>4, <3>1, <3>3 DEF Waited, Refit
  <2> QED BY <2>3, <2>4
<1>10. IsExpired(x, clock) \/ Rivals(d, m, x, clock) \/ Displaced(d, r.db, m, x) BY <1>3, <1>5, <1>6, <1>8, <1>9, StoreKeeps
<1>11. CASE IsExpired(x, clock) BY <1>11 DEF Leaves, Excused
<1>12. CASE Rivals(d, m, x, clock)
  <2>1. ~IsProof(m) BY <1>3, KindIs
  <2>2. ~IsProof(x) BY <1>12, <2>1 DEF Rivals, BallotOk, IsProof
  <2>3. IsPoll(mdb, Envelope[x].to) BY <1>4, <1>12 DEF Rivals, IsPoll, FastPruned
  <2> QED BY <2>2, <2>3 DEF Leaves
<1>13. CASE Displaced(d, r.db, m, x)
  <2>1. ~IsPoll(mdb, Envelope[x].to) BY <1>4, <1>13 DEF Displaced, IsPoll, FastPruned
  <2>2. FastRegistration(d, m) = {} BY <1>3, <1>4 DEF FastRegistration, FastPruned
  <2>3. ConversationKey(d, m) = <<"unverified", m>> BY <1>3, <2>2 DEF ConversationKey, IsFastPost
  <2>4. ~Grouped(d, m, x) BY <2>3 DEF Grouped
  <2>5. m \in r.db.mail /\ Newer(m, x) /\ Verified(d, m) BY <1>13, <2>4 DEF Displaced, GaveWay
  <2>6. Verified(mdb, m) BY <1>4, <2>5 DEF FastPruned, Verified
  <2>7. m \notin mdb.mail BY <1>3 DEF MailInv, Good, Sane, IndexOk
  <2> QED BY <1>9, <2>1, <2>5, <2>6, <2>7 DEF Leaves, Succeeded
<1> QED BY <1>10, <1>11, <1>12, <1>13

\* Named messages, fast posts and checks keep verified posts where they are.
LEMMA ClientBoard ==
    ASSUME NullifiersApart, AllMailInv, NEW m \in active,
           SendJudge(m) \/ StoreNamed(m) \/ SendFast(m) \/ ReceiveFast(m) \/ HoldFast(m)
    PROVE  BoardStep
<1>0. MailInv /\ UniqueInv BY DEF AllMailInv
<1>1. m \in Msgs BY <1>0, ActiveMsgs
<1>2. CASE SendJudge(m)
  <2>1. mdb'.mail = mdb.mail BY <1>2 DEF SendJudge
  <2> QED BY <2>1, SameBoard
<1>3. CASE StoreNamed(m)
  <2>1. PICK r : r = StoreTmail(mdb, m, clock) OBVIOUS
  <2>2. mdb' = r.db BY <1>3, <2>1 DEF StoreNamed
  <2> QED BY <1>0, <1>1, <2>1, <2>2, StoreBoard
<1>4. CASE SendFast(m)
  <2>1. PICK take : StoreFast(m, take) BY <1>4 DEF SendFast
  <2> QED BY <1>0, <1>1, <2>1, FastBoard
<1>5. CASE ReceiveFast(m)
  <2>1. PICK take : StoreFast(m, take) BY <1>5 DEF ReceiveFast
  <2> QED BY <1>0, <1>1, <2>1, FastBoard
<1>6. CASE HoldFast(m) BY <1>0, <1>6, HoldBoard
<1> QED BY <1>2, <1>3, <1>4, <1>5, <1>6

\* Storing the client's post keeps verified posts where they are.
LEMMA SendStoreBoard == ASSUME NullifiersApart, AllMailInv, SendStore PROVE BoardStep
<1>0. MailInv /\ UniqueInv BY DEF AllMailInv
<1>1. PICK m \in Msgs : m = sender.m /\ IsProof(m) BY <1>0, ProofMail DEF SendStore
<1>2. PICK r : /\ r = StoreTmail(mdb, m, clock)
               /\ IF r.res \in {"stored", "duplicate"} THEN mdb' = r.db
                  ELSE mdb' = IF Live(r.db, m) THEN r.db ELSE ReleaseNullifier(r.db, m)
  BY <1>1 DEF SendStore
<1>3. CASE mdb' = r.db BY <1>0, <1>2, <1>3, StoreBoard
<1>4. CASE r.res # "stored" /\ r.res # "duplicate" /\ mdb' = ReleaseNullifier(r.db, m)
  <2>1. PICK e : e = r.db OBVIOUS
  <2>2. AnsweredWell(mdb, r, m, clock) BY <1>0, <1>2, StoreGood DEF MailInv
  <2>3. Sane(e) BY <1>4, <2>1, <2>2 DEF AnsweredWell, Thinned
  <2>4. SameBox(e, mdb') BY <1>4, <2>1, <2>3, ReleaseIs
  <2>5. mdb'.mail = r.db.mail BY <2>1, <2>4 DEF SameBox
  <2> QED BY <1>0, <1>2, <1>4, <2>5, StoreBoard
<1> QED BY <1>2, <1>3, <1>4

\* A post from gossip keeps verified posts where they are.
LEMMA GossipBoard == ASSUME NullifiersApart, AllMailInv, NEW m \in active, GossipPost(m) PROVE BoardStep
<1>0. MailInv /\ UniqueInv BY DEF AllMailInv
<1>1. m \in Msgs /\ IsProof(m) BY <1>0, ActiveMsgs DEF GossipPost, IsProof
<1>2. PICK r : /\ r = StoreTmail(mdb, m, clock)
               /\ mdb' = r.db \/ (r.res = "stored" /\ mdb' = SetAnonVerdict(r.db, m, "pending", clock))
  BY DEF GossipPost
<1>3. CASE mdb' = r.db BY <1>0, <1>1, <1>2, <1>3, StoreBoard
<1>4. CASE r.res = "stored" /\ mdb' = SetAnonVerdict(r.db, m, "pending", clock)
  <2>1. PICK e : e = r.db OBVIOUS
  <2>2. AnsweredWell(mdb, r, m, clock) BY <1>0, <1>1, <1>2, StoreGood DEF MailInv
  <2>3. StoredWell(mdb, e, m, clock) BY <1>4, <2>1, <2>2 DEF AnsweredWell
  <2>4. Good(e)
    <3>1. ~IsFastPost(m) BY <1>1, KindIs
    <3>2. GoodStep(mdb, e, clock) BY <2>3, <3>1, StoredGood
    <3> QED BY <3>2, GoodAfter
  <2>5. mdb' = SetAnonVerdict(e, m, "pending", clock) BY <1>4, <2>1
  <2>6. PendingAfter(e, m) BY <1>1, <2>4, <2>5, PendingIs
  <2> QED BY <1>0, <1>1, <1>2, <2>1, <2>6, StoreBoard DEF PendingAfter
<1> QED BY <1>2, <1>3, <1>4

\* A burn removes the burned message only.
LEMMA BurnBoard == ASSUME AllMailInv, NEW m \in active, BurnRevoke(m) PROVE BoardStep
<1>0. MailInv /\ Sane(mdb) BY DEF AllMailInv, MailInv, Good
<1>1. PICK S : S = {m} OBVIOUS
<1>2. PICK e : e = DeleteByMsgId(mdb, S) OBVIOUS
<1>3. /\ Thinned(mdb, e, clock, {})
      /\ \A x \in Msgs : e.index[x] = IF x \in S /\ x \in mdb.mail THEN "burned" ELSE mdb.index[x]
  BY <1>0, <1>2, DeleteThins
<1>4. mdb' = e /\ m \in gone' BY <1>1, <1>2 DEF BurnRevoke
<1> SUFFICES ASSUME NEW x \in mdb.mail \ mdb'.mail PROVE Leaves(x) BY DEF BoardStep
<1>5. x \in Msgs /\ mdb.index[x] = "live" BY <1>0, DbFields DEF Sane, IndexOk
<1>6. e.index[x] # "live" BY <1>3, <1>4, <1>5 DEF Thinned, Sane, IndexOk
<1>7. x = m BY <1>1, <1>3, <1>5, <1>6
<1> QED BY <1>4, <1>7 DEF Leaves, Excused

\* The reaper removes expired messages only.
LEMMA ReapBoard == ASSUME AllMailInv, Reap PROVE BoardStep
<1>0. Sane(mdb) BY DEF AllMailInv, MailInv, Good
<1>1. PICK e : e = PruneExpired(mdb, clock) OBVIOUS
<1>2. Swept(mdb, e, clock) BY <1>0, <1>1, PruneSweeps
<1>3. mdb' = e BY <1>1 DEF Reap
<1> QED BY <1>2, <1>3 DEF BoardStep, Swept, Leaves, Excused

\* A claim removes nothing.
LEMMA ClaimBoard == ASSUME AllMailInv, SendClaim \/ LoopClaim PROVE BoardStep
<1>0. MailInv /\ Sane(mdb) BY DEF AllMailInv, MailInv, Good
<1>1. PICK m \in Msgs : mdb' = ClaimNullifier(mdb, m) BY <1>0, ProofMail DEF SendClaim, LoopClaim
<1>2. SameBox(mdb, mdb') BY <1>0, <1>1, ClaimIs
<1> QED BY <1>2, SameBoard DEF SameBox

\* A good verdict removes no verified post.
LEMMA VerifiedBoard == ASSUME AllMailInv, SendVerdict \/ LoopVerdict PROVE BoardStep
<1>0. MailInv BY DEF AllMailInv
<1>1. PICK v \in Verdicts : v = "verified" BY DEF Verdicts
<1>2. PICK m \in Msgs : IsProof(m) /\ mdb' = SetAnonVerdict(mdb, m, v, clock) BY <1>0, <1>1, ProofMail DEF SendVerdict, LoopVerdict
<1>3. VerdictSet(mdb, mdb', m, v) BY <1>0, <1>2, VerdictKind
<1> QED BY <1>0, <1>1, <1>3, VerdictBoard

\* The loop's check removes at most the post it refuses.
LEMMA JudgeBoard == ASSUME AllMailInv, LoopJudge PROVE BoardStep
<1>0. MailInv BY DEF AllMailInv
<1>m. PICK m \in swarm.todo : \E v, left : LoopJudges(m, v, left) BY JudgesOne
<1>1. PICK v :
        /\ v = Judge(mdb, m, clock)
        /\ \/ v = "verified" /\ mdb' = mdb
           \/ /\ v # "verified" /\ mdb' = SetAnonVerdict(mdb, m, v, clock)
              /\ gone' = IF v = "failed" THEN gone \cup ({m} \cap mdb.mail) ELSE gone
  BY <1>m DEF LoopJudges
<1>2. m \in Msgs /\ IsProof(m) BY <1>0, ProofMail
<1>3. CASE mdb' = mdb BY <1>3, SameBoard
<1>4. CASE /\ v # "verified" /\ mdb' = SetAnonVerdict(mdb, m, v, clock)
           /\ gone' = IF v = "failed" THEN gone \cup ({m} \cap mdb.mail) ELSE gone
  <2>1. v \in Verdicts BY <1>1, <1>4, JudgeTags DEF Verdicts
  <2>2. VerdictSet(mdb, mdb', m, v) BY <1>0, <1>2, <1>4, <2>1, VerdictKind
  <2>3. v = "failed" => {m} \cap mdb.mail \subseteq gone' BY <1>4
  <2>4. v = "unknown" => JudgedAgain(m)
    <3>1. RootAccepted(mdb, m, clock) \in BOOLEAN BY DEF RootAccepted
    <3>2. v = "unknown" => ~RootAccepted(mdb, m, clock) BY <1>1, <3>1 DEF Judge
    <3> QED BY <3>2 DEF JudgedAgain
  <2> QED BY <1>0, <1>2, <2>2, <2>3, <2>4, VerdictBoard
<1> QED BY <1>1, <1>3, <1>4

\* Receipts, polls, roots, the clock and a restart remove nothing.
LEMMA OtherBoard ==
    ASSUME AllMailInv,
           \/ \E c \in ReceiptIds : DepositReceipt(c) \/ ReceiptArrives(c)
           \/ \E w \in Boards : RegisterPoll(w)
           \/ \E r \in NewRoots : LearnRoot(r)
           \/ TmailTick \/ TmailRestart \/ UNCHANGED tmailVars
    PROVE  BoardStep
<1>0. Sane(mdb) BY DEF AllMailInv, MailInv, Good
<1>1. CASE \E c \in ReceiptIds : DepositReceipt(c) \/ ReceiptArrives(c)
  <2>1. PICK c \in ReceiptIds : DepositReceipt(c) \/ ReceiptArrives(c) BY <1>1
  <2>2. PICK e : e = [mdb EXCEPT !.receipts = PutReceipt(@, c)] OBVIOUS
  <2>3. mdb' = e BY <2>1, <2>2 DEF DepositReceipt, ReceiptArrives
  <2>4. Deposited(mdb, e) BY <1>0, <2>2, DepositIs
  <2> QED BY <2>3, <2>4, SameBoard DEF Deposited
<1>2. CASE \E w \in Boards : RegisterPoll(w)
  <2>1. PICK w \in DOMAIN PollRoot : RegisterPoll(w) BY <1>2 DEF RegisterPoll
  <2>2. PICK e : e = [mdb EXCEPT !.polls = @ \cup {w}] OBVIOUS
  <2>3. mdb' = e BY <2>1, <2>2 DEF RegisterPoll
  <2>4. e.mail = mdb.mail BY <1>0, <2>2, PollIs
  <2> QED BY <2>3, <2>4, SameBoard
<1>3. CASE (\E r \in NewRoots : LearnRoot(r)) \/ TmailTick \/ TmailRestart \/ UNCHANGED tmailVars
  <2>1. mdb' = mdb BY <1>3 DEF LearnRoot, TmailTick, TmailRestart, tmailVars
  <2> QED BY <2>1, SameBoard
<1> QED BY <1>1, <1>2, <1>3

\* No step removes a verified post without one of the reasons.
LEMMA BoardKept == ASSUME NullifiersApart, AllMailInv, [TmailNext]_tmailVars PROVE BoardStep
<1>1. CASE \E m \in active : \/ SendJudge(m) \/ StoreNamed(m) \/ GossipPost(m)
                             \/ SendFast(m) \/ ReceiveFast(m) \/ HoldFast(m) \/ BurnRevoke(m)
  BY <1>1, ClientBoard, GossipBoard, BurnBoard
<1>2. CASE SendClaim \/ SendStore \/ SendVerdict BY <1>2, ClaimBoard, SendStoreBoard, VerifiedBoard
<1>3. CASE \/ \E c \in ReceiptIds : DepositReceipt(c) \/ ReceiptArrives(c)
           \/ \E w \in Boards : RegisterPoll(w)
           \/ \E r \in NewRoots : LearnRoot(r)
           \/ TmailTick \/ TmailRestart \/ UNCHANGED tmailVars
  BY <1>3, OtherBoard
<1>4. CASE LoopJudge \/ LoopClaim \/ LoopVerdict BY <1>4, JudgeBoard, ClaimBoard, VerifiedBoard
<1>5. CASE Reap BY <1>5, ReapBoard
<1> QED BY <1>1, <1>2, <1>3, <1>4, <1>5 DEF TmailNext, TmailStep

\* What the two halves of BoardKeeps say of one step.
BallotsStay ==
    \A m \in mdb.mail \ mdb'.mail :
        Envelope[m].kind = "proof" /\ IsPoll(mdb, Envelope[m].to) /\ Verified(mdb, m) =>
            IsExpired(m, clock) \/ m \in gone' \/ JudgedAgain(m)
PostsStay ==
    \A m \in mdb.mail \ mdb'.mail :
        Anonymous(m) /\ ~IsPoll(mdb, Envelope[m].to) /\ Verified(mdb, m) =>
            \/ IsExpired(m, clock) \/ m \in gone' \/ JudgedAgain(m)
            \/ \E x \in mdb'.mail : /\ Newer(x, m)
                                    /\ \/ ConversationKey(mdb', x) = ConversationKey(mdb, m)
                                       \/ x \notin mdb.mail /\ Verified(mdb, x)

\* Those reasons are the ones of the two action properties.
LEMMA BoardGives == ASSUME AllMailInv, BoardStep PROVE BallotsStay /\ PostsStay
<1>1. BallotsStay
  <2> SUFFICES ASSUME NEW m \in mdb.mail \ mdb'.mail, IsProof(m), IsPoll(mdb, Envelope[m].to), Verified(mdb, m)
               PROVE  Excused(m)
    BY DEF BallotsStay, IsProof, Excused
  <2>1. Anonymous(m) BY DEF Anonymous, IsProof
  <2>2. Leaves(m) BY <2>1 DEF BoardStep
  <2> QED BY <2>2 DEF Leaves
<1>2. PostsStay
  <2> SUFFICES ASSUME NEW m \in mdb.mail \ mdb'.mail, Anonymous(m), ~IsPoll(mdb, Envelope[m].to), Verified(mdb, m)
               PROVE  Excused(m) \/ Succeeded(m)
    BY DEF PostsStay, Excused, Succeeded
  <2> QED BY DEF BoardStep, Leaves
<1> QED BY <1>1, <1>2

\* Verified posts and ballots stay where they are: a verified ballot leaves its poll only
\* by expiry, a burn or the loop's own check after the day, and a verified post leaves a
\* board only so or for a newer post of its identity or one verified before
\* (enforce_anonymous_cap, anon_keep_for), in every behaviour of the store, when no
\* client of this node shares a nullifier with another post.
THEOREM BoardIsKept == ASSUME NullifiersApart PROVE TmailSpec => BoardKeeps
<1>1. TmailSpec => []AllMailInv BY AllMailKept
<1>2. AllMailInv /\ [TmailNext]_tmailVars => [BallotsStay]_tmailVars /\ [PostsStay]_tmailVars BY BoardKept, BoardGives
<1>3. TmailSpec => [][BallotsStay]_tmailVars BY <1>1, <1>2, PTL DEF TmailSpec
<1>4. TmailSpec => [][PostsStay]_tmailVars BY <1>1, <1>2, PTL DEF TmailSpec
<1>5. TmailSpec => PollKeepsBallots BY <1>3 DEF PollKeepsBallots, BallotsStay
<1>6. TmailSpec => UnverifiedNeverEvicts BY <1>4 DEF UnverifiedNeverEvicts, PostsStay
<1> QED BY <1>5, <1>6, PTL DEF BoardKeeps
================================================================================
