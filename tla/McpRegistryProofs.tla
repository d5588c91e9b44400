------------------------- MODULE McpRegistryProofs -------------------------
(* Proofs about McpRegistry, for every set of servers, names and values.    *)
EXTENDS McpRegistry, TLAPS

\* A load yields a document or an error, never a file's damaged content.
LEMMA LoadType ==
    ASSUME NEW a \in Contents, NEW b \in Contents
    PROVE  LoadFromDisk(a, b) \in RegistryDocument \union {LoadError}
<1>1. EmptyDocument \in RegistryDocument
  BY DEF EmptyDocument, RegistryDocument
<1>2. QED
  BY <1>1, SentinelAssumption DEF LoadFromDisk, Contents, IsDocument

\* Storing or removing a record and counting the revision up gives a document.
LEMMA EditType ==
    ASSUME NEW d \in RegistryDocument, NEW id \in Servers, NEW r \in ManagedServer \union {None}
    PROVE  /\ Edited(d, id, r) \in RegistryDocument
           /\ Edited(d, id, r).revision = d.revision + 1
           /\ Edited(d, id, r).servers = [d.servers EXCEPT ![id] = r]
  BY DEF Edited, RegistryDocument

\* Merging a form into a stored record gives a record.
LEMMA MergedType ==
    ASSUME NEW r \in ManagedServer, NEW form \in Forms
    PROVE  Merged(r, form) \in ManagedServer
  BY SentinelAssumption DEF Merged, Given, ManagedServer, Forms

\* An operation commits a record of the right type.
LEMMA OperationCommits ==
    ASSUME TypeOK, Operation
    PROVE  \E id \in Servers, r \in ManagedServer \union {None} :
              /\ Editable /\ Commit(id, r)
              /\ r # None => ValidEnvironment(r)
<1>1. PICK id \in Servers :
          \/ \E record \in ManagedServer : Create(id, record)
          \/ \E form \in Forms : Update(id, form)
          \/ Delete(id)
  BY DEF Operation
<1>2. ASSUME NEW record \in ManagedServer, Create(id, record)
      PROVE  Editable /\ Commit(id, record) /\ ValidEnvironment(record)
  BY <1>2 DEF Create
<1>3. ASSUME NEW form \in Forms, Update(id, form)
      PROVE  /\ Merged(document.servers[id], form) \in ManagedServer
             /\ Editable /\ Commit(id, Merged(document.servers[id], form))
             /\ ValidEnvironment(Merged(document.servers[id], form))
  <2>1. Editable /\ document.servers[id] # None
    BY <1>3 DEF Update
  <2>2. document \in RegistryDocument
    BY <2>1 DEF Editable, TypeOK
  <2>3. document.servers[id] \in ManagedServer
    BY <2>1, <2>2 DEF RegistryDocument
  <2>4. QED
    BY <1>3, <2>3, MergedType DEF Update
<1>4. ASSUME Delete(id)
      PROVE  Editable /\ Commit(id, None)
  BY <1>4 DEF Delete
<1>5. QED
  BY <1>1, <1>2, <1>3, <1>4

----------------------------------------------------------------------------
(* Type correctness.                                                       *)

LEMMA TypeStep ==
    ASSUME TypeOK, [Next]_vars
    PROVE  TypeOK'
<1> USE SentinelAssumption, MaxDamageAssumption
<1>1. CASE Load
  BY <1>1, LoadType DEF Load, files, TypeOK
<1>2. CASE Operation
  <2>1. PICK id \in Servers, r \in ManagedServer \union {None} : Editable /\ Commit(id, r)
    BY <1>2, OperationCommits
  <2>2. document' \in RegistryDocument
    BY <2>1, EditType DEF Editable, Commit, TypeOK
  <2>3. QED
    BY <2>1, <2>2 DEF Commit, files, TypeOK
<1>3. CASE WriteStep
  <2>1. CASE WriteTemp \/ SyncTemp
    BY <2>1 DEF WriteTemp, SyncTemp, files, TypeOK, Contents
  <2>2. CASE CopyBegins \/ CopyEnds
    BY <2>2 DEF CopyBegins, CopyEnds, TypeOK, Contents
  <2>3. CASE Replace \/ SyncDirectory
    BY <2>3 DEF Replace, SyncDirectory, TypeOK, Contents
  <2>4. QED
    BY <1>3, <2>1, <2>2, <2>3 DEF WriteStep
<1>4. CASE WriteFails
  BY <1>4 DEF WriteFails, files, TypeOK, Contents
<1>5. CASE Crash
  BY <1>5 DEF Crash, files, TypeOK, Contents
<1>6. CASE PowerLoss
  BY <1>6 DEF PowerLoss, TypeOK, Contents
<1>7. CASE FlushBackup
  BY <1>7 DEF FlushBackup, TypeOK
<1>8. CASE Damage
  <2>1. path' \in Contents
    BY <1>8 DEF Damage, IsDocument, TypeOK, Contents, RegistryDocument
  <2>2. QED
    BY <1>8, <2>1 DEF Damage, TypeOK
<1>9. CASE UNCHANGED vars
  BY <1>9 DEF vars, TypeOK
<1>10. QED
  BY <1>1, <1>2, <1>3, <1>4, <1>5, <1>6, <1>7, <1>8, <1>9 DEF Next

\* The registry's state always has its type, and a write in progress always
\* has a document to write.
THEOREM TypeCorrect == Spec => []TypeOK
<1>1. Init => TypeOK
  BY SentinelAssumption, MaxDamageAssumption
     DEF Init, TypeOK, Contents, EmptyDocument, RegistryDocument
<1>2. QED
  BY <1>1, TypeStep, PTL DEF Spec

----------------------------------------------------------------------------
(* Durability, until something but the runtime writes the active file.     *)

\* What one content of the active file guarantees about the last acknowledged
\* operation.
Covers(content) ==
    \/ content = Absent /\ acked = EmptyDocument
    \/ /\ content \in RegistryDocument
       /\ content.revision >= acked.revision
       /\ content.revision = acked.revision => content = acked

\* The inductive invariant: every content the active file may come back with
\* covers the acknowledged document, and a document that is being written is
\* newer than it, durable in the temporary file once that file is synced.
Durable ==
    /\ path \in pathLoss
    /\ \A c \in pathLoss : Covers(c)
    /\ document # None => document.revision >= acked.revision
    /\ pc # "idle" => document.revision > acked.revision
    /\ pc \in {"synced", "copying", "copied", "replaced"} => tempLoss = {document}
    /\ pc = "replaced" => path = document

\* What the next start finds covers the acknowledged document.
LEMMA LoadCovers ==
    ASSUME NEW c, NEW b, TypeOK, Covers(c)
    PROVE  /\ LoadFromDisk(c, b) \in RegistryDocument
           /\ LoadFromDisk(c, b).revision >= acked.revision
           /\ LoadFromDisk(c, b).revision = acked.revision => LoadFromDisk(c, b) = acked
<1>1. EmptyDocument \in RegistryDocument
  BY DEF EmptyDocument, RegistryDocument
<1>2. CASE c = Absent /\ acked = EmptyDocument
  <2>1. LoadFromDisk(c, b) = EmptyDocument
    BY <1>2 DEF LoadFromDisk, IsDocument
  <2>2. QED
    BY <1>1, <1>2, <2>1 DEF RegistryDocument
<1>3. CASE c \in RegistryDocument
  <2>1. LoadFromDisk(c, b) = c
    BY <1>3, SentinelAssumption DEF LoadFromDisk, IsDocument
  <2>2. QED
    BY <1>3, <2>1, SentinelAssumption DEF Covers
<1>4. QED
  BY <1>2, <1>3 DEF Covers

LEMMA DurableStep ==
    ASSUME TypeOK, Durable, [Next]_vars, ~Damage
    PROVE  Durable'
<1> USE SentinelAssumption
<1>1. CASE Load
  <2>1. LoadFromDisk(path, backup).revision >= acked.revision
    BY LoadCovers DEF Durable
  <2>2. QED
    BY <1>1, <2>1 DEF Load, files, Durable, Covers
<1>2. CASE Operation
  <2>1. PICK id \in Servers, r \in ManagedServer \union {None} : Editable /\ Commit(id, r)
    BY <1>2, OperationCommits
  <2>2. document \in RegistryDocument /\ document.revision >= acked.revision
    BY <2>1 DEF Editable, TypeOK, Durable
  <2>3. document'.revision > acked.revision
    <3>1. document' = Edited(document, id, r)
      BY <2>1 DEF Commit
    <3>2. Edited(document, id, r).revision = document.revision + 1
      BY <2>2, EditType
    <3>3. document.revision \in Nat /\ acked.revision \in Nat
      BY <2>2 DEF TypeOK, RegistryDocument
    <3>4. QED
      BY <2>2, <3>1, <3>2, <3>3
  <2>4. document'.revision >= acked.revision
    <3>1. document' \in RegistryDocument
      BY <2>1, <2>2, EditType DEF Commit
    <3>2. QED
      BY <2>3, <3>1 DEF TypeOK, RegistryDocument
  <2>5. QED
    BY <2>1, <2>3, <2>4 DEF Commit, files, Durable, Covers
<1>3. CASE WriteStep
  <2>1. CASE WriteTemp \/ SyncTemp
    BY <2>1 DEF WriteTemp, SyncTemp, files, Durable, Covers, TypeOK
  <2>2. CASE CopyBegins \/ CopyEnds
    BY <2>2 DEF CopyBegins, CopyEnds, Durable, Covers, TypeOK
  <2>3. CASE Replace
    <3>1. pc # "idle" /\ tempLoss = {document} /\ document \in RegistryDocument
      BY <2>3 DEF Replace, Durable, TypeOK
    <3>2. Covers(document)
      BY <3>1 DEF Covers, Durable, TypeOK, RegistryDocument
    <3>3. QED
      BY <2>3, <3>1, <3>2 DEF Replace, Durable, Covers
  <2>4. CASE SyncDirectory
    <3>1. tempLoss = {document} /\ document \in RegistryDocument /\ path = document
      BY <2>4 DEF SyncDirectory, Durable, TypeOK
    <3>2. Covers(document)'
      BY <2>4, <3>1 DEF SyncDirectory, Covers, RegistryDocument
    <3>3. document.revision >= document.revision
      BY <3>1 DEF RegistryDocument
    <3>4. QED
      BY <2>4, <3>1, <3>2, <3>3 DEF SyncDirectory, Durable, Covers
  <2>5. QED
    BY <1>3, <2>1, <2>2, <2>3, <2>4 DEF WriteStep
<1>4. CASE WriteFails
  BY <1>4 DEF WriteFails, files, Durable, Covers, TypeOK
<1>5. CASE Crash
  BY <1>5 DEF Crash, files, Durable, Covers, TypeOK
<1>6. CASE PowerLoss
  BY <1>6 DEF PowerLoss, Durable, Covers, TypeOK
<1>7. CASE FlushBackup
  BY <1>7 DEF FlushBackup, Durable, Covers, TypeOK
<1>8. CASE UNCHANGED vars
  BY <1>8 DEF vars, Durable, Covers, TypeOK
<1>9. QED
  BY <1>1, <1>2, <1>3, <1>4, <1>5, <1>6, <1>7, <1>8 DEF Next

\* Outside damage is counted and never uncounted.
LEMMA DamageStep ==
    ASSUME TypeOK, [Next]_vars
    PROVE  /\ ~Damage => damage' = damage
           /\ Damage => damage' # 0
<1>1. ASSUME ~Damage PROVE damage' = damage
  BY <1>1 DEF Next, Load, Operation, Create, Update, Delete, Commit, WriteStep, WriteTemp,
              SyncTemp, CopyBegins, CopyEnds, Replace, SyncDirectory, WriteFails, Crash,
              PowerLoss, FlushBackup, vars
<1>2. ASSUME Damage PROVE damage' # 0
  BY <1>2, MaxDamageAssumption DEF Damage, TypeOK
<1>3. QED
  BY <1>1, <1>2

\* As long as only the runtime writes the active file, no crash, power loss or
\* failing system call inside _write loses an operation that returned, and
\* the registry always loads.
THEOREM AckedSurvivesAlways == Spec => []AckedSurvives
<1> DEFINE IInv == damage = 0 => Durable
<1>1. Init => IInv
  BY SentinelAssumption DEF Init, Durable, Covers
<1>2. TypeOK /\ IInv => AckedSurvives
  <2> SUFFICES ASSUME TypeOK, Durable, NEW d \in Recoverable
               PROVE  /\ d # LoadError
                      /\ d.revision >= acked.revision
                      /\ d.revision = acked.revision => d = acked
    BY DEF AckedSurvives
  <2>1. PICK p \in pathLoss \union {path}, b \in backupLoss \union {backup} :
            d = LoadFromDisk(p, b)
    BY DEF Recoverable
  <2>2. Covers(p)
    BY DEF Durable
  <2>3. QED
    BY <2>1, <2>2, LoadCovers, SentinelAssumption
<1>3. TypeOK /\ IInv /\ [Next]_vars => IInv'
  BY DurableStep, DamageStep
<1>4. QED
  BY <1>1, <1>2, <1>3, TypeCorrect, PTL DEF Spec

----------------------------------------------------------------------------
(* Validity of every stored environment.                                   *)

ValidDocument(d) ==
    \A id \in Servers : d.servers[id] # None => ValidEnvironment(d.servers[id])

\* The inductive invariant: also the contents a power loss may bring back.
AllValid ==
    /\ document # None => ValidDocument(document)
    /\ \A c \in {path, backup} \union pathLoss \union backupLoss \union tempLoss :
          c \in RegistryDocument => ValidDocument(c)

LEMMA LoadValid ==
    ASSUME TypeOK, AllValid, LoadFromDisk(path, backup) # LoadError
    PROVE  ValidDocument(LoadFromDisk(path, backup))
<1>1. ValidDocument(EmptyDocument)
  BY DEF ValidDocument, EmptyDocument
<1>2. LoadFromDisk(path, backup) \in {EmptyDocument} \union (RegistryDocument \intersect {path, backup})
  BY SentinelAssumption DEF LoadFromDisk, IsDocument, TypeOK, Contents
<1>3. QED
  BY <1>1, <1>2 DEF AllValid

LEMMA AllValidStep ==
    ASSUME TypeOK, AllValid, [Next]_vars
    PROVE  AllValid'
<1> USE SentinelAssumption
<1>1. CASE Load
  BY <1>1, LoadValid DEF Load, files, AllValid
<1>2. CASE Operation
  <2>1. PICK id \in Servers, r \in ManagedServer \union {None} :
            Editable /\ Commit(id, r) /\ (r # None => ValidEnvironment(r))
    BY <1>2, OperationCommits
  <2>2. document \in RegistryDocument /\ ValidDocument(document)
    BY <2>1 DEF Editable, TypeOK, AllValid
  <2>3. document' = Edited(document, id, r)
    BY <2>1 DEF Commit
  <2>4. document'.servers = [document.servers EXCEPT ![id] = r]
    BY <2>2, <2>3, EditType
  <2>5. document.servers \in [Servers -> ManagedServer \union {None}]
    BY <2>2 DEF RegistryDocument
  <2>6. ASSUME NEW x \in Servers, document'.servers[x] # None
        PROVE  ValidEnvironment(document'.servers[x])
    <3>1. CASE x = id
      BY <2>1, <2>4, <2>5, <2>6, <3>1
    <3>2. CASE x # id
      <4>1. document'.servers[x] = document.servers[x]
        BY <2>4, <2>5, <3>2
      <4>2. QED
        BY <2>2, <2>6, <4>1 DEF ValidDocument
    <3>3. QED
      BY <3>1, <3>2
  <2>7. ValidDocument(document')
    BY <2>6 DEF ValidDocument
  <2>8. QED
    BY <2>1, <2>7 DEF Commit, files, AllValid
<1>3. CASE WriteStep
  BY <1>3 DEF WriteStep, WriteTemp, SyncTemp, CopyBegins, CopyEnds, Replace, SyncDirectory,
              files, AllValid, TypeOK
<1>4. CASE WriteFails \/ Crash \/ PowerLoss \/ FlushBackup
  BY <1>4 DEF WriteFails, Crash, PowerLoss, FlushBackup, files, AllValid
<1>5. CASE Damage
  <2>1. path' = Torn \/ (path' \in RegistryDocument /\ path \in RegistryDocument /\ path'.servers = path.servers)
    BY <1>5 DEF Damage, IsDocument, TypeOK, Contents, RegistryDocument
  <2>2. path' \in RegistryDocument => ValidDocument(path')
    BY <2>1 DEF AllValid, ValidDocument
  <2>3. QED
    BY <1>5, <2>2 DEF Damage, AllValid
<1>6. CASE UNCHANGED vars
  BY <1>6 DEF vars, AllValid
<1>7. QED
  BY <1>1, <1>2, <1>3, <1>4, <1>5, <1>6 DEF Next

\* No sequence of creates, partial updates, failed writes, crashes and power
\* losses leaves a record that _validate_environment would refuse.
THEOREM EnvironmentAlwaysValid == Spec => []EnvironmentValid
<1>1. Init => AllValid
  BY SentinelAssumption DEF Init, AllValid
<1>2. TypeOK /\ AllValid => EnvironmentValid
  BY DEF TypeOK, Contents, AllValid, ValidDocument, EnvironmentValid
<1>3. QED
  BY <1>1, <1>2, TypeCorrect, AllValidStep, PTL DEF Spec

----------------------------------------------------------------------------
(* No loss of the whole registry.                                          *)

\* The inductive invariant: whatever is written anywhere counts at least one
\* operation, and once one has returned the active file is there to stay.
NeverEmpty ==
    /\ \A c \in {path, backup} \union pathLoss \union backupLoss \union tempLoss :
          c \in RegistryDocument => c.revision > 0
    /\ pc # "idle" => document.revision > 0
    /\ pc \in {"written", "synced", "copying", "copied", "replaced"} => Absent \notin tempLoss
    /\ pc = "replaced" => path # Absent
    /\ acked.revision > 0 => Absent \notin pathLoss \union {path}

LEMMA NeverEmptyStep ==
    ASSUME TypeOK, NeverEmpty, [Next]_vars
    PROVE  NeverEmpty'
<1> USE SentinelAssumption
<1>1. CASE Load
  BY <1>1 DEF Load, files, NeverEmpty
<1>2. CASE Operation
  <2>1. PICK id \in Servers, r \in ManagedServer \union {None} : Editable /\ Commit(id, r)
    BY <1>2, OperationCommits
  <2>2. document'.revision > 0
    <3>1. document \in RegistryDocument
      BY <2>1 DEF Editable, TypeOK
    <3>2. document'.revision = document.revision + 1
      BY <2>1, <3>1, EditType DEF Commit
    <3>3. QED
      BY <3>1, <3>2 DEF RegistryDocument
  <2>3. QED
    BY <2>1, <2>2 DEF Editable, Commit, files, NeverEmpty
<1>3. CASE WriteStep
  <2>1. CASE WriteTemp \/ SyncTemp
    BY <2>1 DEF WriteTemp, SyncTemp, files, NeverEmpty, TypeOK
  <2>2. CASE CopyBegins \/ CopyEnds
    BY <2>2 DEF CopyBegins, CopyEnds, NeverEmpty, TypeOK
  <2>3. CASE Replace
    BY <2>3 DEF Replace, NeverEmpty, TypeOK
  <2>4. CASE SyncDirectory
    BY <2>4 DEF SyncDirectory, NeverEmpty, TypeOK
  <2>5. QED
    BY <1>3, <2>1, <2>2, <2>3, <2>4 DEF WriteStep
<1>4. CASE WriteFails
  BY <1>4 DEF WriteFails, files, NeverEmpty
<1>5. CASE Crash
  BY <1>5 DEF Crash, files, NeverEmpty
<1>6. CASE PowerLoss
  BY <1>6 DEF PowerLoss, NeverEmpty
<1>7. CASE FlushBackup
  BY <1>7 DEF FlushBackup, NeverEmpty
<1>8. CASE Damage
  <2>1. path' \in RegistryDocument => path \in RegistryDocument /\ path'.revision = path.revision
    BY <1>8 DEF Damage, IsDocument, TypeOK, Contents, RegistryDocument
  <2>2. path' # Absent
    BY <1>8 DEF Damage, IsDocument, TypeOK, Contents, RegistryDocument
  <2>3. QED
    BY <1>8, <2>1, <2>2 DEF Damage, NeverEmpty
<1>9. CASE UNCHANGED vars
  BY <1>9 DEF vars, NeverEmpty
<1>10. QED
  BY <1>1, <1>2, <1>3, <1>4, <1>5, <1>6, <1>7, <1>8, <1>9 DEF Next

\* Once an operation has returned, no start takes the registry for an empty
\* one, even if the active file is damaged from outside any number of times and
\* the power fails at any step of _write.
THEOREM NeverTakenForNewAlways == Spec => []NeverTakenForNew
<1>1. Init => NeverEmpty
  BY SentinelAssumption DEF Init, NeverEmpty, EmptyDocument
<1>2. TypeOK /\ NeverEmpty => NeverTakenForNew
  <2> SUFFICES ASSUME TypeOK, NeverEmpty, acked.revision > 0, NEW d \in Recoverable
               PROVE  d = LoadError \/ d.revision > 0
    BY DEF NeverTakenForNew
  <2>1. PICK p \in pathLoss \union {path}, b \in backupLoss \union {backup} :
            d = LoadFromDisk(p, b)
    BY DEF Recoverable
  <2>2. p \in Contents /\ b \in Contents /\ p # Absent
    BY DEF TypeOK, NeverEmpty
  <2>3. d = LoadError \/ (d \in {p, b} /\ d \in RegistryDocument)
    BY <2>1, <2>2 DEF LoadFromDisk, IsDocument, Contents
  <2>4. QED
    BY <2>3 DEF NeverEmpty
<1>3. QED
  BY <1>1, <1>2, TypeCorrect, NeverEmptyStep, PTL DEF Spec
=============================================================================
