---------------------------- MODULE McpRegistry ----------------------------
(***************************************************************************)
(* The JSON registry of the managed MCP runtime (mcp_runtime/registry.py): *)
(* one document held in memory, an active file, and a backup file.         *)
(*                                                                         *)
(* The runtime's asyncio lock is never held across an await, so requests   *)
(* cannot interleave inside an operation.  What can fall between two of    *)
(* its file-system calls is a failing call, the death of the process, and  *)
(* a power loss that drops whatever was not yet synced; these are actions  *)
(* here, and a write is one action per system call.                        *)
(***************************************************************************)
EXTENDS Naturals

CONSTANTS
    Servers,        \* server ids that packages below the roots declare
    Names,          \* environment variable names a form may mention
    Declared,       \* names the manifest declares
    SecretNames,    \* declared names whose definition says secret: true
    RootName,       \* MCP_FILESYSTEM_ROOT
    InsideRoots,    \* values that resolve below the manifest's filesystem_roots
    Values,         \* values a form may give to a variable
    RootDefault,    \* the declared default of RootName, or Unset
    Unset,          \* no value: the variable is not in the mapping
    None,           \* no record, no document, no field
    Absent,         \* content of a file that does not exist
    Torn,           \* bytes that do not validate as a document
    LoadError,      \* RegistryError from _load_from_disk
    MaxRevision,    \* bound: operations applied to one document
    MaxDamage       \* bound: times something else rewrites the active file

ASSUME MaxRevisionAssumption == MaxRevision \in Nat
ASSUME MaxDamageAssumption == MaxDamage \in Nat
ASSUME UnsetAssumption == Unset \notin Values

----------------------------------------------------------------------------
(* Documents and file contents.                                            *)

Environment == [Names -> Values \union {Unset}]

\* ManagedServer, reduced to what _validate_environment and the lifecycle read.
ManagedServer == [environment : Environment, secret : SUBSET Names, enabled : BOOLEAN]

\* RegistryDocument.  Version 1 is the only schema this code writes by itself.
RegistryDocument ==
    [schema_version : {1, 2}, revision : Nat, servers : [Servers -> ManagedServer \union {None}]]

EmptyDocument ==
    [schema_version |-> 1, revision |-> 0, servers |-> [s \in Servers |-> None]]

\* What a file can hold: nothing (no such file), bytes that do not validate as
\* a document, or a document.
ASSUME SentinelAssumption ==
    /\ \A c \in {None, Absent, Torn, LoadError} : c \notin RegistryDocument
    /\ None \notin ManagedServer
    /\ None # Absent /\ None # Torn /\ None # LoadError
    /\ Absent # Torn /\ Absent # LoadError /\ Torn # LoadError

IsDocument(content) == content \notin {Absent, Torn}

VARIABLES
    document,    \* _document, or None in a process that has not loaded it
    path,        \* content of the active file
    pathLoss,    \* the contents it may have after a power loss
    backup,      \* content of the backup file
    backupLoss,  \* the contents it may have after a power loss
    tempLoss,    \* the contents of the temporary file after a power loss
    pc,          \* the next system call of _write, or "idle"
    acked,       \* the document of the last operation that returned
    damage       \* times the active file was damaged from outside

vars == <<document, path, pathLoss, backup, backupLoss, tempLoss, pc, acked, damage>>

----------------------------------------------------------------------------
(* Reading.                                                                *)

\* Mutant: a file that does not validate is taken for no file at all.
LoadFromDiskOrEmpty(active, copy) ==
    CASE active = Absent    -> EmptyDocument
      [] IsDocument(active) -> active
      [] OTHER              -> IF IsDocument(copy) THEN copy ELSE EmptyDocument

\* _load_from_disk: the active file if it validates, else the backup.
LoadFromDisk(active, copy) ==
    CASE active = Absent    -> EmptyDocument
      [] IsDocument(active) -> active
      [] OTHER              -> IF IsDocument(copy) THEN copy ELSE LoadError

\* _validate_environment on one record.
ValidEnvironment(r) ==
    LET environment == {n \in Names : r.environment[n] # Unset}
        configured  == IF r.environment[RootName] # Unset
                       THEN r.environment[RootName] ELSE RootDefault
    IN  /\ environment \union r.secret \subseteq Declared
        /\ environment \intersect r.secret = {}
        /\ environment \intersect SecretNames = {}
        /\ RootName \in Declared /\ configured # Unset => configured \in InsideRoots

----------------------------------------------------------------------------
(* The operations.  Each mutates the in-memory document first, then writes *)
(* it; the write's system calls are the actions of the next section.  The  *)
(* application serves no request before load() has returned, so `_document *)
(* or _load_from_disk()` is always the loaded document.                    *)

Init ==
    /\ document = None
    /\ path = Absent /\ pathLoss = {Absent}
    /\ backup = Absent /\ backupLoss = {Absent}
    /\ tempLoss = {Absent}
    /\ pc = "idle"
    /\ acked = EmptyDocument
    /\ damage = 0

files == <<path, pathLoss, backup, backupLoss>>

\* load / snapshot, when the process has no document yet.
Load ==
    /\ pc = "idle" /\ document = None
    /\ LoadFromDisk(path, backup) # LoadError
    /\ document' = LoadFromDisk(path, backup)
    /\ UNCHANGED <<files, tempLoss, pc, acked, damage>>

\* document.servers[id] = record, or del document.servers[id]; revision += 1.
Edited(d, id, record) ==
    [schema_version |-> d.schema_version,
     revision       |-> d.revision + 1,
     servers        |-> [d.servers EXCEPT ![id] = record]]

\* The tail create, update and delete share: the document is edited in place and
\* _write begins.
Commit(id, record) ==
    /\ document' = Edited(document, id, record)
    /\ pc' = "temp"
    /\ UNCHANGED <<files, tempLoss, acked, damage>>

Editable ==
    /\ pc = "idle" /\ document # None /\ document.revision < MaxRevision

Create(id, record) ==
    /\ Editable
    /\ document.servers[id] = None
    /\ ValidEnvironment(record)
    /\ Commit(id, record)

\* form.model_dump(exclude_none=True) over the stored record: a field the form
\* leaves out (None here) keeps its stored value.
Given(field, stored) == IF field = None THEN stored ELSE field

\* Mutant: without exclude_none a form that is silent on `enabled` clears it.
MergedWithNone(stored, form) ==
    [environment |-> Given(form.environment, stored.environment),
     secret      |-> Given(form.secret, stored.secret),
     enabled     |-> form.enabled]

Merged(stored, form) ==
    [environment |-> Given(form.environment, stored.environment),
     secret      |-> Given(form.secret, stored.secret),
     enabled     |-> Given(form.enabled, stored.enabled)]

\* Mutant: the stored record is validated instead of the merged one.
UpdateUnchecked(id, form) ==
    /\ Editable
    /\ document.servers[id] # None
    /\ ValidEnvironment(document.servers[id])
    /\ Commit(id, Merged(document.servers[id], form))

Update(id, form) ==
    /\ Editable
    /\ document.servers[id] # None
    /\ ValidEnvironment(Merged(document.servers[id], form))
    /\ Commit(id, Merged(document.servers[id], form))

Delete(id) ==
    /\ Editable
    /\ document.servers[id] # None
    /\ Commit(id, None)

----------------------------------------------------------------------------
(* _write, one system call at a time.                                      *)

\* output.write, flush: the bytes are in the page cache only.
WriteTemp ==
    /\ pc = "temp"
    /\ tempLoss' = {Torn, document}
    /\ pc' = "written"
    /\ UNCHANGED <<document, files, acked, damage>>

\* Mutant: no fsync before the rename.
SyncTempSkipped ==
    /\ pc = "written"
    /\ pc' = "synced"
    /\ UNCHANGED <<document, files, tempLoss, acked, damage>>

\* os.fsync(output.fileno())
SyncTemp ==
    /\ pc = "written"
    /\ tempLoss' = {document}
    /\ pc' = "synced"
    /\ UNCHANGED <<document, files, acked, damage>>

\* shutil.copy2 truncates the backup, if there is an active file to copy ...
CopyBegins ==
    /\ pc = "synced" /\ path # Absent
    /\ backup' = Torn /\ backupLoss' = backupLoss \union {Torn}
    /\ pc' = "copying"
    /\ UNCHANGED <<document, path, pathLoss, tempLoss, acked, damage>>

\* ... and fills it with the active file's bytes, which nothing syncs.
CopyEnds ==
    /\ pc = "copying"
    /\ backup' = path /\ backupLoss' = backupLoss \union {path}
    /\ pc' = "copied"
    /\ UNCHANGED <<document, path, pathLoss, tempLoss, acked, damage>>

\* os.replace: the name now refers to the temporary file, on disk once the
\* directory is synced.
Replace ==
    /\ pc = IF path = Absent THEN "synced" ELSE "copied"
    /\ path' = document /\ pathLoss' = pathLoss \union tempLoss
    /\ pc' = "replaced"
    /\ UNCHANGED <<document, backup, backupLoss, tempLoss, acked, damage>>

\* os.fsync(directory_fd); the operation returns.
SyncDirectory ==
    /\ pc = "replaced"
    /\ pathLoss' = tempLoss
    /\ tempLoss' = {Absent}
    /\ pc' = "idle" /\ acked' = document
    /\ UNCHANGED <<document, path, backup, backupLoss, damage>>

----------------------------------------------------------------------------
(* What can fall between two calls.                                        *)

\* A call raises (disk full, I/O error): the temporary file is unlinked, the
\* operation fails, and the in-memory document keeps the change.
WriteFails ==
    /\ pc # "idle"
    /\ tempLoss' = {Absent}
    /\ pc' = "idle"
    /\ UNCHANGED <<document, files, acked, damage>>

\* The process dies; the kernel's view of the files survives.
Crash ==
    /\ document' = None /\ pc' = "idle" /\ tempLoss' = {Absent}
    /\ UNCHANGED <<files, acked, damage>>

\* The machine dies; each file comes back with one of its possible contents.
PowerLoss ==
    /\ path' \in pathLoss /\ pathLoss' = {path'}
    /\ backup' \in backupLoss /\ backupLoss' = {backup'}
    /\ document' = None /\ pc' = "idle" /\ tempLoss' = {Absent}
    /\ UNCHANGED <<acked, damage>>

\* The kernel writes the backup back in its own time.
FlushBackup ==
    /\ backupLoss' = {backup}
    /\ UNCHANGED <<document, path, pathLoss, backup, tempLoss, pc, acked, damage>>

\* Something other than the runtime rewrites the active file: bytes that do
\* not validate, or the same document under a schema version of another
\* release.
Damage ==
    /\ damage < MaxDamage /\ pc = "idle" /\ IsDocument(path)
    /\ path' \in {Torn, [path EXCEPT !.schema_version = 2]}
    /\ pathLoss' = {path'}
    /\ damage' = damage + 1
    /\ UNCHANGED <<document, backup, backupLoss, tempLoss, pc, acked>>

----------------------------------------------------------------------------

Forms ==
    [environment : Environment \union {None}, secret : (SUBSET Names) \union {None},
     enabled : BOOLEAN \union {None}]

Operation ==
    /\ Editable
    /\ \E id \in Servers :
          \/ \E record \in ManagedServer : Create(id, record)
          \/ \E form \in Forms : Update(id, form)
          \/ Delete(id)

WriteStep ==
    WriteTemp \/ SyncTemp \/ CopyBegins \/ CopyEnds \/ Replace \/ SyncDirectory

Next ==
    \/ Load \/ Operation \/ WriteStep
    \/ WriteFails \/ Crash \/ PowerLoss \/ FlushBackup \/ Damage

Spec == Init /\ [][Next]_vars

----------------------------------------------------------------------------
(* Properties.                                                             *)

Contents == {Absent, Torn} \union RegistryDocument

TypeOK ==
    /\ document \in RegistryDocument \union {None}
    /\ path \in Contents /\ backup \in Contents
    /\ pathLoss \in SUBSET Contents /\ backupLoss \in SUBSET Contents
    /\ tempLoss \in SUBSET Contents
    /\ pc \in {"idle", "temp", "written", "synced", "copying", "copied", "replaced"}
    /\ acked \in RegistryDocument
    /\ damage \in 0..MaxDamage
    /\ pc # "idle" => document # None

\* Every document a start of the runtime can find, now or after a power loss.
Recoverable ==
    {LoadFromDisk(p, b) : p \in pathLoss \union {path}, b \in backupLoss \union {backup}}

\* An operation that returned is never lost: whatever is found on disk at the
\* next start is the acknowledged document or a later one, and at the
\* acknowledged revision it is that very document.  (Until something else
\* rewrites the active file: the backup is one operation older.)
AckedSurvives ==
    damage = 0 =>
        \A d \in Recoverable :
            /\ d # LoadError
            /\ d.revision >= acked.revision
            /\ d.revision = acked.revision => d = acked

\* Once an operation has returned, no start of the runtime takes the registry for
\* a new, empty one, whatever rewrote the active file and whenever the power went:
\* _load_from_disk answers with a document that has had operations, or refuses.
\* It does not say that this document is of a schema version the code knows, for
\* any is loaded, nor how old it is, nor that a good copy is left.
NeverTakenForNew ==
    acked.revision > 0 => \A d \in Recoverable : d = LoadError \/ d.revision > 0

\* Every record in memory and on disk satisfies _validate_environment: update
\* validates the merged record, so no sequence of partial updates assembles
\* one that create would have refused.
EnvironmentValid ==
    \A d \in {document, path, backup} :
        d \notin {None, Absent, Torn} =>
            \A id \in Servers : d.servers[id] # None => ValidEnvironment(d.servers[id])
=============================================================================
