---------------------------- MODULE RuntimeBackup ----------------------------
(***************************************************************************)
(* The backups of the runtime's database, around the ledger it holds:      *)
(* scripts/manage-runtime-backup.py makes and restores them, by hand, and  *)
(* scripts/watch-social-connection-backups.py makes one whenever the       *)
(* social connections have changed.                                        *)
(*                                                                         *)
(* The files are where the renames and the unlinks leave them; until the   *)
(* directory is flushed, a power loss may take the last of them back.  It  *)
(* takes them back in the reverse of their order, as a file system with a  *)
(* journal of its metadata does.                                           *)
(***************************************************************************)
EXTENDS AuditLedger

CONSTANTS Operator, Watcher

ASSUME ToolAssumption == Operator # Watcher
ASSUME BackupAssumption ==
    \A k \in Workloads : /\ {k.backups, k.links, k.outages} \subseteq Nat
                         /\ k.restores \in BOOLEAN
                         /\ k.tools \subseteq {Operator, Watcher}

VARIABLES
    links,      \* version of the table social_connections
    sidecar,    \* whether the files -wal and -shm are next to the database
    archive,    \* what the backups hold, in the order they were made
    files,      \* the backup directory, and the two files of the watcher
    lost,       \* the states of these files that a power loss may bring back
    tool,       \* process -> its step
    backup,     \* process -> index in archive of the backup it works on
    digest,     \* version of the connections whose digest the watcher has read
    undone,     \* databases that a power loss may bring back
    outages,    \* power losses so far
    announced,  \* ghost: indexes of the backups reported as created
    unreported, \* whether a restore has installed a database and not reported it
    line,       \* ghost: index of the backup that the database comes from, or 0
    restored    \* ghost: index of the backup last reported as restored, or 0

restores == <<unreported, line, restored>>
backupVars == <<links, sidecar, archive, files, lost, tool, backup, digest, undone,
                outages, announced, restores>>
vars == <<ledgerVars, backupVars>>

Tools == {Operator, Watcher}

NoFiles == [artifacts |-> {}, manifests |-> {}, pointer |-> 0, state |-> 0]

Init ==
    /\ InitLedger
    /\ links = 1
    /\ sidecar = FALSE
    /\ archive = <<>>
    /\ files = NoFiles
    /\ lost = {}
    /\ tool = [p \in Tools |-> "idle"]
    /\ backup = [p \in Tools |-> 0]
    /\ digest = 0
    /\ undone = {}
    /\ outages = 0
    /\ announced = {}
    /\ unreported = FALSE
    /\ line = 0
    /\ restored = 0

-------------------------------------------------------------------------------
(* The directory. *)

\* The content of the database, and the ghosts that tell what it should be.
Database == [rows |-> rows, heads |-> heads, serial |-> serial, links |-> links,
             corruptions |-> corruptions, history |-> history,
             line |-> line]

Rename(after) ==
    /\ files' = after
    /\ lost' = lost \cup {files}

Flush ==
    /\ lost' = {}
    /\ UNCHANGED files

Step(p, next) == tool' = [tool EXCEPT ![p] = next]

\* The process is done, or fails, or is killed.
Leave(p) ==
    /\ Step(p, "idle")
    /\ backup' = [backup EXCEPT ![p] = 0]
    /\ digest' = IF p = Watcher THEN 0 ELSE digest

ToolOnly == UNCHANGED <<ledgerVars, links, sidecar, undone, outages, restores>>

-------------------------------------------------------------------------------
(* Making a backup: create_sqlite_backup, create_postgresql_backup. *)

Start ==
    /\ Operator \in workload.tools
    /\ tool[Operator] = "idle"
    /\ Step(Operator, "copy")
    /\ ToolOnly
    /\ UNCHANGED <<archive, files, lost, backup, digest, announced>>

\* snapshot_if_changed
Poll ==
    /\ backend = "sqlite"
    /\ Watcher \in workload.tools
    /\ tool[Watcher] = "idle"
    /\ links # files.state
    /\ digest' = links
    /\ Step(Watcher, "copy")
    /\ ToolOnly
    /\ UNCHANGED <<archive, files, lost, backup, announced>>

\* The temporary file gets a consistent copy, is checked and flushed.
Copy(p) ==
    /\ tool[p] = "copy"
    /\ Len(archive) < workload.backups
    /\ archive' = Append(archive, Database)
    /\ backup' = [backup EXCEPT ![p] = Len(archive')]
    /\ Step(p, "install")
    /\ ToolOnly
    /\ UNCHANGED <<files, lost, digest, announced>>

Install(p) ==
    /\ tool[p] = "install"
    /\ Rename([files EXCEPT !.artifacts = @ \cup {backup[p]}])
    /\ Step(p, "flush")
    /\ ToolOnly
    /\ UNCHANGED <<archive, backup, digest, announced>>

FlushArtifact(p) ==
    /\ tool[p] = "flush"
    /\ Flush
    /\ Step(p, "describe")
    /\ ToolOnly
    /\ UNCHANGED <<archive, backup, digest, announced>>

\* atomic_json
Describe(p) ==
    /\ tool[p] = "describe"
    /\ Rename([files EXCEPT !.manifests = @ \cup {backup[p]}])
    /\ Step(p, "seal")
    /\ ToolOnly
    /\ UNCHANGED <<archive, backup, digest, announced>>

\* Slip: atomic_json does not flush the directory.
SealUnflushed(p) ==
    /\ tool[p] = "seal"
    /\ announced' = announced \cup {backup[p]}
    /\ IF p = Watcher THEN Step(p, "point") /\ UNCHANGED <<backup, digest>> ELSE Leave(p)
    /\ ToolOnly
    /\ UNCHANGED <<archive, files, lost>>

\* The directory is flushed and the backup reported as created.
Seal(p) ==
    /\ tool[p] = "seal"
    /\ Flush
    /\ announced' = announced \cup {backup[p]}
    /\ IF p = Watcher THEN Step(p, "point") /\ UNCHANGED <<backup, digest>> ELSE Leave(p)
    /\ ToolOnly
    /\ UNCHANGED archive

\* _atomic_private_text does not flush the directory.
Point ==
    /\ tool[Watcher] = "point"
    /\ Rename([files EXCEPT !.pointer = backup[Watcher]])
    /\ Step(Watcher, "record")
    /\ ToolOnly
    /\ UNCHANGED <<archive, backup, digest, announced>>

\* Slip: the digest is that of the connections after the backup.
NotedDigestLate == links

\* The digest was read before the backup.
NotedDigest == digest

Record ==
    /\ tool[Watcher] = "record"
    /\ Rename([files EXCEPT !.state = NotedDigest])
    /\ Leave(Watcher)
    /\ ToolOnly
    /\ UNCHANGED <<archive, announced>>

Making == {"copy", "install", "flush", "describe", "seal"}

\* A step fails: the artifact is unlinked, then the manifest.
Fails(p) ==
    /\ tool[p] \in Making
    /\ LET bare == [files EXCEPT !.artifacts = @ \ {backup[p]}] IN
       IF tool[p] = "copy" THEN UNCHANGED <<files, lost>>
       ELSE /\ files' = [bare EXCEPT !.manifests = @ \ {backup[p]}]
            /\ lost' = lost \cup {files, bare}
    /\ Leave(p)
    /\ ToolOnly
    /\ UNCHANGED <<archive, announced>>

\* The process is killed, and leaves what it has done.
Killed(p) ==
    /\ tool[p] # "idle"
    /\ Leave(p)
    /\ ToolOnly
    /\ UNCHANGED <<archive, files, lost, announced>>

-------------------------------------------------------------------------------
(* Restoring one: restore_sqlite_backup, restore_postgresql_backup. *)

\* load_and_verify_manifest
Loads(i) == i \in files.manifests /\ i \in files.artifacts

\* Slip: the chains of the backup are not verified.
ChainsHoldUnread(copy) == TRUE

\* A SQLite database from before there were hashes.
Unhashed(copy) ==
    /\ backend = "sqlite"
    /\ \A r \in copy.rows : r.hash = None
    /\ \A t \in Tenants : copy.heads[t] = NoHead

AllVerify(copy) == \A t \in Tenants : Verifies(copy.rows, t, copy.heads[t])

ChainsHold(copy) == Unhashed(copy) \/ AllVerify(copy)

\* What is checked before anything is changed; the operator stops the service.
Restorable(i) ==
    /\ workload.restores
    /\ service = "stopped"
    /\ tool[Operator] = "idle"
    /\ Loads(i)
    /\ ChainsHold(archive[i])

\* The database becomes that of a copy.  A log of the database that was there
\* would be applied to it.  The auditors begin again: numbers given out since
\* the copy are given out again.
Becomes(copy, from) ==
    /\ rows' = IF sidecar THEN {[r EXCEPT !.event = Forged] : r \in copy.rows}
                          ELSE copy.rows
    /\ heads' = copy.heads
    /\ serial' = copy.serial
    /\ links' = copy.links
    /\ corruptions' = IF from = copy.line THEN copy.corruptions ELSE 0
    /\ history' = copy.history
    /\ line' = from
    /\ cursor' = [p \in Auditors |-> [t \in Tenants |-> 0]]
    /\ paged' = [p \in Auditors |-> {}]
    /\ UNCHANGED <<fixed, service, lock, threads>>

\* The service is stopped; the copy is checked and installed by a rename.
RestoreSqlite(i) ==
    /\ backend = "sqlite"
    /\ Restorable(i)
    /\ ~sidecar
    /\ undone' = undone \cup {Database}
    /\ Becomes(archive[i], i)
    /\ unreported' = TRUE
    /\ restored' = 0
    /\ Step(Operator, "sync")
    /\ backup' = [backup EXCEPT ![Operator] = i]
    /\ UNCHANGED <<sidecar, archive, files, lost, digest, outages, announced>>

\* Slip: the restore is reported before the directory is flushed.
SyncUnflushed ==
    /\ tool[Operator] = "sync"
    /\ unreported' = FALSE
    /\ restored' = line
    /\ UNCHANGED line
    /\ Leave(Operator)
    /\ UNCHANGED <<ledgerVars, links, sidecar, archive, files, lost, undone, outages,
                   announced>>

\* The directory is flushed and the restore reported.
Sync ==
    /\ tool[Operator] = "sync"
    /\ undone' = {}
    /\ unreported' = FALSE
    /\ restored' = line
    /\ UNCHANGED line
    /\ Leave(Operator)
    /\ UNCHANGED <<ledgerVars, links, sidecar, archive, files, lost, outages, announced>>

\* One transaction fills an empty database; the operator moves the service to
\* it when the chains in it have been verified.
RestorePostgres(i) ==
    /\ backend = "postgresql"
    /\ Restorable(i)
    /\ Becomes(archive[i], i)
    /\ restored' = i
    /\ UNCHANGED <<sidecar, archive, files, lost, tool, backup, digest, undone, outages,
                   announced, unreported>>

-------------------------------------------------------------------------------
(* Around the tools. *)

\* The operator starts the service again when the restore is reported.
Serve ==
    /\ ~unreported
    /\ Open
    /\ sidecar' = (backend = "sqlite")
    /\ UNCHANGED <<links, archive, files, lost, tool, backup, digest, undone, outages,
                   announced, restores>>

\* A clean stop removes the log, a crash does not.
Halt ==
    /\ Stop
    /\ sidecar' \in {FALSE, sidecar}
    /\ UNCHANGED <<links, archive, files, lost, tool, backup, digest, undone, outages,
                   announced, restores>>

\* A social connection is saved or revoked.
Link ==
    /\ service = "running"
    /\ links < workload.links
    /\ links' = links + 1
    /\ UNCHANGED <<ledgerVars, sidecar, archive, files, lost, tool, backup, digest,
                   undone, outages, announced, restores>>

Ledger ==
    /\ LedgerStep
    /\ UNCHANGED backupVars

\* Power is lost: renames that are not flushed may be taken back.
PowerLoss ==
    /\ outages < workload.outages
    /\ outages' = outages + 1
    /\ service = "stopped"
    /\ files' \in lost \cup {files}
    /\ lost' = {}
    /\ tool' = [p \in Tools |-> "idle"]
    /\ backup' = [p \in Tools |-> 0]
    /\ digest' = 0
    /\ undone' = {}
    /\ unreported' = FALSE
    /\ \/ UNCHANGED <<ledgerVars, links, line>>
       \/ \E old \in undone : Becomes(old, old.line)
    /\ UNCHANGED <<sidecar, archive, announced, restored>>

Next ==
    \/ Ledger
    \/ Serve
    \/ Halt
    \/ Link
    \/ Start
    \/ Poll
    \/ \E p \in Tools : \/ Copy(p) \/ Install(p) \/ FlushArtifact(p)
                        \/ Describe(p) \/ Seal(p)
                        \/ Fails(p) \/ Killed(p)
    \/ Point
    \/ Record
    \/ \E i \in DOMAIN archive : RestoreSqlite(i) \/ RestorePostgres(i)
    \/ Sync
    \/ PowerLoss

Spec == Init /\ [][Next]_vars

-------------------------------------------------------------------------------
(* Properties. *)

\* A backup that was reported as created can be loaded for ever, whatever the
\* tools, their failures and power losses did since.
AnnouncedBackupsLoad == \A i \in announced : Loads(i)

\* When the state file says that some version of the connections is backed up,
\* the manifest that the watcher points to can be loaded and holds that version
\* or a later one: the digest is read first and written last.  (A restore that
\* takes the connections back may break this.)
StateIsBackedUp ==
    (files.state > 0 /\ ~workload.restores) =>
        /\ Loads(files.pointer)
        /\ archive[files.pointer].links >= files.state

\* A restore that was reported lasts: no power loss brings the database of
\* before it back, with or without what has been committed since.
RestoresLast == restored # 0 => line = restored

\* A ledger that is restored can be opened, until a row is altered again: no
\* backup of a broken chain, and no log of another database, gets into it.
RestoredLedgersOpen == service = "refused" => corruptions > 0
=============================================================================
