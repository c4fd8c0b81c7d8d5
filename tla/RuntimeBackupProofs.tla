-------------------------- MODULE RuntimeBackupProofs --------------------------
(***************************************************************************)
(* Proofs about the files and the restores of RuntimeBackup, and about the *)
(* chains of AuditLedger in it, for every number of tenants, events,       *)
(* ledger threads, backups, connections and power losses, on both          *)
(* backends.                                                               *)
(*                                                                         *)
(* IInv is the inductive invariant of the files: what each tool may rely   *)
(* on (Holds), and what is true of the backup directory, not only as it is *)
(* but in every state a power loss may bring back (FileInv, WatchInv).     *)
(*                                                                         *)
(* LedgerInv is that of the ledger.  Altered rows cannot be told from the  *)
(* others, so it says of the rows only how they are numbered, and of the   *)
(* heads that they say what was committed (Headed); that the rows agree    *)
(* with them (Whole) is claimed until a row is altered, of the database    *)
(* and of every copy of it (Intact).  Rows are sorted by their numbers:    *)
(* the row of rank i is the i-th, and the ranks are a bijection            *)
(* (RankOnto), so no induction over the rows is needed.                    *)
(***************************************************************************)
EXTENDS RuntimeBackup, FiniteSetTheorems, SequenceTheorems, TLAPS

Places == {"idle", "copy", "install", "flush", "describe", "seal", "point", "record",
           "sync"}

\* The places where a tool works on a backup that it has not reported.
Holding == {"install", "flush", "describe", "seal"}

Directories == [artifacts : SUBSET Nat, manifests : SUBSET Nat, pointer : Nat, state : Nat]

Types ==
    /\ archive \in Seq(Range(archive))
    /\ \A i \in DOMAIN archive : archive[i].links \in Nat
    /\ \A old \in undone : old.links \in Nat
    /\ links \in Nat
    /\ files \in Directories
    /\ lost \subseteq Directories
    /\ tool \in [Tools -> Places]
    /\ backup \in [Tools -> Nat]
    /\ digest \in Nat
    /\ announced \subseteq DOMAIN archive

\* What a tool at c may rely on about its backup b.
Holds(c, b) ==
    /\ c \in Holding => b \in DOMAIN archive /\ b \notin announced
    /\ c \in {"flush", "describe", "seal"} => b \in files.artifacts
    /\ c = "seal" => b \in files.manifests
    /\ c \in {"point", "record"} => b \in announced

ToolInv ==
    /\ \A p \in Tools : Holds(tool[p], backup[p])
    /\ \A p, q \in Tools :
          tool[p] \in Holding /\ tool[q] \in Holding /\ backup[p] = backup[q] => p = q

\* The reported backups are complete in the directory f.
Kept(f) == announced \subseteq f.artifacts /\ announced \subseteq f.manifests

FileInv == \A f \in lost \cup {files} : Kept(f)

\* The state file of f speaks of connections that its pointer's backup has.
Backed(f) ==
    /\ f.state <= links
    /\ f.state > 0 => f.pointer \in announced /\ archive[f.pointer].links >= f.state

\* What the watcher may rely on at c, with the backup b, having read the digest
\* of the version g.
Watches(c, b, g) ==
    /\ g <= links
    /\ c \in Holding \cup {"point", "record"} =>
          archive[b].links >= g /\ archive[b].links >= files.state
    /\ c = "record" => files.pointer = b

WatchInv ==
    ~workload.restores =>
        /\ undone = {}
        /\ \A f \in lost \cup {files} : Backed(f)
        /\ Watches(tool[Watcher], backup[Watcher], digest)

RestoreInv ==
    /\ restored # 0 => line = restored /\ undone = {}
    /\ backend = "postgresql" => undone = {}

IInv == Types /\ ToolInv /\ FileInv /\ WatchInv /\ RestoreInv

-------------------------------------------------------------------------------
(* The archive. *)

\* No step changes a backup that was made.
Grows ==
    /\ archive' \in Seq(Range(archive'))
    /\ \A i \in DOMAIN archive : i \in DOMAIN archive' /\ archive'[i] = archive[i]

LEMMA SameArchive ==
  ASSUME Types, UNCHANGED archive
  PROVE  Grows
  BY DEF Types, Grows

LEMMA Appended ==
  ASSUME Types, NEW d, archive' = Append(archive, d)
  PROVE  /\ Grows
         /\ Len(archive') = Len(archive) + 1
         /\ DOMAIN archive' = DOMAIN archive \cup {Len(archive')}
         /\ Len(archive') \notin DOMAIN archive
         /\ archive'[Len(archive')] = d
<1> DEFINE all == Range(archive) \cup {d}
<1>1. archive \in Seq(all)
  <2>1. archive \in Seq(Range(archive)) /\ Range(archive) \subseteq all
    BY DEF Types
  <2>2. Len(archive) \in Nat /\ archive \in [1..Len(archive) -> Range(archive)]
    BY <2>1
  <2>3. archive \in [1..Len(archive) -> all]
    BY <2>1, <2>2
  <2>4. QED BY <2>2, <2>3
<1>2. d \in all
  OBVIOUS
<1> HIDE DEF all
<1>3. /\ archive' \in Seq(all)
      /\ Len(archive') = Len(archive) + 1
      /\ \A i \in 1..Len(archive) : archive'[i] = archive[i]
      /\ archive'[Len(archive) + 1] = d
  BY <1>1, <1>2
<1>4. /\ DOMAIN archive = 1..Len(archive) /\ Len(archive) \in Nat
      /\ DOMAIN archive' = 1..Len(archive')
  BY <1>1, <1>3
<1>5. archive' \in Seq(Range(archive'))
  BY <1>3, <1>4 DEF Range
<1>6. QED BY <1>3, <1>4, <1>5 DEF Grows

-------------------------------------------------------------------------------
(* The tools. *)

\* Take writes the place and the backup of one tool.
Take(p, c, b) == Step(p, c) /\ backup' = [backup EXCEPT ![p] = b]

LEMMA TakeWrites ==
  ASSUME Types, NEW p \in Tools, NEW c \in Places, NEW b \in Nat, Take(p, c, b)
  PROVE  /\ tool' \in [Tools -> Places] /\ backup' \in [Tools -> Nat]
         /\ tool'[p] = c /\ backup'[p] = b
         /\ \A q \in Tools \ {p} : tool'[q] = tool[q] /\ backup'[q] = backup[q]
  BY DEF Types, Take, Step

LEMMA StepTakes ==
  ASSUME Types, NEW p \in Tools, NEW c \in Places, Step(p, c), UNCHANGED backup
  PROVE  Take(p, c, backup[p]) /\ backup[p] \in Nat
  BY DEF Types, Take

LEMMA LeaveTakes ==
  ASSUME NEW p \in Tools, Leave(p)
  PROVE  Take(p, "idle", 0) /\ "idle" \in Places /\ 0 \in Nat
  BY DEF Leave, Take, Places

\* The backup that only p works on.
Own(p) == IF tool[p] \in Holding THEN {backup[p]} ELSE {}

\* A step of p leaves alone what the others rely on.
Spares(p) ==
    /\ Grows
    /\ announced \subseteq announced' /\ announced' \subseteq announced \cup Own(p)
    /\ files.artifacts \ Own(p) \subseteq files'.artifacts
    /\ files.manifests \ Own(p) \subseteq files'.manifests

LEMMA ToolsKeep ==
  ASSUME Types, ToolInv, NEW p \in Tools, NEW c \in Places, NEW b \in Nat, Take(p, c, b),
         Spares(p), Holds(c, b)',
         c \in Holding => \A q \in Tools \ {p} : tool[q] \in Holding => backup[q] # b
  PROVE  ToolInv'
<1>1. /\ tool'[p] = c /\ backup'[p] = b
      /\ \A q \in Tools \ {p} : tool'[q] = tool[q] /\ backup'[q] = backup[q]
  BY TakeWrites
<1>2. ASSUME NEW q \in Tools PROVE Holds(tool[q], backup[q])'
  <2>1. CASE q = p
    BY <2>1, <1>1 DEF Holds
  <2>2. CASE q # p
    <3>1. Holds(tool[q], backup[q])
      BY DEF ToolInv
    <3>2. tool[q] \in Holding => backup[q] \notin Own(p)
      BY <2>2 DEF ToolInv, Own
    <3>3. tool'[q] = tool[q] /\ backup'[q] = backup[q]
      BY <2>2, <1>1
    <3>4. QED BY <3>1, <3>2, <3>3 DEF Holds, Spares, Grows, Holding
  <2>3. QED BY <2>1, <2>2
<1>3. ASSUME NEW q \in Tools, NEW r \in Tools,
             tool'[q] \in Holding, tool'[r] \in Holding, backup'[q] = backup'[r]
      PROVE  q = r
  BY <1>1, <1>3 DEF ToolInv
<1>4. QED BY <1>2, <1>3 DEF ToolInv

LEMMA HeldFacts ==
  ASSUME Types, ToolInv, NEW p \in Tools
  PROVE  /\ Holds(tool[p], backup[p])
         /\ tool[p] \in Holding \cup {"point", "record"} => backup[p] \in DOMAIN archive
         /\ tool[p] \in Holding => \A q \in Tools \ {p} :
               tool[q] \in Holding => backup[q] # backup[p]
  BY DEF ToolInv, Types, Holds

-------------------------------------------------------------------------------
(* The directory and the watcher. *)

LEMMA BackedStays ==
  ASSUME Types, Grows, announced \subseteq announced', links' \in Nat, links <= links',
         NEW f \in Directories, Backed(f)
  PROVE  Backed(f)'
<1>1. f.state \in Nat
  BY DEF Directories
<1>2. f.state <= links'
  BY <1>1 DEF Types, Backed
<1>3. f.state > 0 =>
         f.pointer \in announced' /\ archive'[f.pointer] = archive[f.pointer]
  BY DEF Types, Backed, Grows
<1>4. QED BY <1>1, <1>2, <1>3 DEF Backed

LEMMA WatchesStays ==
  ASSUME Types, Grows, links' \in Nat, links <= links',
         files'.state = files.state, files'.pointer = files.pointer,
         NEW c, NEW b, NEW g \in Nat, Watches(c, b, g),
         c \in Holding \cup {"point", "record"} => b \in DOMAIN archive
  PROVE  Watches(c, b, g)'
<1>1. g <= links'
  BY DEF Watches, Types
<1>2. QED BY <1>1 DEF Watches, Grows

\* The directories after a step that installs new files, or takes some back.
LEMMA DirectoriesKeep ==
  ASSUME Types, Grows, announced \subseteq announced', UNCHANGED links,
         \A f \in lost \cup {files} : Backed(f),
         files' \in Directories,
         \A f \in lost' \cup {files'} :
            f \in lost \cup {files} \/ \E g \in lost \cup {files} :
               f \in Directories /\ f.state = g.state /\ f.pointer = g.pointer
  PROVE  (\A f \in lost \cup {files} : Backed(f))'
<1>1. ASSUME NEW f \in lost' \cup {files'} PROVE Backed(f)'
  <2>1. PICK g \in lost \cup {files} : f.state = g.state /\ f.pointer = g.pointer
    BY <1>1
  <2>2. Backed(g)'
    <3>1. g \in Directories /\ links <= links' /\ links' \in Nat
      BY DEF Types
    <3>2. QED BY <3>1, BackedStays
  <2>3. QED BY <2>1, <2>2 DEF Backed
<1>2. QED BY <1>1

-------------------------------------------------------------------------------
(* Steps of one tool that leave the database alone. *)

LEMMA OnlyTools ==
  ASSUME ToolOnly
  PROVE  /\ UNCHANGED <<workload, backend, service, links, sidecar, undone, outages>>
         /\ UNCHANGED <<unreported, line, restored>>
  BY DEF ToolOnly, ledgerVars, fixed, restores

LEMMA ToolMoves ==
  ASSUME IInv, NEW p \in Tools, NEW c \in Places, NEW b \in Nat, Take(p, c, b),
         ToolOnly, Spares(p), Holds(c, b)',
         c \in Holding => \A q \in Tools \ {p} : tool[q] \in Holding => backup[q] # b,
         \A i \in DOMAIN archive' : archive'[i].links \in Nat,
         announced' \subseteq DOMAIN archive',
         files' \in Directories, lost' \subseteq Directories, digest' \in Nat,
         FileInv',
         ~workload.restores =>
            /\ (\A f \in lost \cup {files} : Backed(f))'
            /\ Watches(tool[Watcher], backup[Watcher], digest)'
  PROVE  IInv'
<1>1. /\ UNCHANGED <<workload, backend, links, undone>>
      /\ UNCHANGED <<unreported, line, restored>>
  BY OnlyTools
<1>2. Types'
  BY <1>1, TakeWrites DEF IInv, Types, Spares, Grows
<1>3. ToolInv'
  BY ToolsKeep DEF IInv
<1>4. WatchInv'
  BY <1>1 DEF IInv, WatchInv
<1>5. RestoreInv'
  BY <1>1 DEF IInv, RestoreInv
<1>6. QED BY <1>2, <1>3, <1>4, <1>5 DEF IInv

\* The directories after a step of the tool p that neither moves the pointer nor
\* writes the state.
Makes(p) ==
    /\ files' \in Directories
    /\ files'.state = files.state /\ files'.pointer = files.pointer
    /\ \A f \in lost' \cup {files'} :
          /\ f \in Directories
          /\ announced' \subseteq f.artifacts /\ announced' \subseteq f.manifests
          /\ \/ f \in lost \cup {files}
             \/ f.state = files.state /\ f.pointer = files.pointer

LEMMA MakingMoves ==
  ASSUME IInv, NEW p \in Tools, NEW c \in Places, NEW b \in Nat, Take(p, c, b),
         ToolOnly, Spares(p), Holds(c, b)', Makes(p),
         c \in Holding => \A q \in Tools \ {p} : tool[q] \in Holding => backup[q] # b,
         \A i \in DOMAIN archive' : archive'[i].links \in Nat,
         announced' \subseteq DOMAIN archive',
         digest' \in Nat, p # Watcher => digest' = digest,
         NEW g \in Nat, p = Watcher => digest' = g,
         p = Watcher /\ ~workload.restores => Watches(c, b, g)'
  PROVE  IInv'
<1>1. FileInv'
  BY DEF Makes, FileInv, Kept
<1>2. UNCHANGED <<workload, links>> /\ links <= links' /\ links' \in Nat
  BY OnlyTools DEF IInv, Types
<1>3. Types /\ ToolInv /\ Grows /\ announced \subseteq announced'
  BY DEF IInv, Spares
<1>4. ASSUME ~workload.restores
      PROVE  /\ (\A f \in lost \cup {files} : Backed(f))'
             /\ Watches(tool[Watcher], backup[Watcher], digest)'
  <2>1. (\A f \in lost \cup {files} : Backed(f))'
    <3>1. \A f \in lost \cup {files} : Backed(f)
      BY <1>4 DEF IInv, WatchInv
    <3>2. QED BY <1>2, <1>3, <3>1, DirectoriesKeep DEF Makes
  <2>2. Watches(tool[Watcher], backup[Watcher], digest)'
    <3>1. CASE p = Watcher
      BY <3>1, <1>3, <1>4, TakeWrites DEF Watches
    <3>2. CASE p # Watcher
      <4>1. Watcher \in Tools
        BY DEF Tools
      <4>w. PICK d \in Places, e \in Nat, h \in Nat :
               d = tool[Watcher] /\ e = backup[Watcher] /\ h = digest
        BY <4>1, <1>3 DEF Types
      <4>2. Watches(d, e, h)
        BY <1>4, <4>w DEF IInv, WatchInv
      <4>3. d \in Holding \cup {"point", "record"} => e \in DOMAIN archive
        BY <1>3, <4>1, <4>w, HeldFacts
      <4>4. Watches(d, e, h)'
        BY <1>2, <1>3, <4>2, <4>3, WatchesStays DEF Makes
      <4>5. tool'[Watcher] = d /\ backup'[Watcher] = e /\ digest' = h
        BY <1>3, <3>2, <4>1, <4>w, TakeWrites
      <4>6. QED BY <4>4, <4>5 DEF Watches
    <3>3. QED BY <3>1, <3>2
  <2>3. QED BY <2>1, <2>2
<1>5. files' \in Directories /\ lost' \subseteq Directories
  BY DEF Makes
<1>6. QED BY <1>1, <1>4, <1>5, ToolMoves

-------------------------------------------------------------------------------
(* Making a backup. *)

LEMMA Facts ==
  ASSUME IInv
  PROVE  /\ Types /\ ToolInv /\ files \in Directories /\ digest \in Nat
         /\ announced \subseteq files.artifacts /\ announced \subseteq files.manifests
         /\ \A f \in lost : /\ f \in Directories
                            /\ announced \subseteq f.artifacts
                            /\ announced \subseteq f.manifests
         /\ Operator \in Tools /\ Watcher \in Tools
  BY DEF IInv, Types, FileInv, Kept, Tools

\* What the watcher relies on while it makes its backup does not depend on the
\* step it is at.
LEMMA WatchedBackup ==
  ASSUME IInv, ~workload.restores, tool[Watcher] \in Holding, ToolOnly, UNCHANGED archive,
         files'.state = files.state, NEW c \in Holding \cup {"point"}
  PROVE  Watches(c, backup[Watcher], digest)
         /\ \A b, g : b = backup[Watcher] /\ g = digest => Watches(c, b, g)'
<1>1. UNCHANGED links
  BY OnlyTools
<1>2. Watches(tool[Watcher], backup[Watcher], digest)
  BY DEF IInv, WatchInv
<1>3. QED BY <1>1, <1>2 DEF Watches, Holding

LEMMA StartKeeps ==
  ASSUME IInv, Start
  PROVE  IInv'
<1>1. Types /\ Operator \in Tools /\ Operator # Watcher /\ "copy" \in Places
  BY Facts, ToolAssumption DEF Places
<1>b. PICK b \in Nat : b = backup[Operator]
  BY <1>1 DEF Types
<1>2. Take(Operator, "copy", b)
  BY <1>1, <1>b, StepTakes DEF Start
<1>3. UNCHANGED <<archive, files, lost, digest, announced>> /\ ToolOnly
  BY DEF Start
<1>4. Grows
  BY <1>1, <1>3, SameArchive
<1>5. Spares(Operator) /\ Makes(Operator)
  BY <1>3, <1>4, Facts DEF Spares, Makes
<1>6. Holds("copy", b)' /\ "copy" \notin Holding
  BY DEF Holds, Holding
<1>7. \A i \in DOMAIN archive' : archive'[i].links \in Nat
  BY <1>1, <1>3 DEF Types
<1>8. announced' \subseteq DOMAIN archive' /\ digest' \in Nat
  BY <1>1, <1>3 DEF Types
<1>9. QED BY <1>1, <1>2, <1>3, <1>5, <1>6, <1>7, <1>8, MakingMoves

LEMMA PollKeeps ==
  ASSUME IInv, Poll
  PROVE  IInv'
<1>1. Types /\ Watcher \in Tools /\ "copy" \in Places
  BY Facts DEF Places
<1>b. PICK b \in Nat, g \in Nat : b = backup[Watcher] /\ g = links
  BY <1>1 DEF Types
<1>2. Take(Watcher, "copy", b)
  BY <1>1, <1>b, StepTakes DEF Poll
<1>3. UNCHANGED <<archive, files, lost, announced>> /\ ToolOnly /\ digest' = g
  BY <1>b DEF Poll
<1>4. Grows
  BY <1>1, <1>3, SameArchive
<1>5. Spares(Watcher) /\ Makes(Watcher)
  BY <1>3, <1>4, Facts DEF Spares, Makes
<1>6. Holds("copy", b)' /\ "copy" \notin Holding
  BY DEF Holds, Holding
<1>7. \A i \in DOMAIN archive' : archive'[i].links \in Nat
  BY <1>1, <1>3 DEF Types
<1>8. announced' \subseteq DOMAIN archive' /\ digest' \in Nat
  BY <1>1, <1>3 DEF Types
<1>9. Watches("copy", b, g)'
  BY <1>b, <1>3, OnlyTools DEF Watches, Holding
<1>10. QED BY <1>1, <1>2, <1>3, <1>5, <1>6, <1>7, <1>8, <1>9, MakingMoves

LEMMA CopyKeeps ==
  ASSUME IInv, NEW p \in Tools, Copy(p)
  PROVE  IInv'
<1>1. /\ Types /\ "install" \in Places /\ tool[p] \notin Holding /\ tool[p] = "copy"
      /\ links \in Nat /\ digest \in Nat
  BY Facts DEF Places, Holding, Copy, Types
<1>2. /\ UNCHANGED <<files, lost, digest, announced>> /\ ToolOnly
      /\ archive' = Append(archive, Database)
  BY DEF Copy
<1>3. /\ Grows
      /\ Len(archive') = Len(archive) + 1
      /\ DOMAIN archive' = DOMAIN archive \cup {Len(archive')}
      /\ Len(archive') \notin DOMAIN archive
      /\ archive'[Len(archive')] = Database
  BY <1>1, <1>2, Appended
<1>4. Len(archive') \in Nat
  <2>1. Len(archive) \in Nat
    BY <1>1 DEF Types
  <2>2. QED BY <2>1, <1>3
<1>b. PICK b \in Nat, g \in Nat : b = Len(archive') /\ g = digest
  BY <1>1, <1>4
<1>5. Take(p, "install", b)
  BY <1>b DEF Copy, Take
<1>6. Spares(p) /\ Makes(p)
  BY <1>2, <1>3, Facts DEF Spares, Makes
<1>7. announced \subseteq DOMAIN archive
  BY <1>1 DEF Types
<1>8. Holds("install", b)'
  BY <1>2, <1>3, <1>7, <1>b DEF Holds
<1>9. \A q \in Tools \ {p} : tool[q] \in Holding => backup[q] # b
  BY <1>1, <1>3, <1>b, Facts, HeldFacts
<1>10. \A i \in DOMAIN archive' : archive'[i].links \in Nat
  BY <1>1, <1>3 DEF Types, Grows, Database
<1>11. announced' \subseteq DOMAIN archive' /\ digest' \in Nat
  BY <1>1, <1>2, <1>3, <1>7
<1>12. ASSUME p = Watcher, ~workload.restores PROVE Watches("install", b, g)'
  <2>1. archive'[b].links = links
    BY <1>3, <1>b DEF Database
  <2>2. g <= links /\ files.state <= links
    BY <1>12, <1>b DEF IInv, WatchInv, Watches, Backed
  <2>3. links' = links /\ files' = files
    BY <1>2, OnlyTools
  <2>4. QED BY <2>1, <2>2, <2>3 DEF Watches, Directories
<1>13. QED BY <1>1, <1>2, <1>5, <1>6, <1>8, <1>9, <1>10, <1>11, <1>12, <1>b, MakingMoves

\* A step of a tool that holds a backup, to c, which keeps the backup.
LEMMA HoldingMoves ==
  ASSUME IInv, NEW p \in Tools, tool[p] \in Holding, NEW c \in Holding, Step(p, c),
         ToolOnly, UNCHANGED <<archive, backup, digest, announced>>,
         files.artifacts \subseteq files'.artifacts,
         files.manifests \subseteq files'.manifests,
         Makes(p),
         c \in {"flush", "describe", "seal"} => backup[p] \in files'.artifacts,
         c = "seal" => backup[p] \in files'.manifests
  PROVE  IInv'
<1>1. /\ Types /\ c \in Places /\ Watcher \in Tools
  BY Facts DEF Places, Holding
<1>b. PICK b \in Nat, g \in Nat : b = backup[p] /\ g = digest
  BY <1>1 DEF Types
<1>2. Take(p, c, b)
  BY <1>1, <1>b, StepTakes
<1>3. Spares(p)
  BY <1>1, SameArchive DEF Spares
<1>4. /\ Holds(tool[p], b)
      /\ \A q \in Tools \ {p} : tool[q] \in Holding => backup[q] # b
  BY <1>1, <1>b, Facts, HeldFacts
<1>5. Holds(c, b)'
  BY <1>4, <1>b DEF Holds, Holding
<1>6. \A i \in DOMAIN archive' : archive'[i].links \in Nat
  BY <1>1 DEF Types
<1>7. announced' \subseteq DOMAIN archive' /\ digest' \in Nat
  BY <1>1 DEF Types
<1>8. p = Watcher /\ ~workload.restores => Watches(c, b, g)'
  BY <1>b, WatchedBackup DEF Makes
<1>9. QED BY <1>1, <1>2, <1>3, <1>4, <1>5, <1>6, <1>7, <1>8, <1>b, MakingMoves

\* The directories after the step that installs f.
LEMMA RenameMakes ==
  ASSUME IInv, NEW p \in Tools, NEW f \in Directories, Rename(f),
         UNCHANGED announced,
         files.artifacts \subseteq f.artifacts, files.manifests \subseteq f.manifests,
         f.state = files.state, f.pointer = files.pointer
  PROVE  Makes(p)
  BY Facts DEF Rename, Makes

LEMMA FlushMakes ==
  ASSUME IInv, NEW p \in Tools, Flush, UNCHANGED announced
  PROVE  Makes(p)
  BY Facts DEF Flush, Makes

LEMMA InstallKeeps ==
  ASSUME IInv, NEW p \in Tools, Install(p)
  PROVE  IInv'
<1>1. /\ tool[p] \in Holding /\ "flush" \in Holding /\ files \in Directories
      /\ backup[p] \in Nat
  BY Facts DEF Install, Holding, Types
<1>f. PICK f : f = [files EXCEPT !.artifacts = @ \cup {backup[p]}]
  OBVIOUS
<1>2. /\ f \in Directories /\ f.artifacts = files.artifacts \cup {backup[p]}
      /\ f.manifests = files.manifests
      /\ f.state = files.state /\ f.pointer = files.pointer
  BY <1>1, <1>f DEF Directories
<1>3. Rename(f) /\ Step(p, "flush") /\ ToolOnly
      /\ UNCHANGED <<archive, backup, digest, announced>>
  BY <1>f DEF Install
<1>4. Makes(p)
  BY <1>2, <1>3, RenameMakes
<1>5. files' = f
  BY <1>3 DEF Rename
<1>6. QED BY <1>1, <1>2, <1>3, <1>4, <1>5, HoldingMoves

LEMMA FlushArtifactKeeps ==
  ASSUME IInv, NEW p \in Tools, FlushArtifact(p)
  PROVE  IInv'
<1>1. tool[p] \in Holding /\ "describe" \in Holding /\ Holds(tool[p], backup[p])
  BY Facts, HeldFacts DEF FlushArtifact, Holding
<1>2. /\ Flush /\ Step(p, "describe") /\ ToolOnly
      /\ UNCHANGED <<archive, backup, digest, announced>>
  BY DEF FlushArtifact
<1>3. Makes(p) /\ UNCHANGED files
  BY <1>2, FlushMakes DEF Flush
<1>4. backup[p] \in files'.artifacts
  BY <1>1, <1>3 DEF Holds, FlushArtifact
<1>5. QED BY <1>1, <1>2, <1>3, <1>4, HoldingMoves

LEMMA DescribeKeeps ==
  ASSUME IInv, NEW p \in Tools, Describe(p)
  PROVE  IInv'
<1>1. /\ tool[p] \in Holding /\ "seal" \in Holding /\ files \in Directories
      /\ backup[p] \in Nat /\ backup[p] \in files.artifacts
  BY Facts, HeldFacts DEF Describe, Holding, Types, Holds
<1>f. PICK f : f = [files EXCEPT !.manifests = @ \cup {backup[p]}]
  OBVIOUS
<1>2. /\ f \in Directories /\ f.manifests = files.manifests \cup {backup[p]}
      /\ f.artifacts = files.artifacts
      /\ f.state = files.state /\ f.pointer = files.pointer
  BY <1>1, <1>f DEF Directories
<1>3. Rename(f) /\ Step(p, "seal") /\ ToolOnly
      /\ UNCHANGED <<archive, backup, digest, announced>>
  BY <1>f DEF Describe
<1>4. Makes(p)
  BY <1>2, <1>3, RenameMakes
<1>5. files' = f
  BY <1>3 DEF Rename
<1>6. QED BY <1>1, <1>2, <1>3, <1>4, <1>5, HoldingMoves

\* A tool that is done, or fails, or is killed, relies on nothing.
LEMMA LeavingMoves ==
  ASSUME IInv, NEW p \in Tools, Leave(p), ToolOnly, Spares(p), Makes(p), UNCHANGED archive
  PROVE  IInv'
<1>1. Types /\ announced \subseteq DOMAIN archive /\ digest \in Nat
  BY Facts DEF Types
<1>2. Take(p, "idle", 0) /\ "idle" \in Places /\ 0 \in Nat
  BY LeaveTakes
<1>3. Holds("idle", 0)' /\ "idle" \notin Holding
  BY DEF Holds, Holding
<1>4. \A i \in DOMAIN archive' : archive'[i].links \in Nat
  BY <1>1 DEF Types
<1>5. announced' \subseteq DOMAIN archive'
  BY <1>1, HeldFacts, Facts DEF Spares, Own
<1>6. digest' \in Nat /\ (p # Watcher => digest' = digest) /\ (p = Watcher => digest' = 0)
  BY <1>1 DEF Leave
<1>7. Watches("idle", 0, 0)'
  <2>1. links' \in Nat
    BY <1>1, OnlyTools DEF Types
  <2>2. QED BY <2>1 DEF Watches, Holding
<1>8. QED BY <1>1, <1>2, <1>3, <1>4, <1>5, <1>6, <1>7, MakingMoves

LEMMA SealKeeps ==
  ASSUME IInv, NEW p \in Tools, Seal(p)
  PROVE  IInv'
<1>1. /\ Types /\ tool[p] \in Holding /\ tool[p] = "seal" /\ "point" \in Places
      /\ backup[p] \in DOMAIN archive
      /\ backup[p] \in files.artifacts /\ backup[p] \in files.manifests
  BY Facts, HeldFacts DEF Seal, Holding, Holds, Places
<1>2. /\ UNCHANGED <<archive, files>> /\ ToolOnly /\ lost' = {}
      /\ announced' = announced \cup {backup[p]}
  BY DEF Seal, Flush
<1>3. Grows
  BY <1>1, <1>2, SameArchive
<1>4. Spares(p)
  BY <1>1, <1>2, <1>3 DEF Spares, Own
<1>5. Makes(p)
  BY <1>1, <1>2, Facts DEF Makes
<1>6. CASE p # Watcher
  <2>1. Leave(p)
    BY <1>6 DEF Seal
  <2>2. QED BY <2>1, <1>2, <1>4, <1>5, LeavingMoves
<1>7. CASE p = Watcher
  <2>b. PICK b \in Nat, g \in Nat : b = backup[p] /\ g = digest
    BY <1>1 DEF Types
  <2>1. Step(p, "point") /\ UNCHANGED <<backup, digest>>
    BY <1>7 DEF Seal
  <2>2. Take(p, "point", b)
    BY <1>1, <2>1, <2>b, StepTakes
  <2>3. Holds("point", b)' /\ "point" \notin Holding
    BY <1>2, <2>b DEF Holds, Holding
  <2>4. \A i \in DOMAIN archive' : archive'[i].links \in Nat
    BY <1>1, <1>2 DEF Types
  <2>5. announced' \subseteq DOMAIN archive' /\ digest' \in Nat
    BY <1>1, <1>2, <2>1 DEF Types
  <2>6. ~workload.restores => Watches("point", b, g)'
    BY <1>1, <1>2, <1>7, <2>b, WatchedBackup
  <2>7. QED BY <1>1, <1>2, <1>4, <1>5, <2>1, <2>2, <2>3, <2>4, <2>5, <2>6, <2>b,
               MakingMoves
<1>8. QED BY <1>6, <1>7

LEMMA FailsKeeps ==
  ASSUME IInv, NEW p \in Tools, Fails(p)
  PROVE  IInv'
<1>1. Types /\ files \in Directories /\ Holds(tool[p], backup[p])
  BY Facts, HeldFacts
<1>2. UNCHANGED <<archive, announced>> /\ ToolOnly /\ Leave(p)
  BY DEF Fails
<1>3. Grows
  BY <1>1, <1>2, SameArchive
<1>4. CASE tool[p] = "copy"
  <2>1. UNCHANGED <<files, lost>>
    BY <1>4 DEF Fails
  <2>2. Spares(p) /\ Makes(p)
    BY <2>1, <1>2, <1>3, Facts DEF Spares, Makes
  <2>3. QED BY <2>2, <1>2, LeavingMoves
<1>5. CASE tool[p] # "copy"
  <2>1. tool[p] \in Holding /\ backup[p] \notin announced
    BY <1>1, <1>5 DEF Fails, Making, Holding, Holds
  <2>f. PICK f : f = [files EXCEPT !.artifacts = @ \ {backup[p]}]
    OBVIOUS
  <2>g. PICK g : g = [f EXCEPT !.manifests = @ \ {backup[p]}]
    OBVIOUS
  <2>2. files' = g /\ lost' = lost \cup {files, f}
    BY <1>5, <2>f, <2>g DEF Fails
  <2>3. /\ f \in Directories /\ f.artifacts = files.artifacts \ {backup[p]}
        /\ f.manifests = files.manifests
        /\ f.state = files.state /\ f.pointer = files.pointer
    BY <1>1, <2>f DEF Directories
  <2>4. /\ g \in Directories /\ g.artifacts = files.artifacts \ {backup[p]}
        /\ g.manifests = files.manifests \ {backup[p]}
        /\ g.state = files.state /\ g.pointer = files.pointer
    BY <2>3, <2>g DEF Directories
  <2>5. Spares(p)
    BY <2>1, <2>2, <2>4, <1>2, <1>3 DEF Spares, Own
  <2>6. Makes(p)
    BY <2>1, <2>2, <2>3, <2>4, <1>2, Facts DEF Makes
  <2>7. QED BY <2>5, <2>6, <1>2, LeavingMoves
<1>6. QED BY <1>4, <1>5

LEMMA KilledKeeps ==
  ASSUME IInv, NEW p \in Tools, Killed(p)
  PROVE  IInv'
<1>1. UNCHANGED <<archive, files, lost, announced>> /\ ToolOnly /\ Leave(p)
  BY DEF Killed
<1>2. Grows
  BY <1>1, Facts, SameArchive
<1>3. Spares(p) /\ Makes(p)
  BY <1>1, <1>2, Facts DEF Spares, Makes
<1>4. QED BY <1>1, <1>3, LeavingMoves

-------------------------------------------------------------------------------
(* The pointer and the state file. *)

LEMMA PointKeeps ==
  ASSUME IInv, Point
  PROVE  IInv'
<1>1. /\ Types /\ Watcher \in Tools /\ "record" \in Places /\ files \in Directories
      /\ tool[Watcher] = "point"
      /\ backup[Watcher] \in announced
  BY Facts, HeldFacts DEF Places, Point, Holds
<1>b. PICK b \in Nat, g \in Nat : b = backup[Watcher] /\ g = digest
  BY <1>1 DEF Types
<1>f. PICK f : f = [files EXCEPT !.pointer = b]
  OBVIOUS
<1>2. /\ f \in Directories /\ f.pointer = b /\ f.state = files.state
      /\ f.artifacts = files.artifacts /\ f.manifests = files.manifests
  BY <1>1, <1>b, <1>f DEF Directories
<1>3. /\ files' = f /\ lost' = lost \cup {files} /\ Step(Watcher, "record") /\ ToolOnly
      /\ UNCHANGED <<archive, backup, digest, announced>>
  BY <1>b, <1>f DEF Point, Rename
<1>4. Take(Watcher, "record", b)
  BY <1>1, <1>3, <1>b, StepTakes
<1>5. Grows
  BY <1>1, <1>3, SameArchive
<1>6. Spares(Watcher)
  BY <1>2, <1>3, <1>5 DEF Spares
<1>7. Holds("record", b)' /\ "record" \notin Holding
  BY <1>1, <1>3, <1>b DEF Holds, Holding
<1>8. FileInv'
  BY <1>2, <1>3, Facts DEF FileInv, Kept
<1>9. ASSUME ~workload.restores
      PROVE  /\ (\A d \in lost \cup {files} : Backed(d))'
             /\ Watches(tool[Watcher], backup[Watcher], digest)'
  <2>1. /\ \A d \in lost \cup {files} : Backed(d)
        /\ g <= links /\ archive[b].links >= g /\ archive[b].links >= files.state
    BY <1>1, <1>9, <1>b DEF IInv, WatchInv, Watches
  <2>2. links' = links /\ tool'[Watcher] = "record"
    BY <1>1, <1>3, <1>4, OnlyTools, TakeWrites
  <2>3. Backed(f)
    BY <1>1, <1>2, <1>b, <2>1 DEF Backed
  <2>4. (\A d \in lost \cup {files} : Backed(d))'
    BY <1>3, <2>1, <2>2, <2>3 DEF Backed
  <2>5. QED BY <1>2, <1>3, <1>b, <2>1, <2>2, <2>4 DEF Watches
<1>10. \A i \in DOMAIN archive' : archive'[i].links \in Nat
  BY <1>1, <1>3 DEF Types
<1>11. /\ announced' \subseteq DOMAIN archive' /\ digest' \in Nat
       /\ files' \in Directories /\ lost' \subseteq Directories
  BY <1>1, <1>2, <1>3 DEF Types
<1>12. QED BY <1>1, <1>3, <1>4, <1>6, <1>7, <1>8, <1>9, <1>10, <1>11, ToolMoves

LEMMA RecordKeeps ==
  ASSUME IInv, Record
  PROVE  IInv'
<1>1. /\ Types /\ Watcher \in Tools /\ files \in Directories
      /\ tool[Watcher] = "record"
      /\ backup[Watcher] \in announced /\ announced \subseteq DOMAIN archive
  BY Facts, HeldFacts DEF Record, Holds, Types
<1>b. PICK b \in Nat, g \in Nat : b = backup[Watcher] /\ g = digest
  BY <1>1 DEF Types
<1>f. PICK f : f = [files EXCEPT !.state = g]
  OBVIOUS
<1>2. /\ f \in Directories /\ f.pointer = files.pointer /\ f.state = g
      /\ f.artifacts = files.artifacts /\ f.manifests = files.manifests
  BY <1>1, <1>b, <1>f DEF Directories
<1>3. /\ files' = f /\ lost' = lost \cup {files} /\ Leave(Watcher) /\ ToolOnly
      /\ UNCHANGED <<archive, announced>>
  BY <1>b, <1>f DEF Record, Rename, NotedDigest
<1>4. Take(Watcher, "idle", 0) /\ "idle" \in Places /\ 0 \in Nat /\ digest' = 0
  BY <1>1, <1>3, LeaveTakes DEF Leave
<1>5. Grows
  BY <1>1, <1>3, SameArchive
<1>6. Spares(Watcher)
  BY <1>2, <1>3, <1>5 DEF Spares
<1>7. Holds("idle", 0)' /\ "idle" \notin Holding
  BY DEF Holds, Holding
<1>8. FileInv'
  BY <1>2, <1>3, Facts DEF FileInv, Kept
<1>9. ASSUME ~workload.restores
      PROVE  /\ (\A d \in lost \cup {files} : Backed(d))'
             /\ Watches(tool[Watcher], backup[Watcher], digest)'
  <2>1. /\ \A d \in lost \cup {files} : Backed(d)
        /\ g <= links /\ archive[b].links >= g /\ files.pointer = b
    BY <1>1, <1>9, <1>b DEF IInv, WatchInv, Watches
  <2>2. links' = links /\ tool'[Watcher] = "idle" /\ links \in Nat
    BY <1>1, <1>3, <1>4, OnlyTools, TakeWrites DEF Types
  <2>3. Backed(f)
    BY <1>1, <1>2, <1>b, <2>1 DEF Backed
  <2>4. (\A d \in lost \cup {files} : Backed(d))'
    BY <1>3, <2>1, <2>2, <2>3 DEF Backed
  <2>5. QED BY <1>4, <2>2, <2>4 DEF Watches, Holding
<1>10. \A i \in DOMAIN archive' : archive'[i].links \in Nat
  BY <1>1, <1>3 DEF Types
<1>11. /\ announced' \subseteq DOMAIN archive' /\ digest' \in Nat
       /\ files' \in Directories /\ lost' \subseteq Directories
  BY <1>1, <1>2, <1>3, <1>4 DEF Types
<1>12. QED BY <1>1, <1>3, <1>4, <1>6, <1>7, <1>8, <1>9, <1>10, <1>11, ToolMoves

-------------------------------------------------------------------------------
(* The service. *)

\* The other variables of the backups: what the service does not write.
kept == <<archive, files, lost, tool, backup, digest, undone, announced, line, restored>>

LEMMA ServiceKeeps ==
  ASSUME IInv, UNCHANGED <<workload, backend>>, UNCHANGED kept,
         links' \in Nat, links <= links'
  PROVE  IInv'
<1>1. /\ Types /\ ToolInv /\ FileInv /\ WatchInv /\ RestoreInv
      /\ UNCHANGED <<archive, files, lost, tool, backup>>
      /\ UNCHANGED <<digest, undone, announced, line, restored>>
  BY DEF IInv, kept
<1>2. Types'
  BY <1>1 DEF Types
<1>3. ToolInv' /\ FileInv' /\ RestoreInv'
  BY <1>1 DEF ToolInv, Holds, FileInv, Kept, RestoreInv
<1>4. WatchInv'
  <2>1. SUFFICES ASSUME ~workload.restores
                 PROVE  /\ undone' = {}
                        /\ (\A f \in lost \cup {files} : Backed(f))'
                        /\ Watches(tool[Watcher], backup[Watcher], digest)'
    BY <1>1 DEF WatchInv
  <2>2. /\ undone = {} /\ \A f \in lost \cup {files} : Backed(f)
        /\ Watches(tool[Watcher], backup[Watcher], digest)
    BY <1>1, <2>1 DEF WatchInv
  <2>3. digest' <= links'
    BY <1>1, <2>2 DEF Types, Watches
  <2>4. ASSUME NEW f \in lost \cup {files} PROVE Backed(f)'
    <3>1. f.state \in Nat /\ links \in Nat
      BY <1>1 DEF Types, Directories
    <3>2. QED BY <1>1, <2>2, <3>1 DEF Backed
  <2>5. QED BY <1>1, <2>2, <2>3, <2>4 DEF Watches
<1>5. QED BY <1>2, <1>3, <1>4 DEF IInv

LEMMA LedgerKeepsFixed ==
  /\ LedgerStep => UNCHANGED <<workload, backend>>
  /\ Open => UNCHANGED <<workload, backend>>
  /\ Stop => UNCHANGED <<workload, backend>>
<1>1. LedgerStep => UNCHANGED <<workload, backend>>
  BY DEF LedgerStep, Corrupt, Begin, AppendSqlite, LockChain, ReadHeadRow, Insert,
         CommitPostgres, Rollback, Page, ReadRows, Verify, Answer, fixed
<1>2. QED BY <1>1 DEF Open, Stop, fixed

LEMMA AroundKeeps ==
  ASSUME IInv, Ledger \/ Serve \/ Halt \/ Link
  PROVE  IInv'
<1>1. links \in Nat
  BY Facts DEF Types
<1>2. CASE Ledger
  <2>1. UNCHANGED <<workload, backend>> /\ UNCHANGED links /\ UNCHANGED kept
    BY <1>2, LedgerKeepsFixed DEF Ledger, backupVars, kept, restores
  <2>2. QED BY <1>1, <2>1, ServiceKeeps
<1>3. CASE Serve
  <2>1. UNCHANGED <<workload, backend>> /\ UNCHANGED links /\ UNCHANGED kept
    BY <1>3, LedgerKeepsFixed DEF Serve, kept, restores
  <2>2. QED BY <1>1, <2>1, ServiceKeeps
<1>4. CASE Halt
  <2>1. UNCHANGED <<workload, backend>> /\ UNCHANGED links /\ UNCHANGED kept
    BY <1>4, LedgerKeepsFixed DEF Halt, kept, restores
  <2>2. QED BY <1>1, <2>1, ServiceKeeps
<1>5. CASE Link
  <2>1. UNCHANGED <<workload, backend>> /\ links' = links + 1 /\ UNCHANGED kept
    BY <1>5 DEF Link, kept, restores, ledgerVars, fixed
  <2>2. QED BY <1>1, <2>1, ServiceKeeps
<1>6. QED BY <1>2, <1>3, <1>4, <1>5

-------------------------------------------------------------------------------
(* Restoring a backup, and losing power. *)

LEMMA BecomesWrites ==
  ASSUME NEW copy, NEW from, Becomes(copy, from)
  PROVE  links' = copy.links /\ line' = from /\ UNCHANGED <<workload, backend>>
  BY DEF Becomes, fixed

LEMMA RestoreKeeps ==
  ASSUME IInv, NEW i \in DOMAIN archive, RestoreSqlite(i) \/ RestorePostgres(i)
  PROVE  IInv'
<1>1. /\ Types /\ Operator \in Tools /\ Operator # Watcher /\ "sync" \in Places
      /\ i \in Nat
  <2>1. i \in Nat
    <3>1. archive \in Seq(Range(archive))
      BY Facts DEF Types
    <3>2. QED BY <3>1
  <2>2. QED BY <2>1, Facts, ToolAssumption DEF Places
<1>2. workload.restores
  BY DEF RestoreSqlite, RestorePostgres, Restorable
<1>3. UNCHANGED <<archive, files, lost, digest, announced>>
  BY DEF RestoreSqlite, RestorePostgres
<1>4. Becomes(archive[i], i)
  BY DEF RestoreSqlite, RestorePostgres
<1>5. links' \in Nat /\ line' = i /\ UNCHANGED <<workload, backend>>
  BY <1>1, <1>4, BecomesWrites DEF Types
<1>6. FileInv'
  BY <1>3 DEF IInv, FileInv, Kept
<1>7. WatchInv'
  BY <1>2, <1>5 DEF WatchInv
<1>8. CASE RestoreSqlite(i)
  <2>1. /\ Take(Operator, "sync", i) /\ undone' = undone \cup {Database}
        /\ backend = "sqlite" /\ restored' = 0
    BY <1>8 DEF RestoreSqlite, Take
  <2>2. Database.links \in Nat
    BY <1>1 DEF Types, Database
  <2>3. Types'
    BY <1>1, <1>3, <1>5, <2>1, <2>2, TakeWrites DEF Types
  <2>4. ToolInv'
    <3>1. Spares(Operator)
      BY <1>1, <1>3, SameArchive DEF Spares
    <3>2. Holds("sync", i)' /\ "sync" \notin Holding
      BY DEF Holds, Holding
    <3>3. QED BY <1>1, <2>1, <3>1, <3>2, Facts, ToolsKeep
  <2>5. RestoreInv'
    BY <1>5, <2>1 DEF RestoreInv
  <2>6. QED BY <1>6, <1>7, <2>3, <2>4, <2>5 DEF IInv
<1>9. CASE RestorePostgres(i)
  <2>1. UNCHANGED <<tool, backup, undone>> /\ backend = "postgresql" /\ restored' = i
    BY <1>9 DEF RestorePostgres
  <2>2. Types'
    BY <1>1, <1>3, <1>5, <2>1 DEF Types
  <2>3. ToolInv'
    BY <1>3, <2>1 DEF IInv, ToolInv, Holds
  <2>4. RestoreInv'
    BY <1>5, <2>1 DEF IInv, RestoreInv
  <2>5. QED BY <1>6, <1>7, <2>2, <2>3, <2>4 DEF IInv
<1>10. QED BY <1>8, <1>9

LEMMA SyncKeeps ==
  ASSUME IInv, Sync
  PROVE  IInv'
<1>1. Types /\ Operator \in Tools /\ Operator # Watcher
  BY Facts, ToolAssumption
<1>2. /\ UNCHANGED <<workload, backend, links, archive, files, lost, announced>>
      /\ undone' = {} /\ restored' = line /\ line' = line /\ Leave(Operator)
  BY DEF Sync, ledgerVars, fixed
<1>3. /\ Take(Operator, "idle", 0) /\ "idle" \in Places /\ 0 \in Nat
      /\ digest' = digest
  BY <1>1, <1>2, LeaveTakes DEF Leave
<1>4. Types'
  BY <1>1, <1>2, <1>3, TakeWrites DEF Types
<1>5. ToolInv'
  <2>1. Spares(Operator)
    BY <1>1, <1>2, SameArchive DEF Spares
  <2>2. Holds("idle", 0)' /\ "idle" \notin Holding
    BY DEF Holds, Holding
  <2>3. QED BY <1>1, <1>3, <2>1, <2>2, Facts, ToolsKeep
<1>6. FileInv' /\ RestoreInv'
  BY <1>2 DEF IInv, FileInv, Kept, RestoreInv
<1>7. WatchInv'
  <2>1. tool'[Watcher] = tool[Watcher] /\ backup'[Watcher] = backup[Watcher]
    BY <1>1, <1>3, Facts, TakeWrites
  <2>2. QED BY <1>2, <1>3, <2>1 DEF IInv, WatchInv, Watches, Backed
<1>8. QED BY <1>4, <1>5, <1>6, <1>7 DEF IInv

LEMMA PowerLossKeeps ==
  ASSUME IInv, PowerLoss
  PROVE  IInv'
<1>1. Types /\ Operator \in Tools /\ Watcher \in Tools
  BY Facts
<1>2. /\ files' \in lost \cup {files} /\ lost' = {} /\ digest' = 0 /\ undone' = {}
      /\ tool' = [p \in Tools |-> "idle"] /\ backup' = [p \in Tools |-> 0]
      /\ UNCHANGED <<archive, announced, restored>>
  BY DEF PowerLoss
<1>3. /\ UNCHANGED <<workload, backend>> /\ links' \in Nat
      /\ UNCHANGED <<links, line>> \/ undone # {}
  <2>1. CASE UNCHANGED <<ledgerVars, links, line>>
    BY <1>1, <2>1 DEF ledgerVars, fixed, Types
  <2>2. CASE \E old \in undone : Becomes(old, old.line)
    BY <1>1, <2>2, BecomesWrites DEF Types
  <2>3. QED BY <2>1, <2>2 DEF PowerLoss
<1>4. Types'
  BY <1>1, <1>2, <1>3 DEF Types, Places
<1>5. ToolInv'
  BY <1>2 DEF ToolInv, Holds, Holding
<1>6. FileInv'
  BY <1>2 DEF IInv, FileInv, Kept
<1>7. WatchInv'
  <2>1. SUFFICES ASSUME ~workload.restores
                 PROVE  /\ undone' = {}
                        /\ (\A f \in lost \cup {files} : Backed(f))'
                        /\ Watches(tool[Watcher], backup[Watcher], digest)'
    BY <1>3 DEF WatchInv
  <2>2. undone = {} /\ \A f \in lost \cup {files} : Backed(f)
    BY <2>1 DEF IInv, WatchInv
  <2>3. links' = links
    BY <1>3, <2>2
  <2>4. (\A f \in lost \cup {files} : Backed(f))'
    BY <1>2, <2>2, <2>3 DEF Backed
  <2>5. Watches(tool[Watcher], backup[Watcher], digest)'
    BY <1>1, <1>2, <1>3 DEF Watches, Holding
  <2>6. QED BY <1>2, <2>4, <2>5
<1>8. RestoreInv'
  BY <1>2, <1>3 DEF IInv, RestoreInv
<1>9. QED BY <1>4, <1>5, <1>6, <1>7, <1>8 DEF IInv

-------------------------------------------------------------------------------
(* Rows in their order. *)

\* The numbers of the rows of R order them.
Ordered(R) ==
    /\ IsFiniteSet(R)
    /\ \A r \in R : r.sequence \in Nat
    /\ \A q, r \in R : q.sequence = r.sequence => q = r

UpTo(R, r) == {q \in R : q.sequence <= r.sequence}

Rank(R, r) == Cardinality(UpTo(R, r))

LEMMA OrderedPart ==
  ASSUME NEW R, Ordered(R), NEW Q \in SUBSET R
  PROVE  Ordered(Q)
  BY FS_Subset DEF Ordered

LEMMA RankFacts ==
  ASSUME NEW R, Ordered(R)
  PROVE  /\ Cardinality(R) \in Nat
         /\ \A r \in R : Rank(R, r) \in 1..Cardinality(R)
         /\ \A q, r \in R : q.sequence < r.sequence => Rank(R, q) < Rank(R, r)
         /\ \A q, r \in R : Rank(R, q) = Rank(R, r) => q = r
<1>1. IsFiniteSet(R) /\ Cardinality(R) \in Nat
  BY FS_CardinalityType DEF Ordered
<1>2. ASSUME NEW r \in R
      PROVE  /\ IsFiniteSet(UpTo(R, r)) /\ Rank(R, r) \in Nat
             /\ Rank(R, r) <= Cardinality(R) /\ r \in UpTo(R, r) /\ Rank(R, r) # 0
  <2>1. UpTo(R, r) \in SUBSET R /\ r \in UpTo(R, r)
    BY DEF UpTo, Ordered
  <2>2. IsFiniteSet(UpTo(R, r)) /\ Rank(R, r) <= Cardinality(R)
    BY <1>1, <2>1, FS_Subset DEF Rank
  <2>3. Rank(R, r) \in Nat /\ (Rank(R, r) = 0 => UpTo(R, r) = {})
    BY <2>2, FS_CardinalityType, FS_EmptySet DEF Rank
  <2>4. QED BY <2>1, <2>2, <2>3
<1>3. ASSUME NEW q \in R, NEW r \in R, q.sequence < r.sequence
      PROVE  Rank(R, q) < Rank(R, r)
  <2>1. UpTo(R, q) \in SUBSET UpTo(R, r) /\ r \notin UpTo(R, q) /\ r \in UpTo(R, r)
    BY <1>3 DEF UpTo, Ordered
  <2>2. Rank(R, q) <= Rank(R, r) /\ Rank(R, q) # Rank(R, r)
    BY <1>2, <2>1, FS_Subset DEF Rank
  <2>3. QED BY <1>2, <2>2
<1>4. ASSUME NEW q \in R, NEW r \in R, Rank(R, q) = Rank(R, r)
      PROVE  q = r
  <2>1. q.sequence \in Nat /\ r.sequence \in Nat
    BY DEF Ordered
  <2>2. Rank(R, q) \in Nat
    BY <1>2
  <2>3. ~(q.sequence < r.sequence) /\ ~(r.sequence < q.sequence)
    BY <1>3, <1>4, <2>2
  <2>4. QED BY <2>1, <2>3 DEF Ordered
<1>5. QED BY <1>1, <1>2, <1>3, <1>4

LEMMA RankOnto ==
  ASSUME NEW R, Ordered(R), NEW i \in 1..Cardinality(R)
  PROVE  \E r \in R : Rank(R, r) = i
<1> DEFINE f == [r \in R |-> Rank(R, r)]
           n == Cardinality(R)
<1>1. f \in Injection(R, 1..n)
  BY RankFacts DEF Injection, IsInjective
<1>2. IsFiniteSet(1..n) /\ Cardinality(1..n) = n
  BY RankFacts, FS_Interval
<1>3. f \in Surjection(R, 1..n)
  BY <1>1, <1>2, FS_Injection
<1>4. QED BY <1>3 DEF Surjection

LEMMA InOrderFacts ==
  ASSUME NEW R, Ordered(R)
  PROVE  /\ InOrder(R) \in [1..Cardinality(R) -> R]
         /\ InOrder(R) \in Seq(R) /\ Len(InOrder(R)) = Cardinality(R)
         /\ \A i \in 1..Cardinality(R) : Rank(R, InOrder(R)[i]) = i
         /\ \A r \in R : InOrder(R)[Rank(R, r)] = r
<1>1. ASSUME NEW i \in 1..Cardinality(R)
      PROVE  InOrder(R)[i] \in R /\ Rank(R, InOrder(R)[i]) = i
  <2>1. \E r \in R : Cardinality({q \in R : q.sequence <= r.sequence}) = i
    BY RankOnto DEF Rank, UpTo
  <2>2. InOrder(R)[i] = CHOOSE r \in R : Cardinality({q \in R : q.sequence <= r.sequence}) = i
    BY DEF InOrder
  <2>3. QED BY <2>1, <2>2 DEF Rank, UpTo
<1>2. InOrder(R) \in [1..Cardinality(R) -> R]
  BY <1>1 DEF InOrder
<1>3. \A r \in R : InOrder(R)[Rank(R, r)] = r
  BY <1>1, RankFacts
<1>4. InOrder(R) \in Seq(R) /\ Len(InOrder(R)) = Cardinality(R)
  BY <1>2, RankFacts
<1>5. QED BY <1>1, <1>2, <1>3, <1>4

\* A row after the others is the last of all.
LEMMA InOrderAdd ==
  ASSUME NEW R, Ordered(R), NEW x, x.sequence \in Nat,
         \A r \in R : r.sequence < x.sequence
  PROVE  /\ Ordered(R \cup {x})
         /\ InOrder(R \cup {x}) = Append(InOrder(R), x)
<1> DEFINE Q == R \cup {x}
           n == Cardinality(R)
<1>1. x \notin R
  BY DEF Ordered
<1>2. Ordered(Q)
  <2>1. IsFiniteSet(Q)
    BY FS_AddElement DEF Ordered
  <2>2. \A r \in Q : r.sequence \in Nat
    BY DEF Ordered
  <2>3. ASSUME NEW q \in Q, NEW r \in Q, q.sequence = r.sequence PROVE q = r
    <3>1. CASE q \in R /\ r \in R
      BY <2>3, <3>1 DEF Ordered
    <3>2. CASE q = x /\ r = x
      BY <3>2
    <3>3. CASE q = x /\ r \in R
      <4>1. r.sequence < q.sequence /\ r.sequence \in Nat
        BY <3>3 DEF Ordered
      <4>2. QED BY <2>3, <4>1
    <3>4. CASE q \in R /\ r = x
      <4>1. q.sequence < r.sequence /\ q.sequence \in Nat
        BY <3>4 DEF Ordered
      <4>2. QED BY <2>3, <4>1
    <3>5. QED BY <3>1, <3>2, <3>3, <3>4
  <2>4. QED BY <2>1, <2>2, <2>3 DEF Ordered
<1>3. n \in Nat /\ Cardinality(Q) = n + 1
  BY <1>1, RankFacts, FS_AddElement DEF Ordered
<1>4. ASSUME NEW r \in R PROVE Rank(Q, r) = Rank(R, r)
  <2>1. UpTo(Q, r) = UpTo(R, r)
    BY DEF UpTo, Ordered
  <2>2. QED BY <2>1 DEF Rank
<1>5. Rank(Q, x) = n + 1
  <2>1. UpTo(Q, x) = Q
    BY DEF UpTo, Ordered
  <2>2. QED BY <1>3, <2>1 DEF Rank
<1>6. ASSUME NEW i \in 1..(n + 1)
      PROVE  InOrder(Q)[i] = IF i <= n THEN InOrder(R)[i] ELSE x
  <2>1. CASE i <= n
    <3>1. i \in 1..n
      BY <1>3, <2>1
    <3>2. InOrder(R)[i] \in R /\ Rank(R, InOrder(R)[i]) = i
      BY <3>1, InOrderFacts
    <3>3. Rank(Q, InOrder(R)[i]) = i
      BY <1>4, <3>2
    <3>4. InOrder(Q)[Rank(Q, InOrder(R)[i])] = InOrder(R)[i]
      BY <1>2, <3>2, InOrderFacts
    <3>5. QED BY <2>1, <3>3, <3>4
  <2>2. CASE ~(i <= n)
    <3>1. i = n + 1
      BY <1>3, <2>2
    <3>2. InOrder(Q)[Rank(Q, x)] = x
      BY <1>2, InOrderFacts
    <3>3. QED BY <1>5, <2>2, <3>1, <3>2
  <2>3. QED BY <2>1, <2>2
<1>7. InOrder(Q) = Append(InOrder(R), x)
  <2> DEFINE s == InOrder(R)
             u == InOrder(Q)
  <2>1. s \in Seq(Q) /\ Len(s) = n
    BY InOrderFacts
  <2>2. u \in Seq(Q) /\ Len(u) = n + 1
    BY <1>2, <1>3, InOrderFacts
  <2>3. \A i \in 1..(n + 1) : u[i] = IF i <= n THEN s[i] ELSE x
    BY <1>6
  <2>4. x \in Q
    OBVIOUS
  <2> HIDE DEF s, u, Q, n
  <2>5. /\ Append(s, x) \in Seq(Q) /\ Len(Append(s, x)) = n + 1
        /\ \A i \in 1..(n + 1) : Append(s, x)[i] = IF i <= n THEN s[i] ELSE x
    BY <1>3, <2>1, <2>4
  <2>6. u = Append(s, x)
    BY <2>2, <2>3, <2>5, SeqEqual
  <2>7. QED BY <2>6 DEF s, u, Q
<1>8. QED BY <1>2, <1>7
-------------------------------------------------------------------------------
(* The invariant of the ledger. *)

\* What rows say, and what they hash.
Said == Events \cup {Forged}

Hashes == Seq(Said) \cup {None}

Row == [sequence : Nat, tenant : Tenants, event : Said, previous : Hashes, hash : Hashes]

Heads == [count : Nat, event : Said \cup {None}, hash : Seq(Said)]

HeadMaps == [Tenants -> Heads]

Histories == [Tenants -> Seq(Said)]

\* The rows R are numbered up to n.
Numbered(R, n) ==
    /\ R \subseteq Row
    /\ Ordered(R)
    /\ n \in Nat
    /\ \A r \in R : r.sequence \in 1..n

\* A ledger without hashes, which says what was committed (y).
Fresh(R, H, y) ==
    /\ \A r \in R : r.previous = None /\ r.hash = None
    /\ \A t \in Tenants : H[t] = NoHead /\ EventsOf(R, t) = y[t]

\* The heads say what was committed, whatever has become of the rows.
Headed(R, H, y) ==
    \A t \in Tenants : /\ H[t].hash = y[t]
                       /\ H[t] = NoHead => RowsOf(R, t) = {}

Whole(R, H) == \A t \in Tenants : Verifies(R, t, H[t])

\* The chains of a ledger may be lost only when a row of it is altered.
Intact(R, H, n, k, y) ==
    /\ Numbered(R, n)
    /\ H \in HeadMaps
    /\ k \in Nat
    /\ y \in Histories
    /\ Fresh(R, H, y) \/ Headed(R, H, y)
    /\ k = 0 => Fresh(R, H, y) \/ Whole(R, H)

Sound(d) == Intact(d.rows, d.heads, d.serial, d.corruptions, d.history)

StoreInv == Intact(rows, heads, serial, corruptions, history)

ServiceInv ==
    /\ service = "running" =>
          Headed(rows, heads, history) /\ (corruptions = 0 => Whole(rows, heads))
    /\ service = "refused" => corruptions > 0
    /\ service # "running" => \A p \in Threads : pc[p] = "idle"

\* The row x of the tenant t, which may yet commit, comes after those that have,
\* and no page has gone past it.
Pending(x, t) ==
    /\ x.sequence \in 1..serial
    /\ \A r \in rows : r.sequence # x.sequence
    /\ \A r \in RowsOf(rows, t) : r.sequence < x.sequence
    /\ \A a \in Auditors : cursor[a][t] < x.sequence

\* The thread p, which appends e to the chain of t, holds its lock, and has read
\* its head or follows it.
Appends(p, e, t) ==
    /\ backend = "postgresql" /\ p \in Writers /\ e \in Events /\ lock[t] = p
    /\ pc[p] = "insert" => \A head \in seen[p] : head = heads[t]
    /\ pc[p] = "commit" => \A x \in seen[p] :
          x = RowAfter(heads[t], e, x.sequence) /\ Pending(x, t)

ThreadInv ==
    /\ \A p \in Threads :
          /\ pc[p] \in {"head", "insert", "commit"} => Appends(p, job[p], TenantOf[job[p]])
          /\ pc[p] = "append" => job[p] \in Events
          /\ pc[p] = "verify" => job[p] \in Tenants
    /\ \A p, q \in Threads : (pc[p] = "commit" /\ pc[q] = "commit" /\ p # q) =>
          \A x \in seen[p], y \in seen[q] : x.sequence # y.sequence

PageInv ==
    \A a \in Auditors : \A t \in Tenants :
        /\ cursor[a][t] <= serial
        /\ \A r \in RowsOf(rows, t) : r.sequence <= cursor[a][t] => r.sequence \in paged[a]

\* The databases that a restore or a power loss may bring.
CopyInv ==
    /\ \A i \in DOMAIN archive : Sound(archive[i])
    /\ \A old \in undone : Sound(old)

\* A database that a power loss may bring back has not been served, so it has no log.
QuietInv ==
    /\ undone # {} => unreported
    /\ unreported => service = "stopped" /\ ~sidecar
    /\ sidecar => backend = "sqlite"

LedgerTypes ==
    /\ backend \in {"sqlite", "postgresql"}
    /\ service \in {"stopped", "running", "refused"}
    /\ DOMAIN lock = Tenants
    /\ DOMAIN pc = Threads /\ DOMAIN job = Threads /\ DOMAIN seen = Threads
    /\ DOMAIN checkpoint = Auditors /\ DOMAIN paged = Auditors
    /\ cursor \in [Auditors -> [Tenants -> Nat]]

LedgerInv ==
    /\ LedgerTypes
    /\ StoreInv /\ ServiceInv /\ ThreadInv /\ PageInv /\ CopyInv /\ QuietInv

-------------------------------------------------------------------------------
(* Events in their order. *)

\* The order depends on the numbers alone.
LEMMA RankSame ==
  ASSUME NEW R, Ordered(R), NEW Q, Ordered(Q),
         \A r \in R : \E q \in Q : q.sequence = r.sequence,
         \A q \in Q : \E r \in R : r.sequence = q.sequence
  PROVE  /\ Cardinality(R) = Cardinality(Q)
         /\ \A r \in R : \A q \in Q : r.sequence = q.sequence => Rank(R, r) = Rank(Q, q)
<1>1. ASSUME NEW S, Ordered(S)
      PROVE  Cardinality({r.sequence : r \in S}) = Cardinality(S)
  <2> DEFINE f == [r \in S |-> r.sequence]
             T == {r.sequence : r \in S}
  <2>1. f \in Surjection(S, T) /\ f \in Injection(S, T)
    BY <1>1 DEF Surjection, Injection, IsInjective, Ordered
  <2>2. IsFiniteSet(S)
    BY <1>1 DEF Ordered
  <2> HIDE DEF f, T
  <2>3. Cardinality(T) = Cardinality(S)
    BY <2>1, <2>2, FS_Surjection
  <2>4. QED BY <2>3 DEF T
<1>2. {r.sequence : r \in R} = {q.sequence : q \in Q}
  OBVIOUS
<1>3. Cardinality(R) = Cardinality(Q)
  BY <1>1, <1>2
<1>4. ASSUME NEW r \in R, NEW q \in Q, r.sequence = q.sequence
      PROVE  Rank(R, r) = Rank(Q, q)
  <2>1. Ordered(UpTo(R, r)) /\ Ordered(UpTo(Q, q))
    BY OrderedPart DEF UpTo
  <2>2. {p.sequence : p \in UpTo(R, r)} = {p.sequence : p \in UpTo(Q, q)}
    <3>1. \A p \in UpTo(R, r) : \E u \in UpTo(Q, q) : u.sequence = p.sequence
      BY <1>4 DEF UpTo
    <3>2. \A p \in UpTo(Q, q) : \E u \in UpTo(R, r) : u.sequence = p.sequence
      BY <1>4 DEF UpTo
    <3>3. QED BY <3>1, <3>2
  <2>3. QED BY <1>1, <2>1, <2>2 DEF Rank
<1>5. QED BY <1>3, <1>4

LEMMA EventsFacts ==
  ASSUME NEW R, R \subseteq Row, Ordered(R), NEW t
  PROVE  /\ EventsOf(R, t) \in Seq(Said)
         /\ Len(EventsOf(R, t)) = Cardinality(RowsOf(R, t))
         /\ EventsOf(R, t) = <<>> <=> RowsOf(R, t) = {}
<1> DEFINE Q == RowsOf(R, t)
<1>1. Q \in SUBSET R /\ Ordered(Q) /\ IsFiniteSet(Q)
  BY OrderedPart DEF RowsOf, Ordered
<1>2. /\ InOrder(Q) \in [1..Cardinality(Q) -> Q]
      /\ Cardinality(Q) \in Nat
  BY <1>1, InOrderFacts, RankFacts
<1>3. EventsOf(R, t) = [i \in 1..Cardinality(Q) |-> InOrder(Q)[i].event]
  BY <1>2 DEF EventsOf
<1>4. \A i \in 1..Cardinality(Q) : InOrder(Q)[i].event \in Said
  BY <1>1, <1>2 DEF Row
<1>5. Cardinality(Q) = 0 <=> Q = {}
  BY <1>1, FS_EmptySet
<1> HIDE DEF Q
<1>6. EventsOf(R, t) \in Seq(Said) /\ Len(EventsOf(R, t)) = Cardinality(Q)
  BY <1>2, <1>3, <1>4
<1>7. EventsOf(R, t) = <<>> <=> Cardinality(Q) = 0
  BY <1>6
<1>8. QED BY <1>5, <1>6, <1>7 DEF Q

\* Rows with the same numbers and events say the same.
LEMMA EventsSame ==
  ASSUME NEW R, Ordered(R), NEW Q, Ordered(Q), NEW t,
         \A r \in RowsOf(R, t) : \E q \in RowsOf(Q, t) :
            q.sequence = r.sequence /\ q.event = r.event,
         \A q \in RowsOf(Q, t) : \E r \in RowsOf(R, t) :
            r.sequence = q.sequence /\ r.event = q.event
  PROVE  EventsOf(R, t) = EventsOf(Q, t)
<1> DEFINE A == RowsOf(R, t)
           B == RowsOf(Q, t)
           n == Cardinality(A)
<1>1. Ordered(A) /\ Ordered(B)
  BY OrderedPart DEF RowsOf
<1>2. /\ \A r \in A : \E q \in B : q.sequence = r.sequence /\ q.event = r.event
      /\ \A q \in B : \E r \in A : r.sequence = q.sequence
  OBVIOUS
<1> HIDE DEF A, B
<1>3. /\ Cardinality(B) = n
      /\ \A r \in A : \A q \in B : r.sequence = q.sequence => Rank(A, r) = Rank(B, q)
  BY <1>1, <1>2, RankSame
<1>4. InOrder(A) \in [1..n -> A] /\ InOrder(B) \in [1..n -> B]
  BY <1>1, <1>3, InOrderFacts
<1>5. ASSUME NEW i \in 1..n PROVE InOrder(A)[i].event = InOrder(B)[i].event
  <2>1. InOrder(A)[i] \in A /\ Rank(A, InOrder(A)[i]) = i
    BY <1>1, InOrderFacts
  <2>2. PICK q \in B : /\ q.sequence = InOrder(A)[i].sequence
                       /\ q.event = InOrder(A)[i].event
    BY <1>2, <2>1
  <2>3. Rank(B, q) = i
    BY <1>3, <2>1, <2>2
  <2>4. InOrder(B)[Rank(B, q)] = q
    BY <1>1, InOrderFacts
  <2>5. QED BY <2>2, <2>3, <2>4
<1>6. /\ EventsOf(R, t) = [i \in 1..n |-> InOrder(A)[i].event]
      /\ EventsOf(Q, t) = [i \in 1..n |-> InOrder(B)[i].event]
  BY <1>4 DEF EventsOf, A, B
<1>7. QED BY <1>5, <1>6

LEMMA EventsAdd ==
  ASSUME NEW R, R \subseteq Row, Ordered(R), NEW x \in Row,
         \A r \in RowsOf(R, x.tenant) : r.sequence < x.sequence
  PROVE  EventsOf(R \cup {x}, x.tenant) = Append(EventsOf(R, x.tenant), x.event)
<1> DEFINE t == x.tenant
           A == RowsOf(R, t)
           n == Cardinality(A)
           B == A \cup {x}
<1>1. A \in SUBSET R /\ Ordered(A) /\ n \in Nat
  BY OrderedPart, RankFacts DEF RowsOf
<1>2. RowsOf(R \cup {x}, t) = B
  BY DEF RowsOf
<1>3. x.sequence \in Nat /\ x.event \in Said
  BY DEF Row
<1>4. Ordered(B) /\ InOrder(B) = Append(InOrder(A), x)
  BY <1>1, <1>3, InOrderAdd
<1>5. /\ InOrder(A) \in Seq(A) /\ Len(InOrder(A)) = n
      /\ \A i \in 1..n : InOrder(A)[i] \in Row
  BY <1>1, InOrderFacts
<1> DEFINE s == InOrder(A)
           u == InOrder(B)
<1> HIDE DEF A, B, n, s, u
<1>6. /\ DOMAIN u = 1..(n + 1)
      /\ \A i \in 1..n : u[i] = s[i]
      /\ u[n + 1] = x
  <2>1. s \in Seq(A) /\ Len(s) = n /\ u = Append(s, x)
    BY <1>4, <1>5 DEF s, u
  <2>2. QED BY <1>1, <2>1
<1>7. /\ EventsOf(R, t) = [i \in 1..n |-> s[i].event]
      /\ EventsOf(R \cup {x}, t) = [i \in 1..(n + 1) |-> u[i].event]
  <2>1. DOMAIN s = 1..n
    BY <1>1, <1>5 DEF s
  <2>2. QED BY <1>2, <1>6, <2>1 DEF EventsOf, A, s, u
<1>8. [i \in 1..n |-> s[i].event] \in Seq(Said) /\ Len([i \in 1..n |-> s[i].event]) = n
  BY <1>1, <1>5 DEF Row, s
<1>9. QED
  <2> DEFINE a == [i \in 1..n |-> s[i].event]
             b == [i \in 1..(n + 1) |-> u[i].event]
  <2>1. \A i \in 1..n : a[i] = s[i].event /\ b[i] = s[i].event
    BY <1>1, <1>6
  <2>2. b[n + 1] = x.event /\ DOMAIN b = 1..(n + 1)
    BY <1>1, <1>6
  <2>3. b \in Seq(Said) /\ Len(b) = n + 1
    <3>1. \A i \in 1..(n + 1) : u[i].event \in Said
      BY <1>1, <1>3, <1>5, <1>6 DEF Row, s
    <3>2. QED BY <1>1, <3>1
  <2>4. a \in Seq(Said) /\ Len(a) = n
    BY <1>8
  <2> HIDE DEF a, b
  <2>5. /\ Append(a, x.event) \in Seq(Said) /\ Len(Append(a, x.event)) = n + 1
        /\ \A i \in 1..n : Append(a, x.event)[i] = a[i]
        /\ Append(a, x.event)[n + 1] = x.event
    BY <1>1, <1>3, <2>4
  <2>6. \A i \in 1..(n + 1) : Append(a, x.event)[i] = b[i]
    BY <1>1, <2>1, <2>2, <2>5
  <2>7. b = Append(a, x.event)
    BY <2>3, <2>5, <2>6, SeqEqual
  <2>8. QED BY <1>7, <2>7 DEF a, b

-------------------------------------------------------------------------------
(* Linked rows. *)

LEMMA HashTypes ==
  ASSUME NEW R, R \subseteq Row, Ordered(R), NEW r
  PROVE  HashUpTo(R, r) \in Seq(Said) /\ HashBefore(R, r) \in Seq(Said)
<1>1. ASSUME NEW Q \in SUBSET R PROVE EventsOf(Q, r.tenant) \in Seq(Said)
  BY OrderedPart, EventsFacts
<1>2. {q \in R : q.sequence <= r.sequence} \in SUBSET R /\
      {q \in R : q.sequence < r.sequence} \in SUBSET R
  OBVIOUS
<1>3. QED BY <1>1, <1>2 DEF HashUpTo, HashBefore

\* The hash of a row depends on the rows of its tenant up to it.
LEMMA LinkedSame ==
  ASSUME NEW R, R \subseteq Row, NEW Q, Q \subseteq Row, NEW r \in Row,
         \A q \in Row : q.tenant = r.tenant /\ q.sequence <= r.sequence =>
            (q \in R <=> q \in Q)
  PROVE  Linked(R, r) <=> Linked(Q, r)
<1>1. RowsOf({q \in R : q.sequence <= r.sequence}, r.tenant) =
      RowsOf({q \in Q : q.sequence <= r.sequence}, r.tenant)
  BY DEF RowsOf
<1>2. \A q \in Row : q.sequence < r.sequence => q.sequence <= r.sequence
  BY DEF Row
<1>3. RowsOf({q \in R : q.sequence < r.sequence}, r.tenant) =
      RowsOf({q \in Q : q.sequence < r.sequence}, r.tenant)
  BY <1>2 DEF RowsOf
<1>4. QED BY <1>1, <1>3 DEF Linked, HashUpTo, HashBefore, EventsOf

LEMMA VerifiesSame ==
  ASSUME NEW R, R \subseteq Row, NEW Q, Q \subseteq Row, NEW t, NEW head,
         RowsOf(R, t) = RowsOf(Q, t)
  PROVE  Verifies(R, t, head) <=> Verifies(Q, t, head)
<1>1. ASSUME NEW r \in RowsOf(R, t) PROVE Linked(R, r) <=> Linked(Q, r)
  <2>1. r \in Row /\ r.tenant = t
    BY DEF RowsOf
  <2>2. \A q : q.tenant = t => (q \in R <=> q \in Q)
    BY DEF RowsOf
  <2>3. QED BY <2>1, <2>2, LinkedSame
<1>2. HeadOf(R, t) = HeadOf(Q, t)
  BY DEF HeadOf, EventsOf
<1>3. QED BY <1>1, <1>2 DEF Verifies

\* The hash of the head that the rows call for is what they say.
LEMMA HeadFacts ==
  ASSUME NEW R, R \subseteq Row, Ordered(R), NEW t
  PROVE  /\ HeadOf(R, t) \in Heads
         /\ HeadOf(R, t).hash = EventsOf(R, t)
         /\ HeadOf(R, t) = NoHead <=> RowsOf(R, t) = {}
<1>1. /\ EventsOf(R, t) \in Seq(Said)
      /\ EventsOf(R, t) = <<>> <=> RowsOf(R, t) = {}
  BY EventsFacts
<1> DEFINE chain == EventsOf(R, t)
<1> HIDE DEF chain
<1>2. CASE chain = <<>>
  <2>1. HeadOf(R, t) = NoHead
    BY <1>2 DEF HeadOf, chain
  <2>2. <<>> \in Seq(Said)
    OBVIOUS
  <2>3. NoHead \in Heads /\ NoHead.hash = <<>>
    BY <2>2 DEF NoHead, Heads
  <2>4. QED BY <1>1, <1>2, <2>1, <2>3 DEF chain
<1>3. CASE chain # <<>>
  <2>1. HeadOf(R, t) = [count |-> Len(chain), event |-> Last(chain), hash |-> chain]
    BY <1>3 DEF HeadOf, chain
  <2>2. chain \in Seq(Said)
    BY <1>1 DEF chain
  <2>3. Len(chain) \in Nat /\ Last(chain) \in Said
    BY <1>3, <2>2 DEF Last
  <2>4. HeadOf(R, t) \in Heads /\ HeadOf(R, t).hash = chain
    BY <2>1, <2>2, <2>3 DEF Heads
  <2>5. NoHead.hash = <<>>
    BY DEF NoHead
  <2>6. QED BY <1>1, <1>3, <2>4, <2>5 DEF chain
<1>4. QED BY <1>2, <1>3

\* A row that follows the chain of its tenant extends it, and is its new end.
LEMMA LinkedAdd ==
  ASSUME NEW R, R \subseteq Row, Ordered(R), NEW x \in Row,
         \A r \in RowsOf(R, x.tenant) : r.sequence < x.sequence,
         x.previous = EventsOf(R, x.tenant),
         x.hash = Append(EventsOf(R, x.tenant), x.event),
         \A r \in RowsOf(R, x.tenant) : Linked(R, r)
  PROVE  Verifies(R \cup {x}, x.tenant, HeadAt(x))
<1> DEFINE t == x.tenant
           Q == R \cup {x}
<1>1. Q \subseteq Row /\ x.sequence \in Nat
  BY DEF Row
<1>2. ASSUME NEW r \in RowsOf(R, t) PROVE Linked(Q, r)
  <2>1. /\ r \in Row /\ r.tenant = t /\ r.sequence < x.sequence
        /\ r.sequence \in Nat
    BY DEF RowsOf, Row
  <2>2. \A q \in Row : q.tenant = r.tenant /\ q.sequence <= r.sequence =>
           (q \in R <=> q \in Q)
    BY <1>1, <2>1
  <2>3. QED BY <1>1, <2>1, <2>2, LinkedSame
<1>3. EventsOf(Q, t) = Append(EventsOf(R, t), x.event)
  BY EventsAdd
<1>4. Linked(Q, x)
  <2>1. RowsOf({q \in Q : q.sequence <= x.sequence}, t) = RowsOf(Q, t)
    BY <1>1 DEF RowsOf, Row
  <2>2. RowsOf({q \in Q : q.sequence < x.sequence}, t) = RowsOf(R, t)
    BY <1>1 DEF RowsOf
  <2>3. HashUpTo(Q, x) = EventsOf(Q, t) /\ HashBefore(Q, x) = EventsOf(R, t)
    BY <2>1, <2>2 DEF HashUpTo, HashBefore, EventsOf
  <2>4. QED BY <1>3, <2>3 DEF Linked
<1>5. HeadAt(x) = HeadOf(Q, t)
  <2> DEFINE a == EventsOf(R, t)
             c == EventsOf(Q, t)
  <2>1. a \in Seq(Said) /\ x.event \in Said /\ c = Append(a, x.event)
    BY <1>3, EventsFacts DEF Row
  <2> HIDE DEF a
  <2>2. c # <<>> /\ Last(c) = x.event
    BY <2>1 DEF Last
  <2>3. x.hash = c
    BY <1>3
  <2>4. QED BY <2>2, <2>3 DEF HeadOf, HeadAt
<1>6. \A r \in RowsOf(Q, t) : Linked(Q, r)
  BY <1>2, <1>4 DEF RowsOf
<1>7. QED BY <1>5, <1>6 DEF Verifies

LEMMA OtherRows ==
  ASSUME NEW R, NEW x, NEW t, x.tenant # t
  PROVE  RowsOf(R \cup {x}, t) = RowsOf(R, t)
  BY DEF RowsOf

-------------------------------------------------------------------------------
(* Completing the chains. *)

\* A row with the hashes it should have.
Filled(R, r) ==
    IF r.hash = None /\ r.previous = None
    THEN [r EXCEPT !.previous = HashBefore(R, r), !.hash = HashUpTo(R, r)]
    ELSE r

LEMMA FilledFacts ==
  ASSUME NEW R, R \subseteq Row, Ordered(R)
  PROVE  /\ Completed(R) = {Filled(R, r) : r \in R}
         /\ \A r \in R : /\ Filled(R, r) \in Row
                         /\ Filled(R, r).sequence = r.sequence
                         /\ Filled(R, r).tenant = r.tenant
                         /\ Filled(R, r).event = r.event
         /\ \A r \in R : r.hash = None /\ r.previous = None =>
               /\ Filled(R, r).previous = HashBefore(R, r)
               /\ Filled(R, r).hash = HashUpTo(R, r)
         /\ \A r \in R : Linked(R, r) => Filled(R, r) = r
<1>1. Completed(R) = {Filled(R, r) : r \in R}
  BY DEF Completed, Filled
<1>2. ASSUME NEW r \in R
      PROVE  /\ Filled(R, r) \in Row
             /\ Filled(R, r).sequence = r.sequence
             /\ Filled(R, r).tenant = r.tenant
             /\ Filled(R, r).event = r.event
             /\ r.hash = None /\ r.previous = None =>
                  /\ Filled(R, r).previous = HashBefore(R, r)
                  /\ Filled(R, r).hash = HashUpTo(R, r)
             /\ Linked(R, r) => Filled(R, r) = r
  <2>1. HashUpTo(R, r) \in Hashes /\ HashBefore(R, r) \in Hashes
    BY HashTypes DEF Hashes
  <2>2. r \in Row
    OBVIOUS
  <2>3. CASE r.hash = None /\ r.previous = None
    <3>1. PICK a \in Hashes, b \in Hashes : a = HashBefore(R, r) /\ b = HashUpTo(R, r)
      BY <2>1
    <3>2. Filled(R, r) = [r EXCEPT !.previous = a, !.hash = b]
      BY <2>3, <3>1 DEF Filled
    <3>3. /\ Filled(R, r) \in Row
          /\ Filled(R, r).sequence = r.sequence /\ Filled(R, r).tenant = r.tenant
          /\ Filled(R, r).event = r.event
          /\ Filled(R, r).previous = a /\ Filled(R, r).hash = b
      BY <2>2, <3>2 DEF Row
    <3>4. r.previous = a /\ r.hash = b => Filled(R, r) = r
      BY <2>2, <3>2 DEF Row
    <3>5. QED BY <3>1, <3>3, <3>4 DEF Linked
  <2>4. CASE ~(r.hash = None /\ r.previous = None)
    BY <2>2, <2>4 DEF Filled
  <2>5. QED BY <2>3, <2>4
<1>3. QED BY <1>1, <1>2

\* The completed rows have the numbers and the events of R.
LEMMA CompletedFacts ==
  ASSUME NEW R, R \subseteq Row, Ordered(R)
  PROVE  /\ Completed(R) \subseteq Row /\ Ordered(Completed(R))
         /\ \A n : (\A r \in R : r.sequence \in 1..n) =>
               \A c \in Completed(R) : c.sequence \in 1..n
         /\ \A t : EventsOf(Completed(R), t) = EventsOf(R, t)
         /\ \A t : HeadOf(Completed(R), t) = HeadOf(R, t)
         /\ \A t : RowsOf(Completed(R), t) = {} <=> RowsOf(R, t) = {}
         /\ \A r \in R : /\ HashUpTo(Completed(R), Filled(R, r)) = HashUpTo(R, r)
                         /\ HashBefore(Completed(R), Filled(R, r)) = HashBefore(R, r)
<1> DEFINE C == Completed(R)
<1>1. /\ C = {Filled(R, r) : r \in R}
      /\ \A r \in R : /\ Filled(R, r) \in Row
                      /\ Filled(R, r).sequence = r.sequence
                      /\ Filled(R, r).tenant = r.tenant
                      /\ Filled(R, r).event = r.event
  BY FilledFacts
<1> HIDE DEF C
<1>2. C \subseteq Row
  BY <1>1
<1>3. Ordered(C)
  <2>1. IsFiniteSet(C)
    <3> DEFINE f == [r \in R |-> Filled(R, r)]
    <3>1. f \in Surjection(R, C)
      BY <1>1 DEF Surjection
    <3>2. QED BY <3>1, FS_Surjection DEF Ordered
  <2>2. \A c \in C : c.sequence \in Nat
    BY <1>2 DEF Row
  <2>3. \A c, d \in C : c.sequence = d.sequence => c = d
    BY <1>1 DEF Ordered
  <2>4. QED BY <2>1, <2>2, <2>3 DEF Ordered
<1>4. \A n : (\A r \in R : r.sequence \in 1..n) => \A c \in C : c.sequence \in 1..n
  BY <1>1
<1>5. ASSUME NEW A, NEW B, A \subseteq R, B \subseteq C, NEW t,
             \A r \in R : Filled(R, r) \in B <=> r \in A
      PROVE  EventsOf(B, t) = EventsOf(A, t)
  <2>1. Ordered(A) /\ Ordered(B)
    BY <1>3, <1>5, OrderedPart
  <2>2. \A r \in RowsOf(A, t) : \E q \in RowsOf(B, t) :
           q.sequence = r.sequence /\ q.event = r.event
    BY <1>1, <1>5 DEF RowsOf
  <2>3. \A q \in RowsOf(B, t) : \E r \in RowsOf(A, t) :
           r.sequence = q.sequence /\ r.event = q.event
    BY <1>1, <1>5 DEF RowsOf
  <2>4. QED BY <2>1, <2>2, <2>3, EventsSame
<1>6. \A t : EventsOf(C, t) = EventsOf(R, t)
  BY <1>1, <1>5
<1>7. \A t : HeadOf(C, t) = HeadOf(R, t)
  BY <1>6 DEF HeadOf
<1>8. \A t : RowsOf(C, t) = {} <=> RowsOf(R, t) = {}
  BY <1>1 DEF RowsOf
<1>9. ASSUME NEW r \in R
      PROVE  /\ HashUpTo(C, Filled(R, r)) = HashUpTo(R, r)
             /\ HashBefore(C, Filled(R, r)) = HashBefore(R, r)
  <2> DEFINE d == Filled(R, r)
  <2>1. d.sequence = r.sequence /\ d.tenant = r.tenant
    BY <1>1
  <2> HIDE DEF d
  <2>2. EventsOf({q \in C : q.sequence <= d.sequence}, d.tenant) =
        EventsOf({q \in R : q.sequence <= r.sequence}, r.tenant)
    <3> DEFINE A == {q \in R : q.sequence <= r.sequence}
               B == {q \in C : q.sequence <= d.sequence}
    <3>1. /\ A \subseteq R /\ B \subseteq C
          /\ \A q \in R : Filled(R, q) \in B <=> q \in A
      BY <1>1, <2>1
    <3> HIDE DEF A, B
    <3>2. EventsOf(B, r.tenant) = EventsOf(A, r.tenant)
      BY <1>5, <3>1
    <3>3. QED BY <2>1, <3>2 DEF A, B
  <2>3. EventsOf({q \in C : q.sequence < d.sequence}, d.tenant) =
        EventsOf({q \in R : q.sequence < r.sequence}, r.tenant)
    <3> DEFINE A == {q \in R : q.sequence < r.sequence}
               B == {q \in C : q.sequence < d.sequence}
    <3>1. /\ A \subseteq R /\ B \subseteq C
          /\ \A q \in R : Filled(R, q) \in B <=> q \in A
      BY <1>1, <2>1
    <3> HIDE DEF A, B
    <3>2. EventsOf(B, r.tenant) = EventsOf(A, r.tenant)
      BY <1>5, <3>1
    <3>3. QED BY <2>1, <3>2 DEF A, B
  <2>4. QED BY <2>2, <2>3 DEF d, HashUpTo, HashBefore
<1>10. QED BY <1>2, <1>3, <1>4, <1>6, <1>7, <1>8, <1>9 DEF C

LEMMA RowsOfAll ==
  ASSUME NEW R, R \subseteq Row
  PROVE  \A r \in R : r.tenant \in Tenants /\ r \in RowsOf(R, r.tenant)
  BY DEF Row, RowsOf

\* A store that is opened has whole chains, which say what was committed.
LEMMA OpenedIsWhole ==
  ASSUME NEW R, NEW n, NEW H, NEW y, Numbered(R, n),
         Fresh(R, H, y) \/ Headed(R, H, y), Acceptable(R, H)
  PROVE  /\ Numbered(Completed(R), n)
         /\ [t \in Tenants |-> HeadOf(R, t)] \in HeadMaps
         /\ Headed(Completed(R), [t \in Tenants |-> HeadOf(R, t)], y)
         /\ Whole(Completed(R), [t \in Tenants |-> HeadOf(R, t)])
<1> DEFINE C == Completed(R)
           G == [t \in Tenants |-> HeadOf(R, t)]
<1>1. R \subseteq Row /\ Ordered(R) /\ n \in Nat
  BY DEF Numbered
<1>2. Numbered(C, n)
  BY <1>1, CompletedFacts DEF Numbered
<1>3. G \in HeadMaps
  BY <1>1, HeadFacts DEF HeadMaps
<1>4. ASSUME NEW t \in Tenants
      PROVE  G[t].hash = y[t] /\ (G[t] = NoHead => RowsOf(C, t) = {})
  <2>1. /\ G[t] = HeadOf(R, t)
        /\ G[t].hash = EventsOf(R, t)
        /\ G[t] = NoHead <=> RowsOf(R, t) = {}
    BY <1>1, HeadFacts
  <2>2. RowsOf(C, t) = {} <=> RowsOf(R, t) = {}
    BY <1>1, CompletedFacts
  <2>3. EventsOf(R, t) = y[t]
    <3>1. CASE Fresh(R, H, y)
      BY <3>1 DEF Fresh
    <3>2. CASE Headed(R, H, y)
      <4>1. H[t].hash = y[t] /\ (H[t] = NoHead => RowsOf(R, t) = {})
        BY <3>2 DEF Headed
      <4>2. H[t] # NoHead => H[t] = HeadOf(R, t)
        BY DEF Acceptable
      <4>3. H[t] = HeadOf(R, t)
        BY <2>1, <4>1, <4>2
      <4>4. QED BY <2>1, <4>1, <4>3
    <3>3. QED BY <3>1, <3>2
  <2>4. QED BY <2>1, <2>2, <2>3
<1>5. ASSUME NEW t \in Tenants PROVE Verifies(C, t, G[t])
  <2>1. \A r \in RowsOf(C, t) : Linked(C, r)
    BY DEF Acceptable, RowsOf
  <2>2. G[t] = HeadOf(C, t)
    BY <1>1, CompletedFacts
  <2>3. QED BY <2>1, <2>2 DEF Verifies
<1>6. QED BY <1>2, <1>3, <1>4, <1>5 DEF Headed, Whole

\* A fresh ledger, and a whole one, are accepted.
LEMMA SoundIsAccepted ==
  ASSUME NEW R, NEW n, NEW H, NEW y, Numbered(R, n),
         Fresh(R, H, y) \/ Whole(R, H)
  PROVE  Acceptable(R, H)
<1> DEFINE C == Completed(R)
<1>1. R \subseteq Row /\ Ordered(R)
  BY DEF Numbered
<1>2. C = {Filled(R, r) : r \in R}
  BY <1>1, FilledFacts
<1>3. CASE Fresh(R, H, y)
  <2>1. ASSUME NEW r \in R PROVE Linked(C, Filled(R, r))
    <3>1. r.hash = None /\ r.previous = None
      BY <1>3 DEF Fresh
    <3>2. /\ Filled(R, r).previous = HashBefore(R, r)
          /\ Filled(R, r).hash = HashUpTo(R, r)
      BY <1>1, <3>1, FilledFacts
    <3>3. /\ HashUpTo(C, Filled(R, r)) = HashUpTo(R, r)
          /\ HashBefore(C, Filled(R, r)) = HashBefore(R, r)
      BY <1>1, CompletedFacts
    <3>4. QED BY <3>2, <3>3 DEF Linked
  <2>2. \A t \in Tenants : H[t] = NoHead
    BY <1>3 DEF Fresh
  <2>3. QED BY <1>2, <2>1, <2>2 DEF Acceptable
<1>4. CASE Whole(R, H)
  <2>1. \A r \in R : Linked(R, r)
    BY <1>1, <1>4, RowsOfAll DEF Whole, Verifies
  <2>2. C = R
    BY <1>1, <1>2, <2>1, FilledFacts
  <2>3. \A t \in Tenants : H[t] = HeadOf(R, t)
    BY <1>4 DEF Whole, Verifies
  <2>4. QED BY <2>1, <2>2, <2>3 DEF Acceptable
<1>5. QED BY <1>3, <1>4

\* x is the row of the event e, numbered up to m, which follows the head of t in
\* the heads H of the rows R.
Follows(x, e, t, m, R, n, H) ==
    /\ e \in Events /\ t = TenantOf[e]
    /\ x = RowAfter(H[t], e, x.sequence)
    /\ m \in Nat /\ n <= m /\ x.sequence \in 1..m
    /\ \A r \in R : r.sequence # x.sequence
    /\ \A r \in RowsOf(R, t) : r.sequence < x.sequence

HeadsAfter(H, t, x) == [H EXCEPT ![t] = HeadAt(x)]

HistoryAfter(y, t, e) == [y EXCEPT ![t] = Append(@, e)]

\* A row that follows its head keeps the heads true, and the chains whole.
LEMMA FollowKeeps ==
  ASSUME NEW R, NEW n, NEW H, NEW y, H \in HeadMaps, y \in Histories,
         Numbered(R, n), Headed(R, H, y),
         NEW x, NEW e, NEW t, NEW m, Follows(x, e, t, m, R, n, H)
  PROVE  /\ x.tenant = t /\ x.event = e /\ t \in Tenants
         /\ Numbered(R \cup {x}, m)
         /\ HeadsAfter(H, t, x) \in HeadMaps
         /\ HistoryAfter(y, t, e) \in Histories
         /\ Headed(R \cup {x}, HeadsAfter(H, t, x), HistoryAfter(y, t, e))
         /\ Whole(R, H) => Whole(R \cup {x}, HeadsAfter(H, t, x))
<1> DEFINE Q == R \cup {x}
           G == [H EXCEPT ![t] = HeadAt(x)]
           z == [y EXCEPT ![t] = Append(@, e)]
<1>0. /\ e \in Events /\ t = TenantOf[e]
      /\ x = RowAfter(H[t], e, x.sequence)
      /\ m \in Nat /\ n <= m /\ x.sequence \in 1..m
      /\ \A r \in R : r.sequence # x.sequence
      /\ \A r \in RowsOf(R, t) : r.sequence < x.sequence
  BY DEF Follows
<1>1. R \subseteq Row /\ Ordered(R) /\ n \in Nat /\ \A r \in R : r.sequence \in 1..n
  BY DEF Numbered
<1>2. t \in Tenants /\ e \in Said
  BY <1>0, EventAssumption DEF Said
<1>3. H[t].hash \in Seq(Said) /\ H[t].hash = y[t]
  BY <1>0, <1>2 DEF HeadMaps, Heads, Headed
<1>4. PICK a \in Seq(Said) : a = H[t].hash
  BY <1>3
<1>5. Append(a, e) \in Seq(Said) /\ Append(a, e) # <<>> /\ Len(Append(a, e)) \in Nat
  BY <1>2, <1>4
<1>6. x = [sequence |-> x.sequence, tenant |-> t, event |-> e,
           previous |-> a, hash |-> Append(a, e)]
  BY <1>0, <1>4 DEF RowAfter
<1>7. /\ x.tenant = t /\ x.event = e /\ x.previous = a /\ x.hash = Append(a, e)
      /\ x.sequence \in Nat
  BY <1>0, <1>6
<1>8. x \in Row
  BY <1>0, <1>2, <1>4, <1>5, <1>6, <1>7 DEF Row, Hashes
<1>9. Numbered(Q, m)
  <2>1. Ordered(Q)
    <3>1. IsFiniteSet(Q)
      BY <1>0, <1>1, FS_AddElement DEF Ordered
    <3>2. \A q, r \in Q : q.sequence = r.sequence => q = r
      BY <1>0, <1>1 DEF Ordered
    <3>3. QED BY <1>0, <1>1, <1>7, <3>1, <3>2 DEF Ordered
  <2>2. \A r \in Q : r.sequence \in 1..m
    BY <1>0, <1>1
  <2>3. QED BY <1>0, <1>1, <1>8, <2>1, <2>2 DEF Numbered
<1>10. HeadAt(x) \in Heads /\ HeadAt(x).hash = Append(a, e) /\ HeadAt(x) # NoHead
  <2>1. HeadAt(x) = [count |-> Len(Append(a, e)), event |-> e, hash |-> Append(a, e)]
    BY <1>0, <1>7 DEF HeadAt
  <2>2. NoHead.hash = <<>>
    BY DEF NoHead
  <2>3. QED BY <1>0, <1>2, <1>5, <2>1, <2>2 DEF Heads
<1>11. G \in HeadMaps /\ z \in Histories
  <2>1. z = [y EXCEPT ![t] = Append(a, e)]
    BY <1>3, <1>4
  <2>2. QED BY <1>0, <1>2, <1>5, <1>10, <2>1 DEF HeadMaps, Histories
<1>12. Headed(Q, G, z)
  <2>1. ASSUME NEW u \in Tenants
        PROVE  G[u].hash = z[u] /\ (G[u] = NoHead => RowsOf(Q, u) = {})
    <3>1. CASE u = t
      <4>1. G[u] = HeadAt(x) /\ z[u] = Append(a, e)
        BY <1>0, <1>2, <1>3, <1>4, <3>1 DEF HeadMaps, Histories
      <4>2. QED BY <1>10, <4>1
    <3>2. CASE u # t
      <4>1. G[u] = H[u] /\ z[u] = y[u]
        BY <2>1, <3>2 DEF Histories
      <4>2. RowsOf(Q, u) = RowsOf(R, u)
        BY <1>0, <1>7, <3>2, OtherRows
      <4>3. QED BY <2>1, <4>1, <4>2 DEF Headed
    <3>3. QED BY <3>1, <3>2
  <2>2. QED BY <2>1 DEF Headed
<1>13. ASSUME Whole(R, H), NEW u \in Tenants PROVE Verifies(Q, u, G[u])
  <2>1. Verifies(R, u, H[u])
    BY <1>13 DEF Whole
  <2>2. CASE u = t
    <3>1. EventsOf(R, t) = a
      <4>1. H[t] = HeadOf(R, t)
        BY <2>1, <2>2 DEF Verifies
      <4>2. QED BY <1>0, <1>1, <1>4, <4>1, HeadFacts
    <3>2. \A r \in RowsOf(R, t) : Linked(R, r)
      BY <2>1, <2>2 DEF Verifies
    <3>3. Verifies(Q, t, HeadAt(x))
      BY <1>0, <1>1, <1>7, <1>8, <3>1, <3>2, LinkedAdd
    <3>4. QED BY <1>0, <1>2, <2>2, <3>3 DEF HeadMaps
  <2>3. CASE u # t
    <3>1. RowsOf(Q, u) = RowsOf(R, u) /\ G[u] = H[u]
      BY <1>0, <1>7, <1>13, <2>3, OtherRows
    <3>2. Q \subseteq Row
      BY <1>0, <1>1, <1>8
    <3>3. QED BY <1>0, <1>1, <2>1, <3>1, <3>2, VerifiesSame
  <2>4. QED BY <2>2, <2>3
<1>14. QED BY <1>0, <1>2, <1>7, <1>9, <1>11, <1>12, <1>13
           DEF Whole, HeadsAfter, HistoryAfter

\* A row that is altered or lost leaves the heads true.
LEMMA CorruptedKeeps ==
  ASSUME NEW R, NEW n, NEW H, NEW y, Numbered(R, n),
         NEW r \in R, r.hash # None, NEW Q,
         Q = R \ {r} \/ Q = (R \ {r}) \cup {[r EXCEPT !.event = Forged]}
  PROVE  /\ Numbered(Q, n)
         /\ \A q \in Q : \E p \in R : q.sequence = p.sequence /\ q.tenant = p.tenant
         /\ ~Fresh(R, H, y)
         /\ Headed(R, H, y) => Headed(Q, H, y)
<1> DEFINE x == [r EXCEPT !.event = Forged]
<1>1. /\ R \subseteq Row /\ Ordered(R) /\ IsFiniteSet(R) /\ n \in Nat
      /\ \A q \in R : q.sequence \in 1..n
      /\ \A p, q \in R : p.sequence = q.sequence => p = q
  BY DEF Numbered, Ordered
<1>2. r \in Row
  BY <1>1
<1>3. x \in Row /\ x.sequence = r.sequence /\ x.tenant = r.tenant
  BY <1>2 DEF Row, Said
<1> HIDE DEF x
<1>4. Q = R \ {r} \/ Q = (R \ {r}) \cup {x}
  BY DEF x
<1>5. \A q \in Q : q \in R \ {r} \/ q = x
  BY <1>4
<1>6. IsFiniteSet(Q)
  <2>1. IsFiniteSet(R \ {r})
    BY <1>1, FS_RemoveElement
  <2>2. IsFiniteSet((R \ {r}) \cup {x})
    BY <2>1, FS_AddElement
  <2>3. QED BY <1>4, <2>1, <2>2
<1>7. Numbered(Q, n)
  <2>1. Q \subseteq Row /\ \A q \in Q : q.sequence \in 1..n
    BY <1>1, <1>3, <1>5
  <2>2. \A p, q \in Q : p.sequence = q.sequence => p = q
    BY <1>1, <1>3, <1>5
  <2>3. \A q \in Q : q.sequence \in Nat
    BY <2>1 DEF Row
  <2>4. QED BY <1>1, <1>6, <2>1, <2>2, <2>3 DEF Numbered, Ordered
<1>8. \A q \in Q : \E p \in R : q.sequence = p.sequence /\ q.tenant = p.tenant
  BY <1>3, <1>5
<1>9. ~Fresh(R, H, y)
  BY DEF Fresh
<1>10. ASSUME Headed(R, H, y) PROVE Headed(Q, H, y)
  <2>1. \A t : RowsOf(R, t) = {} => RowsOf(Q, t) = {}
    BY <1>8 DEF RowsOf
  <2>2. QED BY <1>10, <2>1 DEF Headed
<1>11. QED BY <1>7, <1>8, <1>9, <1>10

\* What a restore accepts is fresh or whole.
LEMMA HeldIsSound ==
  ASSUME NEW copy, Sound(copy), ChainsHold(copy)
  PROVE  Fresh(copy.rows, copy.heads, copy.history) \/ Whole(copy.rows, copy.heads)
<1>1. CASE AllVerify(copy)
  BY <1>1 DEF AllVerify, Whole
<1>2. CASE Unhashed(copy)
  <2>1. CASE Headed(copy.rows, copy.heads, copy.history)
    <3>1. \A t \in Tenants : RowsOf(copy.rows, t) = {}
      BY <1>2, <2>1 DEF Unhashed, Headed
    <3>2. Whole(copy.rows, copy.heads)
      <4>1. copy.rows \subseteq Row /\ Ordered(copy.rows)
        BY DEF Sound, Intact, Numbered
      <4>2. \A t \in Tenants : HeadOf(copy.rows, t) = NoHead
        BY <3>1, <4>1, HeadFacts
      <4>3. QED BY <1>2, <3>1, <4>2 DEF Whole, Verifies, Unhashed
    <3>3. QED BY <3>2
  <2>2. QED BY <2>1 DEF Sound, Intact
<1>3. QED BY <1>1, <1>2 DEF ChainsHold

-------------------------------------------------------------------------------
(* The threads. *)

LEMMA LedgerFacts ==
  ASSUME LedgerInv
  PROVE  /\ LedgerTypes /\ StoreInv /\ ServiceInv /\ ThreadInv /\ PageInv
         /\ CopyInv /\ QuietInv
         /\ Numbered(rows, serial) /\ serial \in Nat /\ corruptions \in Nat
         /\ heads \in HeadMaps /\ history \in Histories
         /\ rows \subseteq Row /\ Ordered(rows)
  BY DEF LedgerInv, StoreInv, Intact, Numbered

\* Aims moves one thread.
Aims(p, c) == \A q \in Threads : pc'[q] = IF q = p THEN c ELSE pc[q]

\* The thread q extends the chain of t.
Extends(q, t) ==
    lock[t] = q /\ q \in Writers /\ pc[q] \in {"head", "insert", "commit"}

\* What the other threads rely on stays when the thread p moves.
Leaves(p) ==
    \A q \in Threads \ {p} :
        /\ job'[q] = job[q] /\ seen'[q] = seen[q]
        /\ \A t \in Tenants : Extends(q, t) =>
              /\ lock'[t] = q /\ heads'[t] = heads[t]
              /\ \A x : pc[q] = "commit" /\ x \in seen[q] /\ Pending(x, t) =>
                    Pending(x, t)'

LEMMA ThreadsKeep ==
  ASSUME ThreadInv, UNCHANGED backend, NEW p, NEW c, Aims(p, c), Leaves(p),
         c \in {"head", "insert", "commit"} => Appends(p, job[p], TenantOf[job[p]])',
         c = "append" => job'[p] \in Events,
         c = "verify" => job'[p] \in Tenants,
         c = "commit" => \A q \in Threads \ {p} : pc[q] = "commit" =>
            \A x \in seen'[p], y \in seen[q] : x.sequence # y.sequence
  PROVE  ThreadInv'
<1>1. ASSUME NEW q \in Threads \ {p}, pc[q] \in {"head", "insert", "commit"}
      PROVE  Appends(q, job[q], TenantOf[job[q]])'
  <2>1. PICK e, t : e = job[q] /\ t = TenantOf[e]
    OBVIOUS
  <2>2. Appends(q, e, t)
    BY <1>1, <2>1 DEF ThreadInv
  <2>3. e \in Events /\ t \in Tenants /\ lock[t] = q /\ q \in Writers
    BY <2>1, <2>2, EventAssumption DEF Appends
  <2>4. /\ job'[q] = e /\ seen'[q] = seen[q] /\ pc'[q] = pc[q]
        /\ lock'[t] = q /\ heads'[t] = heads[t]
    BY <1>1, <2>1, <2>3 DEF Leaves, Aims, Extends
  <2>5. ASSUME NEW x \in seen'[q], pc'[q] = "commit"
        PROVE  x = RowAfter(heads'[t], e, x.sequence) /\ Pending(x, t)'
    <3>1. x = RowAfter(heads[t], e, x.sequence) /\ Pending(x, t)
      BY <2>2, <2>4, <2>5 DEF Appends
    <3>2. QED BY <1>1, <2>3, <2>4, <2>5, <3>1 DEF Leaves, Extends
  <2>6. Appends(q, e, t)'
    BY <2>2, <2>4, <2>5 DEF Appends
  <2>7. QED BY <2>1, <2>4, <2>6
<1>2. ASSUME NEW q \in Threads, pc'[q] \in {"head", "insert", "commit"}
      PROVE  Appends(q, job[q], TenantOf[job[q]])'
  BY <1>1, <1>2 DEF Aims
<1>3. ASSUME NEW q \in Threads
      PROVE  /\ pc'[q] = "append" => job'[q] \in Events
             /\ pc'[q] = "verify" => job'[q] \in Tenants
  BY DEF Aims, Leaves, ThreadInv
<1>4. ASSUME NEW q \in Threads, NEW r \in Threads,
             pc'[q] = "commit", pc'[r] = "commit", q # r,
             NEW x \in seen'[q], NEW y \in seen'[r]
      PROVE  x.sequence # y.sequence
  <2>1. CASE q = p
    BY <1>4, <2>1 DEF Aims, Leaves
  <2>2. CASE r = p
    BY <1>4, <2>2 DEF Aims, Leaves
  <2>3. CASE q # p /\ r # p
    BY <1>4, <2>3 DEF Aims, Leaves, ThreadInv
  <2>4. QED BY <2>1, <2>2, <2>3
<1>5. QED BY <1>2, <1>3, <1>4 DEF ThreadInv

LEMMA PendingStays ==
  ASSUME serial' \in Nat, serial \in Nat, serial <= serial', UNCHANGED <<rows, cursor>>
  PROVE  \A x, t : Pending(x, t) => Pending(x, t)'
  BY DEF Pending, RowsOf

\* The store, while rows and heads are not written.
LEMMA StoreStays ==
  ASSUME LedgerInv, service = "running", serial' \in Nat, serial <= serial',
         UNCHANGED <<rows, heads, history, corruptions, service>>
  PROVE  StoreInv' /\ ServiceInv'
<1>1. Numbered(rows, serial')
  BY LedgerFacts DEF Numbered
<1>2. StoreInv'
  BY <1>1, LedgerFacts DEF StoreInv, Intact
<1>3. ServiceInv'
  BY LedgerFacts DEF ServiceInv
<1>4. QED BY <1>2, <1>3

LEMMA PagesStay ==
  ASSUME LedgerInv, serial' \in Nat, serial <= serial', UNCHANGED <<rows, cursor, paged>>
  PROVE  PageInv'
<1>1. \A a \in Auditors : \A t \in Tenants : cursor[a][t] \in Nat
  BY LedgerFacts DEF LedgerTypes
<1>2. QED BY <1>1, LedgerFacts DEF PageInv

LEMMA CopiesStay ==
  ASSUME LedgerInv, UNCHANGED <<backend, service, archive, undone, unreported, sidecar>>
  PROVE  CopyInv' /\ QuietInv'
  BY LedgerFacts DEF CopyInv, QuietInv

\* A thread that is not idle runs in a service.
LEMMA Runs ==
  ASSUME LedgerInv, NEW p \in Threads, pc[p] # "idle"
  PROVE  service = "running"
  BY LedgerFacts DEF ServiceInv

LEMMA GotoAims ==
  ASSUME LedgerTypes, NEW p \in Threads, NEW c, Goto(p, c)
  PROVE  Aims(p, c) /\ DOMAIN pc' = Threads
  BY DEF LedgerTypes, Goto, Aims

\* The end of a transaction releases the locks of its thread only.
LEMMA EndFacts ==
  ASSUME LedgerTypes, NEW w \in Threads, EndOf(w)
  PROVE  /\ Aims(w, "idle")
         /\ \A q \in Threads \ {w} : /\ job'[q] = job[q] /\ seen'[q] = seen[q]
                                     /\ \A t \in Tenants : lock[t] = q => lock'[t] = q
         /\ DOMAIN pc' = Threads /\ DOMAIN job' = Threads /\ DOMAIN seen' = Threads
         /\ DOMAIN lock' = Tenants
<1>1. Goto(w, "idle")
  BY DEF EndOf
<1>2. QED BY <1>1, GotoAims DEF EndOf, LedgerTypes

-------------------------------------------------------------------------------
(* The steps of the ledger. *)

\* A step that writes neither the rows nor the pages.
LEMMA MoveKeeps ==
  ASSUME LedgerInv, UNCHANGED backupVars, UNCHANGED <<backend, service>>,
         service = "running", UNCHANGED <<rows, heads, history, corruptions>>,
         serial' \in Nat, serial <= serial', UNCHANGED pages,
         LedgerTypes', ThreadInv'
  PROVE  LedgerInv'
<1>1. UNCHANGED <<cursor, paged, archive, undone, unreported, sidecar>>
  BY DEF pages, backupVars, restores
<1>2. StoreInv' /\ ServiceInv'
  BY StoreStays
<1>3. PageInv' /\ CopyInv' /\ QuietInv'
  BY <1>1, PagesStay, CopiesStay
<1>4. QED BY <1>2, <1>3 DEF LedgerInv

LEMMA ThreadSets == Writers \subseteq Threads /\ Auditors \subseteq Threads
  BY DEF Threads

LEMMA BeginKeeps ==
  ASSUME LedgerInv, UNCHANGED backupVars, NEW w \in Writers, NEW e \in Events, Begin(w, e)
  PROVE  LedgerInv'
<1>1. /\ w \in Threads /\ LedgerTypes /\ ThreadInv /\ serial \in Nat
      /\ service = "running"
      /\ Goto(w, "append") /\ job' = [job EXCEPT ![w] = e]
      /\ UNCHANGED <<backend, service, rows, heads, serial, lock, seen, checkpoint>>
      /\ UNCHANGED <<cursor, paged, corruptions, history>>
  BY ThreadSets, LedgerFacts DEF Begin, fixed, stored, pages
<1>2. Aims(w, "append") /\ DOMAIN pc' = Threads
  BY <1>1, GotoAims
<1>3. LedgerTypes' /\ job'[w] = e
  BY <1>1, <1>2 DEF LedgerTypes
<1>4. Leaves(w)
  BY <1>1, PendingStays DEF Leaves, Extends, LedgerTypes
<1>5. ThreadInv'
  BY <1>1, <1>2, <1>3, <1>4, ThreadsKeep
<1>6. QED BY <1>1, <1>3, <1>5, MoveKeeps DEF pages

LEMMA LockChainKeeps ==
  ASSUME LedgerInv, UNCHANGED backupVars, NEW w \in Writers, LockChain(w)
  PROVE  LedgerInv'
<1>1. /\ w \in Threads /\ LedgerTypes /\ ThreadInv /\ serial \in Nat
      /\ pc[w] = "append" /\ backend = "postgresql"
      /\ UNCHANGED <<backend, service, rows, heads, serial, job, seen, checkpoint>>
      /\ UNCHANGED <<cursor, paged, corruptions, history>>
      /\ Goto(w, "head")
  BY ThreadSets, LedgerFacts DEF LockChain, fixed, stored, pages
<1>2. PICK e, t : e = job[w] /\ t = TenantOf[e]
  OBVIOUS
<1>3. /\ e \in Events /\ t \in Tenants
      /\ lock[t] = None /\ lock' = [lock EXCEPT ![t] = w]
  BY <1>1, <1>2, EventAssumption DEF ThreadInv, LockChain
<1>4. Aims(w, "head") /\ DOMAIN pc' = Threads
  BY <1>1, GotoAims
<1>5. LedgerTypes'
  BY <1>1, <1>3, <1>4 DEF LedgerTypes
<1>6. /\ lock'[t] = w /\ \A u \in Tenants \ {t} : lock'[u] = lock[u]
      /\ \A q \in Threads, u \in Tenants :
            lock[u] = q /\ q \in Writers => lock'[u] = q
  BY <1>1, <1>3, NoneAssumption DEF LedgerTypes
<1>7. pc'[w] = "head"
  BY <1>1, <1>4 DEF Aims
<1>8. Appends(w, job[w], TenantOf[job[w]])'
  BY <1>1, <1>2, <1>3, <1>6, <1>7 DEF Appends
<1>9. ThreadInv'
  <2>1. Leaves(w)
    BY <1>1, <1>6, PendingStays DEF Leaves, Extends
  <2>2. QED BY <1>1, <1>4, <1>8, <2>1, ThreadsKeep
<1>10. service = "running"
  BY <1>1, Runs
<1>11. QED BY <1>1, <1>5, <1>9, <1>10, MoveKeeps DEF pages

LEMMA ReadHeadRowKeeps ==
  ASSUME LedgerInv, UNCHANGED backupVars, NEW w \in Writers, ReadHeadRow(w)
  PROVE  LedgerInv'
<1>1. /\ w \in Threads /\ LedgerTypes /\ ThreadInv /\ serial \in Nat
      /\ pc[w] = "head" /\ Goto(w, "insert")
      /\ seen' = [seen EXCEPT ![w] = {heads[TenantOf[job[w]]]}]
      /\ UNCHANGED <<backend, service, rows, heads, serial, lock, job, checkpoint>>
      /\ UNCHANGED <<cursor, paged, corruptions, history>>
  BY ThreadSets, LedgerFacts DEF ReadHeadRow, fixed, stored, pages
<1>2. Aims(w, "insert") /\ DOMAIN pc' = Threads /\ pc'[w] = "insert"
  BY <1>1, GotoAims DEF Aims
<1>3. LedgerTypes' /\ seen'[w] = {heads[TenantOf[job[w]]]}
  BY <1>1, <1>2 DEF LedgerTypes
<1>4. Leaves(w)
  BY <1>1, PendingStays DEF Leaves, Extends, LedgerTypes
<1>5. Appends(w, job[w], TenantOf[job[w]])
  BY <1>1 DEF ThreadInv
<1>6. Appends(w, job[w], TenantOf[job[w]])'
  BY <1>1, <1>2, <1>3, <1>5 DEF Appends
<1>7. ThreadInv'
  BY <1>1, <1>2, <1>4, <1>6, ThreadsKeep
<1>8. service = "running"
  BY <1>1, Runs
<1>9. QED BY <1>1, <1>3, <1>7, <1>8, MoveKeeps DEF pages

LEMMA InsertKeeps ==
  ASSUME LedgerInv, UNCHANGED backupVars, NEW w \in Writers, Insert(w)
  PROVE  LedgerInv'
<1>1. /\ w \in Threads /\ LedgerTypes /\ ThreadInv /\ serial \in Nat
      /\ pc[w] = "insert" /\ serial' = serial + 1
      /\ UNCHANGED <<backend, service, rows, heads, checkpoint>>
      /\ UNCHANGED <<cursor, paged, corruptions, history>>
  BY ThreadSets, LedgerFacts DEF Insert, fixed, pages
<1>2. service = "running"
  BY <1>1, Runs
<1>3. \A x, t : Pending(x, t) => Pending(x, t)'
  BY <1>1, PendingStays
<1>4. CASE EndOf(w)
  <2>1. /\ Aims(w, "idle") /\ Leaves(w)
        /\ DOMAIN pc' = Threads /\ DOMAIN job' = Threads /\ DOMAIN seen' = Threads
        /\ DOMAIN lock' = Tenants
    BY <1>1, <1>3, <1>4, EndFacts DEF Leaves, Extends
  <2>2. LedgerTypes'
    BY <1>1, <2>1 DEF LedgerTypes
  <2>3. ThreadInv'
    BY <1>1, <2>1, ThreadsKeep
  <2>4. QED BY <1>1, <1>2, <2>2, <2>3, MoveKeeps DEF pages
<1>5. CASE ~EndOf(w)
  <2>1. /\ seen' = [seen EXCEPT ![w] =
                     {RowAfter(head, job[w], serial + 1) : head \in seen[w]}]
        /\ Goto(w, "commit") /\ UNCHANGED <<lock, job>>
    BY <1>5 DEF Insert
  <2>2. Aims(w, "commit") /\ DOMAIN pc' = Threads /\ pc'[w] = "commit"
    BY <1>1, <2>1, GotoAims DEF Aims
  <2>3. /\ LedgerTypes'
        /\ seen'[w] = {RowAfter(head, job[w], serial + 1) : head \in seen[w]}
    BY <1>1, <2>1, <2>2 DEF LedgerTypes
  <2>4. Leaves(w)
    BY <1>1, <1>3, <2>1 DEF Leaves, Extends, LedgerTypes
  <2>5. PICK e, t : e = job[w] /\ t = TenantOf[e]
    OBVIOUS
  <2>6. Appends(w, e, t)
    BY <1>1, <2>5 DEF ThreadInv
  <2>7. e \in Events /\ t \in Tenants
    BY <2>5, <2>6, EventAssumption DEF Appends
  <2>8. ASSUME NEW x \in seen'[w]
        PROVE  /\ x = RowAfter(heads[t], e, x.sequence)
               /\ x.sequence = serial + 1
    <3>1. PICK head \in seen[w] : x = RowAfter(head, e, serial + 1)
      BY <2>3, <2>5
    <3>2. head = heads[t]
      BY <1>1, <2>6 DEF Appends
    <3>3. QED BY <3>1, <3>2 DEF RowAfter
  <2>9. ASSUME NEW x \in seen'[w] PROVE Pending(x, t)'
    <3>1. x.sequence = serial + 1
      BY <2>8
    <3>2. /\ \A r \in rows : r.sequence \in 1..serial
          /\ \A a \in Auditors : cursor[a][t] \in Nat /\ cursor[a][t] <= serial
      BY <2>7, LedgerFacts DEF Numbered, PageInv, LedgerTypes
    <3>3. \A r \in rows : r.sequence < serial + 1
      BY <1>1, <3>2
    <3>4. \A a \in Auditors : cursor[a][t] < serial + 1
      BY <1>1, <3>2
    <3>5. /\ x.sequence \in 1..(serial + 1)
          /\ \A r \in rows : r.sequence # x.sequence
      BY <1>1, <3>1, <3>2, <3>3
    <3>6. QED BY <1>1, <3>1, <3>3, <3>4, <3>5 DEF Pending, RowsOf
  <2>10. Appends(w, job[w], TenantOf[job[w]])'
    BY <1>1, <2>1, <2>2, <2>5, <2>6, <2>8, <2>9 DEF Appends
  <2>11. ASSUME NEW q \in Threads \ {w}, pc[q] = "commit",
                NEW x \in seen'[w], NEW y \in seen[q]
         PROVE  x.sequence # y.sequence
    <3>1. Appends(q, job[q], TenantOf[job[q]])
      BY <1>1, <2>11 DEF ThreadInv
    <3>2. y.sequence \in 1..serial
      BY <2>11, <3>1 DEF Appends, Pending
    <3>3. QED BY <1>1, <2>8, <3>2
  <2>12. ThreadInv'
    BY <1>1, <2>2, <2>4, <2>10, <2>11, ThreadsKeep
  <2>13. QED BY <1>1, <1>2, <2>3, <2>12, MoveKeeps DEF pages
<1>6. QED BY <1>4, <1>5

LEMMA RollbackKeeps ==
  ASSUME LedgerInv, UNCHANGED backupVars, NEW w \in Writers, Rollback(w)
  PROVE  LedgerInv'
<1>1. /\ w \in Threads /\ LedgerTypes /\ ThreadInv /\ serial \in Nat
      /\ pc[w] = "commit" /\ EndOf(w)
      /\ UNCHANGED <<backend, service, rows, heads, serial, checkpoint>>
      /\ UNCHANGED <<cursor, paged, corruptions, history>>
  BY ThreadSets, LedgerFacts DEF Rollback, fixed, stored, pages
<1>2. /\ Aims(w, "idle") /\ Leaves(w)
      /\ DOMAIN pc' = Threads /\ DOMAIN job' = Threads /\ DOMAIN seen' = Threads
      /\ DOMAIN lock' = Tenants
  BY <1>1, EndFacts, PendingStays DEF Leaves, Extends
<1>3. LedgerTypes'
  BY <1>1, <1>2 DEF LedgerTypes
<1>4. ThreadInv'
  BY <1>1, <1>2, ThreadsKeep
<1>5. service = "running"
  BY <1>1, Runs
<1>6. QED BY <1>1, <1>3, <1>4, <1>5, MoveKeeps DEF pages

LEMMA AnswerKeeps ==
  ASSUME LedgerInv, UNCHANGED backupVars, NEW a \in Auditors, Answer(a)
  PROVE  LedgerInv'
<1>1. /\ a \in Threads /\ LedgerTypes /\ ThreadInv /\ serial \in Nat
      /\ pc[a] # "idle" /\ Goto(a, "idle")
      /\ job' = [job EXCEPT ![a] = None] /\ seen' = [seen EXCEPT ![a] = {}]
      /\ checkpoint' = [checkpoint EXCEPT ![a] = <<>>]
      /\ UNCHANGED <<backend, service, rows, heads, serial, lock>>
      /\ UNCHANGED <<cursor, paged, corruptions, history>>
  BY ThreadSets, LedgerFacts DEF Answer, fixed, stored, pages
<1>2. Aims(a, "idle") /\ DOMAIN pc' = Threads
  BY <1>1, GotoAims
<1>3. LedgerTypes'
  BY <1>1, <1>2 DEF LedgerTypes
<1>4. Leaves(a)
  BY <1>1, PendingStays DEF Leaves, Extends, LedgerTypes
<1>5. ThreadInv'
  BY <1>1, <1>2, <1>4, ThreadsKeep
<1>6. service = "running"
  BY <1>1, Runs
<1>7. QED BY <1>1, <1>3, <1>5, <1>6, MoveKeeps DEF pages

LEMMA ReadRowsKeeps ==
  ASSUME LedgerInv, UNCHANGED backupVars, NEW a \in Auditors, NEW t \in Tenants,
         ReadRows(a, t)
  PROVE  LedgerInv'
<1>1. /\ a \in Threads /\ LedgerTypes /\ ThreadInv /\ serial \in Nat
      /\ service = "running"
      /\ job' = [job EXCEPT ![a] = t] /\ seen' = [seen EXCEPT ![a] = rows]
      /\ UNCHANGED <<backend, service, rows, heads, serial, lock>>
      /\ UNCHANGED <<cursor, paged, corruptions, history>>
  BY ThreadSets, LedgerFacts DEF ReadRows, Free, fixed, stored, pages
<1>2. PICK c \in {"verify", "verified", "alarm"} : Goto(a, c)
  <2>1. Goto(a, "verify") \/ Goto(a, IF Verifies(rows, t, heads[t])
                                     THEN "verified" ELSE "alarm")
    BY DEF ReadRows
  <2>2. QED BY <2>1
<1>3. Aims(a, c) /\ DOMAIN pc' = Threads
  BY <1>1, <1>2, GotoAims
<1>4. DOMAIN checkpoint' = Auditors
  BY <1>1 DEF ReadRows, LedgerTypes
<1>5. LedgerTypes' /\ job'[a] = t
  BY <1>1, <1>3, <1>4 DEF LedgerTypes
<1>6. Leaves(a)
  BY <1>1, PendingStays DEF Leaves, Extends, LedgerTypes
<1>7. ThreadInv'
  BY <1>1, <1>3, <1>5, <1>6, ThreadsKeep
<1>8. QED BY <1>1, <1>5, <1>7, MoveKeeps DEF pages

LEMMA VerifyKeeps ==
  ASSUME LedgerInv, UNCHANGED backupVars, NEW a \in Auditors, Verify(a)
  PROVE  LedgerInv'
<1>1. /\ a \in Threads /\ LedgerTypes /\ ThreadInv /\ serial \in Nat
      /\ pc[a] = "verify"
      /\ checkpoint' = [checkpoint EXCEPT ![a] = EventsOf(seen[a], job[a])]
      /\ UNCHANGED <<backend, service, rows, heads, serial, lock, job, seen>>
      /\ UNCHANGED <<cursor, paged, corruptions, history>>
  BY ThreadSets, LedgerFacts DEF Verify, fixed, stored, pages
<1>2. PICK c \in {"verified", "alarm"} : Goto(a, c)
  <2>1. Goto(a, IF Verifies(seen[a], job[a], heads[job[a]]) THEN "verified" ELSE "alarm")
    BY DEF Verify
  <2>2. QED BY <2>1
<1>3. Aims(a, c) /\ DOMAIN pc' = Threads
  BY <1>1, <1>2, GotoAims
<1>4. LedgerTypes'
  BY <1>1, <1>3 DEF LedgerTypes
<1>5. Leaves(a)
  BY <1>1, PendingStays DEF Leaves, Extends, LedgerTypes
<1>6. ThreadInv'
  BY <1>1, <1>3, <1>5, ThreadsKeep
<1>7. service = "running"
  BY <1>1, Runs
<1>8. QED BY <1>1, <1>4, <1>6, <1>7, MoveKeeps DEF pages

\* A row commits that follows the head of its tenant.
LEMMA CommitKeeps ==
  ASSUME LedgerInv, service = "running", NEW e \in Events, NEW t, t = TenantOf[e],
         NEW x, x = RowAfter(heads[t], e, x.sequence),
         serial' \in Nat, serial <= serial', x.sequence \in 1..serial',
         \A r \in rows : r.sequence # x.sequence,
         \A r \in RowsOf(rows, t) : r.sequence < x.sequence,
         \A a \in Auditors : cursor[a][t] < x.sequence,
         Commit(x), UNCHANGED <<service, corruptions, cursor, paged>>
  PROVE  /\ StoreInv' /\ ServiceInv' /\ PageInv'
         /\ x.tenant = t /\ rows' = rows \cup {x}
         /\ \A u \in Tenants \ {t} : heads'[u] = heads[u]
<1>1. /\ Numbered(rows, serial) /\ serial \in Nat /\ corruptions \in Nat
      /\ heads \in HeadMaps /\ history \in Histories
      /\ Headed(rows, heads, history) /\ (corruptions = 0 => Whole(rows, heads))
  BY LedgerFacts DEF ServiceInv
<1>2. PICK m \in Nat : m = serial'
  OBVIOUS
<1>3. x.sequence \in 1..m /\ serial <= m
  BY <1>2
<1>4. /\ x.tenant = t /\ x.event = e /\ t \in Tenants
      /\ Numbered(rows \cup {x}, m)
      /\ HeadsAfter(heads, t, x) \in HeadMaps
      /\ HistoryAfter(history, t, e) \in Histories
      /\ Headed(rows \cup {x}, HeadsAfter(heads, t, x), HistoryAfter(history, t, e))
      /\ Whole(rows, heads) => Whole(rows \cup {x}, HeadsAfter(heads, t, x))
  <2>1. Follows(x, e, t, m, rows, serial, heads)
    BY <1>2, <1>3 DEF Follows
  <2>2. QED BY <1>1, <2>1, FollowKeeps
<1>5. /\ rows' = rows \cup {x}
      /\ heads' = HeadsAfter(heads, t, x) /\ history' = HistoryAfter(history, t, e)
  BY <1>4 DEF Commit, HeadsAfter, HistoryAfter
<1>6. /\ Numbered(rows', m) /\ heads' \in HeadMaps /\ history' \in Histories
      /\ Headed(rows', heads', history') /\ (corruptions = 0 => Whole(rows', heads'))
  BY <1>1, <1>4, <1>5
<1>7. StoreInv'
  BY <1>1, <1>2, <1>6 DEF StoreInv, Intact
<1>8. ServiceInv'
  BY <1>6 DEF ServiceInv
<1>9. PageInv'
  <2>1. ASSUME NEW a \in Auditors, NEW u \in Tenants
        PROVE  /\ cursor[a][u] <= serial'
               /\ \A r \in RowsOf(rows', u) :
                     r.sequence <= cursor[a][u] => r.sequence \in paged[a]
    <3>1. /\ cursor[a][u] \in Nat /\ cursor[a][u] <= serial
          /\ \A r \in RowsOf(rows, u) :
                r.sequence <= cursor[a][u] => r.sequence \in paged[a]
      BY LedgerFacts DEF LedgerTypes, PageInv
    <3>2. cursor[a][u] <= m
      BY <1>1, <1>3, <3>1
    <3>3. ASSUME NEW r \in RowsOf(rows', u), r.sequence <= cursor[a][u]
          PROVE  r.sequence \in paged[a]
      <4>1. CASE r \in rows
        BY <3>1, <3>3, <4>1 DEF RowsOf
      <4>2. CASE r = x
        <5>1. u = t
          BY <1>4, <4>2 DEF RowsOf
        <5>2. cursor[a][u] < x.sequence /\ x.sequence \in Nat
          BY <1>3, <5>1
        <5>3. QED BY <3>1, <3>3, <4>2, <5>2
      <4>3. QED BY <1>5, <4>1, <4>2 DEF RowsOf
    <3>4. QED BY <1>2, <3>2, <3>3
  <2>2. QED BY <2>1 DEF PageInv
<1>10. QED BY <1>1, <1>4, <1>5, <1>7, <1>8, <1>9 DEF HeadsAfter

LEMMA AppendSqliteKeeps ==
  ASSUME LedgerInv, UNCHANGED backupVars, NEW w \in Writers, AppendSqlite(w)
  PROVE  LedgerInv'
<1>1. /\ w \in Threads /\ LedgerTypes /\ ThreadInv /\ serial \in Nat
      /\ pc[w] = "append" /\ EndOf(w) /\ backend = "sqlite"
      /\ UNCHANGED <<backend, service, checkpoint>>
      /\ UNCHANGED <<cursor, paged, corruptions>>
  BY ThreadSets, LedgerFacts DEF AppendSqlite, fixed, pages
<1>2. service = "running" /\ job[w] \in Events
  BY <1>1, Runs DEF ThreadInv
<1>3. \A q \in Threads : pc[q] \notin {"head", "insert", "commit"}
  BY <1>1 DEF ThreadInv, Appends
<1>4. /\ Aims(w, "idle") /\ Leaves(w)
      /\ DOMAIN pc' = Threads /\ DOMAIN job' = Threads /\ DOMAIN seen' = Threads
      /\ DOMAIN lock' = Tenants
  BY <1>1, <1>3, EndFacts DEF Leaves, Extends
<1>5. LedgerTypes'
  BY <1>1, <1>4 DEF LedgerTypes
<1>6. ThreadInv'
  BY <1>1, <1>4, ThreadsKeep
<1>7. CASE Recorded(job[w])
  <2>1. UNCHANGED <<rows, heads, serial, history>>
    BY <1>7 DEF AppendSqlite, stored
  <2>2. QED BY <1>1, <1>2, <1>5, <1>6, <2>1, MoveKeeps DEF pages
<1>8. CASE ~Recorded(job[w])
  <2>1. PICK e \in Events, t \in Tenants : e = job[w] /\ t = TenantOf[e]
    BY <1>2, EventAssumption
  <2>2. PICK x : x = RowAfter(heads[t], e, serial + 1)
    OBVIOUS
  <2>3. Commit(x) /\ serial' = serial + 1
    BY <1>8, <2>1, <2>2 DEF AppendSqlite
  <2>4. x.sequence = serial + 1
    BY <2>2 DEF RowAfter
  <2>5. \A r \in rows : r.sequence \in 1..serial
    BY LedgerFacts DEF Numbered
  <2>6. \A a \in Auditors : cursor[a][t] \in Nat /\ cursor[a][t] <= serial
    BY LedgerFacts DEF PageInv, LedgerTypes
  <2>7. /\ \A r \in rows : r.sequence # x.sequence /\ r.sequence < x.sequence
        /\ \A a \in Auditors : cursor[a][t] < x.sequence
        /\ x.sequence \in 1..serial' /\ serial <= serial' /\ serial' \in Nat
    BY <1>1, <2>3, <2>4, <2>5, <2>6
  <2>8. \A r \in RowsOf(rows, t) : r.sequence < x.sequence
    BY <2>7 DEF RowsOf
  <2>9. StoreInv' /\ ServiceInv' /\ PageInv'
    BY <1>1, <1>2, <2>1, <2>2, <2>3, <2>4, <2>7, <2>8, CommitKeeps
  <2>10. CopyInv' /\ QuietInv'
    BY <1>1, CopiesStay DEF backupVars, restores
  <2>11. QED BY <1>5, <1>6, <2>9, <2>10 DEF LedgerInv
<1>9. QED BY <1>7, <1>8

LEMMA CommitPostgresKeeps ==
  ASSUME LedgerInv, UNCHANGED backupVars, NEW w \in Writers, CommitPostgres(w)
  PROVE  LedgerInv'
<1>1. /\ w \in Threads /\ LedgerTypes /\ ThreadInv /\ serial \in Nat
      /\ pc[w] = "commit" /\ EndOf(w)
      /\ UNCHANGED <<backend, service, serial, checkpoint>>
      /\ UNCHANGED <<cursor, paged, corruptions>>
  BY ThreadSets, LedgerFacts DEF CommitPostgres, fixed, pages
<1>2. PICK x \in seen[w] : Commit(x)
  BY DEF CommitPostgres
<1>3. PICK e, t : e = job[w] /\ t = TenantOf[e]
  OBVIOUS
<1>4. Appends(w, e, t)
  BY <1>1, <1>3 DEF ThreadInv
<1>5. /\ e \in Events /\ t \in Tenants /\ lock[t] = w
      /\ x = RowAfter(heads[t], e, x.sequence) /\ Pending(x, t)
  BY <1>1, <1>2, <1>3, <1>4, EventAssumption DEF Appends
<1>6. service = "running"
  BY <1>1, Runs
<1>7. /\ StoreInv' /\ ServiceInv' /\ PageInv'
      /\ x.tenant = t /\ rows' = rows \cup {x}
      /\ \A u \in Tenants \ {t} : heads'[u] = heads[u]
  BY <1>1, <1>2, <1>3, <1>5, <1>6, CommitKeeps DEF Pending
<1>8. /\ Aims(w, "idle")
      /\ \A q \in Threads \ {w} : /\ job'[q] = job[q] /\ seen'[q] = seen[q]
                                  /\ \A u \in Tenants : lock[u] = q => lock'[u] = q
      /\ DOMAIN pc' = Threads /\ DOMAIN job' = Threads /\ DOMAIN seen' = Threads
      /\ DOMAIN lock' = Tenants
  BY <1>1, EndFacts
<1>9. LedgerTypes'
  BY <1>1, <1>8 DEF LedgerTypes
<1>10. ASSUME NEW q \in Threads \ {w}, NEW u \in Tenants, Extends(q, u)
       PROVE  /\ heads'[u] = heads[u]
              /\ \A y : pc[q] = "commit" /\ y \in seen[q] /\ Pending(y, u) =>
                    Pending(y, u)'
  <2>1. u # t
    BY <1>5, <1>10 DEF Extends
  <2>2. ASSUME NEW y \in seen[q], pc[q] = "commit", Pending(y, u) PROVE Pending(y, u)'
    <3>1. x.sequence # y.sequence
      BY <1>1, <2>2 DEF ThreadInv
    <3>2. RowsOf(rows', u) = RowsOf(rows, u)
      BY <1>7, <2>1, OtherRows
    <3>3. \A r \in rows' : r.sequence # y.sequence
      BY <1>7, <2>2, <3>1 DEF Pending
    <3>4. QED BY <1>1, <2>2, <3>2, <3>3 DEF Pending
  <2>3. QED BY <1>7, <2>1, <2>2
<1>11. Leaves(w)
  BY <1>8, <1>10 DEF Leaves, Extends
<1>12. ThreadInv'
  BY <1>1, <1>8, <1>11, ThreadsKeep
<1>13. CopyInv' /\ QuietInv'
  BY <1>1, CopiesStay DEF backupVars, restores
<1>14. QED BY <1>7, <1>9, <1>12, <1>13 DEF LedgerInv

\* A step that moves no thread.
LEMMA StillKeeps ==
  ASSUME ThreadInv, UNCHANGED <<backend, pc, job, seen, lock, heads>>,
         \A x, t : Pending(x, t) /\ t \in Tenants => Pending(x, t)'
  PROVE  ThreadInv'
<1>1. PICK p : p \notin Threads
  BY NoSetContainsEverything
<1>2. Aims(p, "idle") /\ Leaves(p)
  BY <1>1 DEF Aims, Leaves, Extends
<1>3. QED BY <1>2, ThreadsKeep

LEMMA PageKeeps ==
  ASSUME LedgerInv, UNCHANGED backupVars, NEW a \in Auditors, NEW t \in Tenants, Page(a, t)
  PROVE  LedgerInv'
<1>1. /\ LedgerTypes /\ ThreadInv /\ PageInv /\ serial \in Nat
      /\ Numbered(rows, serial) /\ rows \subseteq Row /\ Ordered(rows)
      /\ service = "running"
      /\ UNCHANGED <<backend, service, rows, heads, serial, lock, checkpoint>>
      /\ UNCHANGED <<pc, job, seen, corruptions, history>>
  BY LedgerFacts DEF Page, Free, fixed, stored, threads
<1>2. PICK page : page = {r \in RowsOf(rows, t) : r.sequence > cursor[a][t]}
  OBVIOUS
<1>3. PICK last : last = Last(InOrder(page))
  OBVIOUS
<1>4. /\ page # {}
      /\ paged' = [paged EXCEPT ![a] = @ \cup {r.sequence : r \in page}]
      /\ cursor' = [cursor EXCEPT ![a][t] = last.sequence]
  BY <1>2, <1>3 DEF Page
<1>5. last \in page /\ last \in RowsOf(rows, t) /\ last.sequence \in 1..serial
  <2>1. Ordered(page) /\ page # {}
    BY <1>1, <1>2, <1>4, OrderedPart DEF RowsOf
  <2>2. Cardinality(page) \in Nat /\ Cardinality(page) # 0
    BY <2>1, FS_CardinalityType, FS_EmptySet DEF Ordered
  <2>3. /\ InOrder(page) \in [1..Cardinality(page) -> page]
        /\ Len(InOrder(page)) = Cardinality(page)
    BY <2>1, InOrderFacts
  <2>4. last \in page
    BY <1>3, <2>2, <2>3 DEF Last
  <2>5. QED BY <1>1, <1>2, <2>4 DEF RowsOf, Numbered
<1>6. cursor \in [Auditors -> [Tenants -> Nat]]
  BY <1>1 DEF LedgerTypes
<1>7. /\ cursor' \in [Auditors -> [Tenants -> Nat]]
      /\ \A b \in Auditors : \A u \in Tenants :
            cursor'[b][u] = IF b = a /\ u = t THEN last.sequence ELSE cursor[b][u]
  BY <1>1, <1>4, <1>5, <1>6
<1>8. /\ DOMAIN paged' = Auditors
      /\ \A b \in Auditors : paged[b] \subseteq paged'[b]
      /\ {r.sequence : r \in page} \subseteq paged'[a]
  BY <1>1, <1>4 DEF LedgerTypes
<1>9. LedgerTypes'
  BY <1>1, <1>7, <1>8 DEF LedgerTypes
<1>10. ASSUME NEW b \in Auditors, NEW u \in Tenants
       PROVE  /\ cursor'[b][u] <= serial
              /\ \A r \in RowsOf(rows, u) :
                    r.sequence <= cursor'[b][u] => r.sequence \in paged'[b]
  <2>1. /\ cursor[b][u] <= serial
        /\ \A r \in RowsOf(rows, u) : r.sequence <= cursor[b][u] => r.sequence \in paged[b]
    BY <1>1 DEF PageInv
  <2>2. CASE b = a /\ u = t
    <3>1. cursor'[b][u] <= serial
      BY <1>1, <1>5, <1>7, <2>2
    <3>2. ASSUME NEW r \in RowsOf(rows, t) PROVE r.sequence \in paged'[a]
      <4>1. CASE r.sequence <= cursor[a][t]
        BY <1>8, <2>1, <2>2, <3>2, <4>1
      <4>2. CASE ~(r.sequence <= cursor[a][t])
        <5>1. r.sequence \in Nat /\ cursor[a][t] \in Nat
          BY <1>1, <1>6, <3>2 DEF RowsOf, Ordered
        <5>2. r \in page
          BY <1>2, <3>2, <4>2, <5>1
        <5>3. QED BY <1>8, <5>2
      <4>3. QED BY <4>1, <4>2
    <3>3. QED BY <2>2, <3>1, <3>2
  <2>3. CASE ~(b = a /\ u = t)
    BY <1>7, <1>8, <2>1, <2>3
  <2>4. QED BY <2>2, <2>3
<1>11. PageInv'
  BY <1>1, <1>10 DEF PageInv
<1>12. ASSUME NEW x, NEW u \in Tenants, Pending(x, u) PROVE Pending(x, u)'
  <2>1. \A b \in Auditors : cursor'[b][u] < x.sequence
    BY <1>5, <1>7, <1>12 DEF Pending
  <2>2. QED BY <1>1, <1>12, <2>1 DEF Pending, RowsOf
<1>13. ThreadInv'
  BY <1>1, <1>12, StillKeeps
<1>14. StoreInv' /\ ServiceInv'
  BY <1>1, StoreStays
<1>15. CopyInv' /\ QuietInv'
  BY <1>1, CopiesStay DEF backupVars, restores
<1>16. QED BY <1>9, <1>11, <1>13, <1>14, <1>15 DEF LedgerInv

LEMMA CorruptKeeps ==
  ASSUME LedgerInv, UNCHANGED backupVars, Corrupt
  PROVE  LedgerInv'
<1>1. /\ LedgerTypes /\ StoreInv /\ ServiceInv /\ ThreadInv /\ PageInv /\ serial \in Nat
      /\ Numbered(rows, serial) /\ corruptions \in Nat
      /\ corruptions' = corruptions + 1
      /\ UNCHANGED <<backend, service, heads, serial, lock, checkpoint>>
      /\ UNCHANGED <<pc, job, seen, cursor, paged, history>>
  BY LedgerFacts DEF Corrupt, fixed, threads, pages
<1>2. PICK r \in rows : /\ r.hash # None
                        /\ \/ rows' = rows \ {r}
                           \/ rows' = (rows \ {r}) \cup {[r EXCEPT !.event = Forged]}
  BY DEF Corrupt
<1>3. /\ Numbered(rows', serial)
      /\ \A q \in rows' : \E p \in rows : q.sequence = p.sequence /\ q.tenant = p.tenant
      /\ ~Fresh(rows, heads, history)
      /\ Headed(rows, heads, history) => Headed(rows', heads, history)
  BY <1>1, <1>2, CorruptedKeeps
<1>4. Headed(rows', heads, history)
  BY <1>1, <1>3 DEF StoreInv, Intact
<1>5. corruptions' \in Nat /\ corruptions' # 0 /\ corruptions' > 0
  BY <1>1
<1>6. StoreInv'
  BY <1>1, <1>3, <1>4, <1>5 DEF StoreInv, Intact
<1>7. ServiceInv'
  BY <1>1, <1>4, <1>5 DEF ServiceInv
<1>8. \A u : \A q \in RowsOf(rows', u) : \E p \in RowsOf(rows, u) : q.sequence = p.sequence
  BY <1>3 DEF RowsOf
<1>9. PageInv'
  BY <1>1, <1>8 DEF PageInv
<1>10. ASSUME NEW x, NEW u \in Tenants, Pending(x, u) PROVE Pending(x, u)'
  BY <1>1, <1>3, <1>8, <1>10 DEF Pending
<1>11. ThreadInv'
  BY <1>1, <1>10, StillKeeps
<1>12. LedgerTypes'
  BY <1>1 DEF LedgerTypes
<1>13. CopyInv' /\ QuietInv'
  BY <1>1, CopiesStay DEF backupVars, restores
<1>14. QED BY <1>6, <1>7, <1>9, <1>11, <1>12, <1>13 DEF LedgerInv

LEMMA LedgerStepKeeps ==
  ASSUME LedgerInv, UNCHANGED backupVars, LedgerStep
  PROVE  LedgerInv'
<1>1. CASE Corrupt
  BY <1>1, CorruptKeeps
<1>2. ASSUME NEW w \in Writers,
             \/ \E e \in Events : Begin(w, e)
             \/ AppendSqlite(w) \/ LockChain(w) \/ ReadHeadRow(w)
             \/ Insert(w) \/ CommitPostgres(w) \/ Rollback(w)
      PROVE  LedgerInv'
  BY <1>2, BeginKeeps, AppendSqliteKeeps, LockChainKeeps, ReadHeadRowKeeps, InsertKeeps,
     CommitPostgresKeeps, RollbackKeeps
<1>3. ASSUME NEW a \in Auditors,
             \/ \E t \in Tenants : Page(a, t) \/ ReadRows(a, t)
             \/ Verify(a) \/ Answer(a)
      PROVE  LedgerInv'
  BY <1>3, PageKeeps, ReadRowsKeeps, VerifyKeeps, AnswerKeeps
<1>4. QED BY <1>1, <1>2, <1>3 DEF LedgerStep

-------------------------------------------------------------------------------
(* The steps around the ledger. *)

LEMMA IdleKeeps ==
  ASSUME \A p \in Threads : pc'[p] = "idle"
  PROVE  ThreadInv'
  BY DEF ThreadInv

LEMMA ServeKeeps ==
  ASSUME LedgerInv, Serve
  PROVE  LedgerInv'
<1>1. /\ LedgerTypes /\ StoreInv /\ ServiceInv /\ PageInv /\ QuietInv
      /\ Numbered(rows, serial) /\ corruptions \in Nat
      /\ heads \in HeadMaps /\ history \in Histories
      /\ rows \subseteq Row /\ Ordered(rows)
      /\ service = "stopped" /\ ~unreported
      /\ UNCHANGED <<backend, serial, lock, pc, job, seen, checkpoint>>
      /\ UNCHANGED <<cursor, paged, corruptions, history>>
      /\ UNCHANGED <<archive, undone, unreported>> /\ sidecar' = (backend = "sqlite")
  BY LedgerFacts DEF Serve, Open, fixed, threads, pages, restores
<1>2. \A p \in Threads : pc'[p] = "idle"
  BY <1>1 DEF ServiceInv
<1>3. ThreadInv'
  BY <1>2, IdleKeeps
<1>4. CopyInv' /\ QuietInv'
  <2>1. CopyInv'
    BY <1>1, LedgerFacts DEF CopyInv
  <2>2. undone' = {} /\ ~unreported'
    BY <1>1 DEF QuietInv
  <2>3. sidecar' => backend' = "sqlite"
    BY <1>1
  <2>4. QED BY <2>1, <2>2, <2>3 DEF QuietInv
<1>5. CASE Acceptable(rows, heads)
  <2> DEFINE C == Completed(rows)
             G == [t \in Tenants |-> HeadOf(rows, t)]
  <2>1. service' = "running" /\ rows' = C /\ heads' = G
    BY <1>5 DEF Serve, Open
  <2>2. Numbered(C, serial) /\ G \in HeadMaps /\ Headed(C, G, history) /\ Whole(C, G)
    BY <1>1, <1>5, OpenedIsWhole DEF StoreInv, Intact
  <2>3. \A t : \A c \in RowsOf(C, t) : \E r \in RowsOf(rows, t) : r.sequence = c.sequence
    BY <1>1, FilledFacts DEF RowsOf
  <2> HIDE DEF C, G
  <2>4. StoreInv' /\ ServiceInv'
    BY <1>1, <2>1, <2>2 DEF StoreInv, Intact, ServiceInv
  <2>5. PageInv'
    BY <1>1, <2>1, <2>3 DEF PageInv
  <2>6. LedgerTypes'
    BY <1>1, <2>1 DEF LedgerTypes
  <2>7. QED BY <1>3, <1>4, <2>4, <2>5, <2>6 DEF LedgerInv
<1>6. CASE ~Acceptable(rows, heads)
  <2>1. service' = "refused" /\ UNCHANGED <<rows, heads>>
    BY <1>6 DEF Serve, Open
  <2>2. ~(Fresh(rows, heads, history) \/ Whole(rows, heads))
    BY <1>1, <1>6, SoundIsAccepted
  <2>3. corruptions > 0
    BY <1>1, <2>2 DEF StoreInv, Intact
  <2>4. StoreInv'
    BY <1>1, <2>1 DEF StoreInv
  <2>5. ServiceInv'
    BY <1>1, <1>2, <2>1, <2>3 DEF ServiceInv
  <2>6. PageInv' /\ LedgerTypes'
    BY <1>1, <2>1 DEF PageInv, LedgerTypes
  <2>7. QED BY <1>3, <1>4, <2>4, <2>5, <2>6 DEF LedgerInv
<1>7. QED BY <1>5, <1>6

LEMMA HaltKeeps ==
  ASSUME LedgerInv, Halt
  PROVE  LedgerInv'
<1>1. /\ LedgerTypes /\ StoreInv /\ PageInv /\ QuietInv /\ CopyInv
      /\ service # "stopped" /\ service' = "stopped"
      /\ lock' = [t \in Tenants |-> None] /\ pc' = [p \in Threads |-> "idle"]
      /\ job' = [p \in Threads |-> None] /\ seen' = [p \in Threads |-> {}]
      /\ checkpoint' = [p \in Auditors |-> <<>>]
      /\ UNCHANGED <<backend, rows, heads, serial, cursor, paged, corruptions, history>>
      /\ UNCHANGED <<archive, undone, unreported>> /\ sidecar' \in {FALSE, sidecar}
  BY LedgerFacts DEF Halt, Stop, fixed, stored, pages, restores
<1>2. LedgerTypes'
  BY <1>1 DEF LedgerTypes
<1>3. StoreInv' /\ PageInv' /\ CopyInv'
  BY <1>1 DEF StoreInv, PageInv, CopyInv
<1>4. \A p \in Threads : pc'[p] = "idle"
  BY <1>1
<1>5. ServiceInv' /\ ThreadInv'
  BY <1>1, <1>4, IdleKeeps DEF ServiceInv
<1>6. QuietInv'
  <2>1. ~unreported /\ undone = {}
    BY <1>1 DEF QuietInv
  <2>2. sidecar' => sidecar
    <3>1. CASE sidecar' = FALSE
      BY <3>1
    <3>2. CASE sidecar' = sidecar
      BY <3>2
    <3>3. QED BY <1>1, <3>1, <3>2
  <2>3. QED BY <1>1, <2>1, <2>2 DEF QuietInv
<1>7. QED BY <1>2, <1>3, <1>5, <1>6 DEF LedgerInv

\* A step that touches neither the ledger nor the log of the database.
LEMMA AsideKeeps ==
  ASSUME LedgerInv, UNCHANGED ledgerVars, CopyInv', QuietInv'
  PROVE  LedgerInv'
<1>1. /\ UNCHANGED <<backend, service, rows, heads, serial, lock, pc, job, seen>>
      /\ UNCHANGED <<checkpoint, cursor, paged, corruptions, history>>
  BY DEF ledgerVars, fixed, stored, threads, pages
<1>2. LedgerTypes' /\ StoreInv' /\ ServiceInv' /\ PageInv'
  BY <1>1, LedgerFacts DEF LedgerTypes, StoreInv, ServiceInv, PageInv
<1>3. \A x, t : Pending(x, t) => Pending(x, t)'
  BY <1>1 DEF Pending
<1>4. ThreadInv'
  BY <1>1, <1>3, LedgerFacts, StillKeeps
<1>5. QED BY <1>2, <1>4 DEF LedgerInv

\* The tools keep the databases they have, and a copy is of the one that is there.
LEMMA ToolStepsKeep ==
  ASSUME LedgerInv, UNCHANGED <<ledgerVars, sidecar, undone, unreported>>,
         \A i \in DOMAIN archive' : \/ i \in DOMAIN archive /\ archive'[i] = archive[i]
                                    \/ archive'[i] = Database
  PROVE  LedgerInv'
<1>1. Sound(Database)
  BY LedgerFacts DEF StoreInv, Sound, Database
<1>2. UNCHANGED <<backend, service>>
  BY DEF ledgerVars, fixed
<1>3. CopyInv'
  <2>1. /\ \A i \in DOMAIN archive : Sound(archive[i])
        /\ \A old \in undone : Sound(old)
    BY LedgerFacts DEF CopyInv
  <2>2. \A i \in DOMAIN archive' : Sound(archive'[i])
    BY <1>1, <2>1
  <2>3. QED BY <2>1, <2>2 DEF CopyInv, Sound
<1>4. QuietInv'
  BY <1>2, LedgerFacts DEF QuietInv
<1>5. QED BY <1>3, <1>4, AsideKeeps

LEMMA BecomesKeeps ==
  ASSUME LedgerInv, service = "stopped", ~sidecar, NEW copy, NEW from, Becomes(copy, from),
         Sound(copy), from # copy.line =>
            Fresh(copy.rows, copy.heads, copy.history) \/ Whole(copy.rows, copy.heads)
  PROVE  LedgerTypes' /\ StoreInv' /\ ServiceInv' /\ ThreadInv' /\ PageInv'
<1>1. /\ UNCHANGED <<backend, service, lock, pc, job, seen, checkpoint>>
      /\ rows' = copy.rows /\ heads' = copy.heads /\ serial' = copy.serial
      /\ history' = copy.history
      /\ corruptions' = IF from = copy.line THEN copy.corruptions ELSE 0
      /\ cursor' = [p \in Auditors |-> [t \in Tenants |-> 0]]
      /\ paged' = [p \in Auditors |-> {}]
  BY DEF Becomes, fixed, threads
<1>2. LedgerTypes'
  BY <1>1, LedgerFacts DEF LedgerTypes
<1>3. \A p \in Threads : pc'[p] = "idle"
  BY <1>1, LedgerFacts DEF ServiceInv
<1>4. ServiceInv' /\ ThreadInv'
  BY <1>1, <1>3, IdleKeeps DEF ServiceInv
<1>5. StoreInv'
  <2>1. Intact(copy.rows, copy.heads, copy.serial, copy.corruptions, copy.history)
    BY DEF Sound
  <2>2. Intact(copy.rows, copy.heads, copy.serial, corruptions', copy.history)
    BY <1>1, <2>1 DEF Intact
  <2>3. QED BY <1>1, <2>2 DEF StoreInv
<1>6. Numbered(rows', serial')
  BY <1>5 DEF StoreInv, Intact
<1>7. \A r \in rows' : r.sequence \in 1..serial' /\ serial' \in Nat
  BY <1>6 DEF Numbered
<1>8. ASSUME NEW a \in Auditors, NEW t \in Tenants
      PROVE  /\ cursor'[a][t] <= serial'
             /\ \A r \in RowsOf(rows', t) : ~(r.sequence <= cursor'[a][t])
  <2>1. cursor'[a][t] = 0 /\ serial' \in Nat
    BY <1>1, <1>6 DEF Numbered
  <2>2. QED BY <1>7, <2>1 DEF RowsOf
<1>9. PageInv'
  BY <1>8 DEF PageInv
<1>10. QED BY <1>2, <1>4, <1>5, <1>9

LEMMA RestoresKeep ==
  ASSUME LedgerInv, NEW i \in DOMAIN archive, RestoreSqlite(i) \/ RestorePostgres(i)
  PROVE  LedgerInv'
<1>1. /\ CopyInv /\ QuietInv /\ service = "stopped" /\ ChainsHold(archive[i])
      /\ Sound(archive[i]) /\ Becomes(archive[i], i)
      /\ UNCHANGED <<archive, sidecar>>
  BY LedgerFacts DEF RestoreSqlite, RestorePostgres, Restorable, CopyInv
<1>2. ~sidecar
  BY <1>1 DEF RestoreSqlite, RestorePostgres, QuietInv
<1>3. \/ Fresh(archive[i].rows, archive[i].heads, archive[i].history)
      \/ Whole(archive[i].rows, archive[i].heads)
  BY <1>1, HeldIsSound
<1>4. LedgerTypes' /\ StoreInv' /\ ServiceInv' /\ ThreadInv' /\ PageInv'
  BY <1>1, <1>2, <1>3, BecomesKeeps
<1>5. service' = "stopped" /\ backend' = backend
  BY <1>1 DEF Becomes, fixed
<1>6. Sound(Database)
  BY LedgerFacts DEF StoreInv, Sound, Database
<1>7. CopyInv' /\ QuietInv'
  <2>1. CASE RestoreSqlite(i)
    <3>1. undone' = undone \cup {Database} /\ unreported' = TRUE
      BY <2>1 DEF RestoreSqlite
    <3>2. CopyInv'
      BY <1>1, <1>6, <3>1 DEF CopyInv
    <3>3. QED BY <1>1, <1>2, <1>5, <3>1, <3>2 DEF QuietInv
  <2>2. CASE RestorePostgres(i)
    <3>1. UNCHANGED <<undone, unreported>>
      BY <2>2 DEF RestorePostgres
    <3>2. QED BY <1>1, <1>2, <1>5, <3>1 DEF CopyInv, QuietInv
  <2>3. QED BY <2>1, <2>2
<1>8. QED BY <1>4, <1>7 DEF LedgerInv

LEMMA PowerKeeps ==
  ASSUME LedgerInv, PowerLoss
  PROVE  LedgerInv'
<1>1. /\ CopyInv /\ QuietInv /\ service = "stopped"
      /\ undone' = {} /\ unreported' = FALSE /\ UNCHANGED <<sidecar, archive>>
  BY LedgerFacts DEF PowerLoss
<1>2. CopyInv'
  BY <1>1 DEF CopyInv
<1>3. CASE UNCHANGED <<ledgerVars, links, line>>
  <2>1. UNCHANGED ledgerVars /\ UNCHANGED backend
    BY <1>3 DEF ledgerVars, fixed
  <2>2. QuietInv'
    BY <1>1, <2>1 DEF QuietInv
  <2>3. QED BY <1>2, <2>1, <2>2, AsideKeeps
<1>4. CASE \E old \in undone : Becomes(old, old.line)
  <2>1. PICK old \in undone : Becomes(old, old.line)
    BY <1>4
  <2>2. Sound(old) /\ ~sidecar
    BY <1>1 DEF CopyInv, QuietInv
  <2>3. LedgerTypes' /\ StoreInv' /\ ServiceInv' /\ ThreadInv' /\ PageInv'
    BY <1>1, <2>1, <2>2, BecomesKeeps
  <2>4. backend' = backend
    BY <2>1 DEF Becomes, fixed
  <2>5. QuietInv'
    BY <1>1, <2>2, <2>4 DEF QuietInv
  <2>6. QED BY <1>2, <2>3, <2>5 DEF LedgerInv
<1>5. QED BY <1>3, <1>4 DEF PowerLoss

LEMMA LegacyFacts ==
  ASSUME NEW S \in Legacies
  PROVE  /\ Numbered(LegacyRows(S), Cardinality(S))
         /\ \A r \in LegacyRows(S) : r.previous = None /\ r.hash = None
<1> DEFINE n == Cardinality(S)
           order == SetToSeq(S)
<1>1. S \subseteq Events /\ IsFiniteSet(S) /\ n \in Nat
  BY LegacyAssumption, FS_CardinalityType
<1>2. order \in [1..n -> S]
  <2>1. \E f \in [1..n -> S] : IsInjective(f)
    <3>1. ExistsBijection(1..n, S)
      BY <1>1, FS_CardinalityType
    <3>2. PICK f \in Bijection(1..n, S) : TRUE
      BY <3>1 DEF ExistsBijection
    <3>3. f \in [1..n -> S] /\ \A a, b \in DOMAIN f : f[a] = f[b] => a = b
      BY <3>2 DEF Bijection, Injection, IsInjective
    <3>4. QED BY <3>3 DEF IsInjective
  <2>2. QED BY <2>1 DEF SetToSeq
<1> HIDE DEF order
<1>3. LegacyRows(S) = {Plain(order[i], i) : i \in 1..n}
  BY <1>2 DEF LegacyRows, order
<1>4. ASSUME NEW i \in 1..n
      PROVE  /\ Plain(order[i], i) \in Row
             /\ Plain(order[i], i).sequence = i
             /\ Plain(order[i], i).previous = None /\ Plain(order[i], i).hash = None
  <2>1. order[i] \in Events /\ TenantOf[order[i]] \in Tenants
    BY <1>1, <1>2, EventAssumption
  <2>2. QED BY <1>1, <2>1 DEF Plain, Row, Said, Hashes
<1>5. IsFiniteSet(LegacyRows(S))
  <2> DEFINE f == [i \in 1..n |-> Plain(order[i], i)]
  <2>1. f \in Surjection(1..n, LegacyRows(S))
    BY <1>3 DEF Surjection
  <2>2. IsFiniteSet(1..n)
    BY <1>1, FS_Interval
  <2>3. QED BY <2>1, <2>2, FS_Surjection
<1>6. /\ LegacyRows(S) \subseteq Row
      /\ \A r \in LegacyRows(S) :
            r.previous = None /\ r.hash = None /\ r.sequence \in 1..n
      /\ \A q, r \in LegacyRows(S) : q.sequence = r.sequence => q = r
  BY <1>3, <1>4
<1>7. QED BY <1>1, <1>5, <1>6 DEF Numbered, Ordered

LEMMA InitLedgerHolds ==
  ASSUME Init
  PROVE  LedgerInv
<1>1. /\ service = "stopped" /\ backend \in {"sqlite", "postgresql"}
      /\ heads = [t \in Tenants |-> NoHead] /\ lock = [t \in Tenants |-> None]
      /\ pc = [p \in Threads |-> "idle"] /\ job = [p \in Threads |-> None]
      /\ seen = [p \in Threads |-> {}]
      /\ cursor = [p \in Auditors |-> [t \in Tenants |-> 0]]
      /\ paged = [p \in Auditors |-> {}] /\ checkpoint = [p \in Auditors |-> <<>>]
      /\ corruptions = 0 /\ history = [t \in Tenants |-> EventsOf(rows, t)]
      /\ archive = <<>> /\ undone = {} /\ sidecar = FALSE /\ unreported = FALSE
  BY DEF Init, InitLedger
<1>2. /\ Numbered(rows, serial)
      /\ \A r \in rows : r.previous = None /\ r.hash = None
  BY LegacyFacts DEF Init, InitLedger
<1>3. rows \subseteq Row /\ Ordered(rows) /\ serial \in Nat
  BY <1>2 DEF Numbered
<1>4. history \in Histories
  BY <1>1, <1>3, EventsFacts DEF Histories
<1>5. heads \in HeadMaps
  <2>1. <<>> \in Seq(Said)
    OBVIOUS
  <2>2. QED BY <1>1, <2>1 DEF HeadMaps, Heads, NoHead
<1>6. Fresh(rows, heads, history)
  BY <1>1, <1>2 DEF Fresh
<1>7. StoreInv
  BY <1>1, <1>2, <1>4, <1>5, <1>6 DEF StoreInv, Intact
<1>8. ServiceInv /\ ThreadInv
  BY <1>1 DEF ServiceInv, ThreadInv
<1>9. PageInv
  <2>1. \A r \in rows : r.sequence \in 1..serial
    BY <1>2 DEF Numbered
  <2>2. QED BY <1>1, <1>3, <2>1 DEF PageInv, RowsOf
<1>10. LedgerTypes /\ CopyInv /\ QuietInv
  BY <1>1 DEF LedgerTypes, CopyInv, QuietInv
<1>11. QED BY <1>7, <1>8, <1>9, <1>10 DEF LedgerInv

LEMMA NextKeepsLedger == IInv /\ LedgerInv /\ [Next]_vars => LedgerInv'
<1>1. SUFFICES ASSUME IInv, LedgerInv, [Next]_vars PROVE LedgerInv'
  OBVIOUS
<1> USE <1>1
<1>2. CASE Ledger
  BY <1>2, LedgerStepKeeps DEF Ledger
<1>3. CASE Serve \/ Halt
  BY <1>3, ServeKeeps, HaltKeeps
<1>4. ASSUME UNCHANGED <<ledgerVars, sidecar, undone, unreported, archive>>
      PROVE  LedgerInv'
  BY <1>4, ToolStepsKeep
<1>5. CASE Link \/ UNCHANGED vars
  BY <1>4, <1>5 DEF Link, restores, vars, backupVars
<1>6. CASE Start \/ Poll \/ Point \/ Record
  BY <1>4, <1>6 DEF Start, Poll, Point, Record, ToolOnly, restores
<1>7. ASSUME NEW p \in Tools,
             \/ Install(p) \/ FlushArtifact(p) \/ Describe(p) \/ Seal(p)
             \/ Fails(p) \/ Killed(p)
      PROVE  LedgerInv'
  BY <1>4, <1>7 DEF Install, FlushArtifact, Describe, Seal, Fails, Killed, ToolOnly, restores
<1>8. ASSUME NEW p \in Tools, Copy(p) PROVE LedgerInv'
  <2>1. /\ archive' = Append(archive, Database)
        /\ UNCHANGED <<ledgerVars, sidecar, undone, unreported>>
    BY <1>8 DEF Copy, ToolOnly, restores
  <2>2. /\ Grows
        /\ DOMAIN archive' = DOMAIN archive \cup {Len(archive')}
        /\ archive'[Len(archive')] = Database
    BY <2>1, Appended DEF IInv
  <2>3. QED BY <2>1, <2>2, ToolStepsKeep DEF Grows
<1>9. ASSUME NEW i \in DOMAIN archive, RestoreSqlite(i) \/ RestorePostgres(i)
      PROVE  LedgerInv'
  BY <1>9, RestoresKeep
<1>10. CASE Sync
  <2>1. /\ UNCHANGED <<ledgerVars, sidecar, archive>> /\ UNCHANGED <<service, backend>>
        /\ undone' = {} /\ unreported' = FALSE
    BY <1>10 DEF Sync, ledgerVars, fixed
  <2>2. CopyInv' /\ QuietInv'
    BY <2>1, LedgerFacts DEF CopyInv, QuietInv
  <2>3. QED BY <2>1, <2>2, AsideKeeps
<1>11. CASE PowerLoss
  BY <1>11, PowerKeeps
<1>12. QED BY <1>2, <1>3, <1>5, <1>6, <1>7, <1>8, <1>9, <1>10, <1>11 DEF Next

-------------------------------------------------------------------------------
(* The checkpoints. *)

\* Only what verifies the chain of a tenant ends in "verified".
LEMMA VerifiedBy ==
  ASSUME LedgerInv, [Next]_vars, NEW a \in Auditors, pc'[a] = "verified", pc[a] # "verified"
  PROVE  Verify(a) \/ \E t \in Tenants : ReadRows(a, t)
<1>1. DOMAIN pc = Threads /\ a \in Threads
  BY ThreadSets, LedgerFacts DEF LedgerTypes
<1>2. ASSUME NEW p, NEW c, Goto(p, c) PROVE c = "verified" /\ p = a
  BY <1>1, <1>2 DEF Goto
<1>3. pc' # pc
  OBVIOUS
<1>4. ~Stop
  BY <1>1 DEF Stop
<1>5. ~UNCHANGED threads
  BY <1>3 DEF threads
<1>6. ~UNCHANGED ledgerVars
  BY <1>5 DEF ledgerVars
<1>7. \A copy, from : ~Becomes(copy, from)
  BY <1>5 DEF Becomes
<1>8. CASE LedgerStep
  <2>1. ~Corrupt
    BY <1>5 DEF Corrupt
  <2>2. ASSUME NEW w \in Writers
        PROVE  /\ \A e \in Events : ~Begin(w, e)
               /\ ~AppendSqlite(w) /\ ~LockChain(w) /\ ~ReadHeadRow(w)
               /\ ~Insert(w) /\ ~CommitPostgres(w) /\ ~Rollback(w)
    <3>1. ~EndOf(w) /\ ~Goto(w, "append") /\ ~Goto(w, "head") /\ ~Goto(w, "insert")
          /\ ~Goto(w, "commit")
      BY <1>2 DEF EndOf
    <3>2. QED BY <3>1 DEF Begin, AppendSqlite, LockChain, ReadHeadRow, Insert,
                          CommitPostgres, Rollback
  <2>3. ASSUME NEW b \in Auditors
        PROVE  /\ ~Answer(b)
               /\ Verify(b) => b = a
               /\ \A t \in Tenants : ~Page(b, t) /\ (ReadRows(b, t) => b = a)
    <3>1. ~Goto(b, "idle") /\ ~Goto(b, "verify")
      BY <1>2
    <3>2. Verify(b) => b = a
      BY <1>2 DEF Verify
    <3>3. ASSUME NEW t \in Tenants PROVE ReadRows(b, t) => b = a
      BY <1>2, <3>1 DEF ReadRows
    <3>4. QED BY <1>5, <3>1, <3>2, <3>3 DEF Answer, Page
  <2>4. QED BY <1>8, <2>1, <2>2, <2>3 DEF LedgerStep
<1>9. CASE ~LedgerStep
  <2>1. ~Ledger /\ ~Serve /\ ~Halt /\ ~Link
    BY <1>4, <1>5, <1>6, <1>9 DEF Ledger, Serve, Open, Halt, Link
  <2>2. ~ToolOnly
    BY <1>6 DEF ToolOnly
  <2>3. /\ ~Start /\ ~Poll /\ ~Point /\ ~Record /\ ~Sync
        /\ \A p \in Tools : /\ ~Copy(p) /\ ~Install(p) /\ ~FlushArtifact(p)
                            /\ ~Describe(p) /\ ~Seal(p) /\ ~Fails(p) /\ ~Killed(p)
    BY <1>6, <2>2 DEF Start, Poll, Point, Record, Sync, Copy, Install, FlushArtifact,
                      Describe, Seal, Fails, Killed
  <2>4. \A i : ~RestoreSqlite(i) /\ ~RestorePostgres(i)
    BY <1>7 DEF RestoreSqlite, RestorePostgres
  <2>5. ~PowerLoss
    BY <1>6, <1>7 DEF PowerLoss
  <2>6. ~UNCHANGED vars
    BY <1>6 DEF vars
  <2>7. QED BY <2>1, <2>3, <2>4, <2>5, <2>6 DEF Next
<1>10. QED BY <1>8, <1>9

LEMMA ChecksAreTrue ==
  ASSUME LedgerInv, [Next]_vars, NEW a \in Auditors, pc'[a] = "verified", pc[a] # "verified"
  PROVE  checkpoint'[a] = history[job'[a]]
<1>1. /\ LedgerTypes /\ ThreadInv /\ a \in Threads
      /\ service = "running" => Headed(rows, heads, history)
  BY ThreadSets, LedgerFacts DEF ServiceInv
<1>2. ASSUME NEW R, NEW t \in Tenants, Verifies(R, t, heads[t]), Headed(rows, heads, history)
      PROVE  EventsOf(R, t) = history[t]
  <2>1. heads[t] = HeadOf(R, t)
    BY <1>2 DEF Verifies
  <2>2. HeadOf(R, t).hash = EventsOf(R, t)
    BY DEF HeadOf, NoHead
  <2>3. QED BY <1>2, <2>1, <2>2 DEF Headed
<1>3. CASE Verify(a)
  <2>1. /\ pc[a] = "verify" /\ job'[a] = job[a]
        /\ checkpoint' = [checkpoint EXCEPT ![a] = EventsOf(seen[a], job[a])]
        /\ Goto(a, IF Verifies(seen[a], job[a], heads[job[a]]) THEN "verified" ELSE "alarm")
    BY <1>3 DEF Verify
  <2>2. checkpoint'[a] = EventsOf(seen[a], job[a])
    BY <1>1, <2>1 DEF LedgerTypes
  <2>3. Verifies(seen[a], job[a], heads[job[a]])
    BY <1>1, <2>1 DEF Goto, LedgerTypes
  <2>4. service = "running" /\ job[a] \in Tenants
    BY <1>1, <2>1, Runs DEF ThreadInv
  <2>5. QED BY <1>1, <1>2, <2>1, <2>2, <2>3, <2>4
<1>4. ASSUME NEW t \in Tenants, ReadRows(a, t) PROVE checkpoint'[a] = history[job'[a]]
  <2>1. service = "running" /\ job'[a] = t
    BY <1>1, <1>4 DEF ReadRows, Free, LedgerTypes
  <2>2. ~Goto(a, "verify")
    BY <1>1 DEF Goto, LedgerTypes
  <2>3. /\ checkpoint' = [checkpoint EXCEPT ![a] = EventsOf(rows, t)]
        /\ Goto(a, IF Verifies(rows, t, heads[t]) THEN "verified" ELSE "alarm")
    BY <1>4, <2>2 DEF ReadRows
  <2>4. checkpoint'[a] = EventsOf(rows, t)
    BY <1>1, <2>3 DEF LedgerTypes
  <2>5. Verifies(rows, t, heads[t])
    BY <1>1, <2>3 DEF Goto, LedgerTypes
  <2>6. QED BY <1>1, <1>2, <2>1, <2>4, <2>5
<1>5. QED BY <1>3, <1>4, VerifiedBy

-------------------------------------------------------------------------------
(* The theorems. *)

LEMMA InitHolds == Init => IInv
<1>1. SUFFICES ASSUME Init PROVE IInv
  OBVIOUS
<1>2. Types
  BY <1>1 DEF Init, Types, NoFiles, Directories, Places, Range
<1>3. ToolInv /\ FileInv
  BY <1>1 DEF Init, ToolInv, Holds, Holding, FileInv, Kept
<1>4. WatchInv
  BY <1>1 DEF Init, WatchInv, Watches, Backed, NoFiles, Holding, Tools
<1>5. RestoreInv
  BY <1>1 DEF Init, RestoreInv
<1>6. QED BY <1>2, <1>3, <1>4, <1>5 DEF IInv

LEMMA NextKeeps == IInv /\ [Next]_vars => IInv'
<1>1. SUFFICES ASSUME IInv, [Next]_vars PROVE IInv'
  OBVIOUS
<1>2. CASE Ledger \/ Serve \/ Halt \/ Link
  BY <1>1, <1>2, AroundKeeps
<1>3. CASE Start
  BY <1>1, <1>3, StartKeeps
<1>4. CASE Poll
  BY <1>1, <1>4, PollKeeps
<1>5. ASSUME NEW p \in Tools,
             \/ Copy(p) \/ Install(p) \/ FlushArtifact(p)
             \/ Describe(p) \/ Seal(p)
             \/ Fails(p) \/ Killed(p)
      PROVE  IInv'
  BY <1>1, <1>5, CopyKeeps, InstallKeeps, FlushArtifactKeeps, DescribeKeeps, SealKeeps,
     FailsKeeps, KilledKeeps
<1>6. CASE Point
  BY <1>1, <1>6, PointKeeps
<1>7. CASE Record
  BY <1>1, <1>7, RecordKeeps
<1>8. ASSUME NEW i \in DOMAIN archive, RestoreSqlite(i) \/ RestorePostgres(i)
      PROVE  IInv'
  BY <1>1, <1>8, RestoreKeeps
<1>9. CASE Sync
  BY <1>1, <1>9, SyncKeeps
<1>10. CASE PowerLoss
  BY <1>1, <1>10, PowerLossKeeps
<1>11. CASE UNCHANGED vars
  <2>1. UNCHANGED <<workload, backend>> /\ UNCHANGED links /\ UNCHANGED kept
    BY <1>11 DEF vars, ledgerVars, fixed, backupVars, restores, kept
  <2>2. links \in Nat
    BY <1>1, Facts DEF Types
  <2>3. QED BY <1>1, <2>1, <2>2, ServiceKeeps
<1>12. QED BY <1>1, <1>2, <1>3, <1>4, <1>5, <1>6, <1>7, <1>8, <1>9, <1>10, <1>11
           DEF Next

\* The inductive invariant holds in every reachable state: each tool finds its
\* unreported backup where it left it, and the reported ones are complete in every
\* state of the directory that a power loss may bring back.
THEOREM Invariant == Spec => []IInv
<1>1. QED BY InitHolds, NextKeeps, PTL DEF Spec

\* A backup that was reported as created (announced) has its artifact and its
\* manifest for ever, whatever the tools of the operator and of the watcher do,
\* fail to do or leave half done, and however often power is lost.
THEOREM AnnouncedLoad == Spec => []AnnouncedBackupsLoad
<1>1. IInv => AnnouncedBackupsLoad
  BY DEF IInv, FileInv, Kept, AnnouncedBackupsLoad, Loads
<1>2. QED BY Invariant, <1>1, PTL

\* When the state file of the watcher names a version of the connections, the
\* manifest it points to can be loaded and holds that version or a later one, in
\* every state that a kill or a power loss may leave.
THEOREM StateIsTrue == Spec => []StateIsBackedUp
<1>1. IInv => StateIsBackedUp
  <2>1. SUFFICES ASSUME IInv, files.state > 0, ~workload.restores
                 PROVE  Loads(files.pointer) /\ archive[files.pointer].links >= files.state
    BY DEF StateIsBackedUp
  <2>2. Backed(files)
    BY <2>1 DEF IInv, WatchInv
  <2>3. QED BY <2>1, <2>2 DEF Backed, IInv, FileInv, Kept, Loads
<1>2. QED BY Invariant, <1>1, PTL

\* No power loss brings back the database of before a restore that was reported,
\* on either backend.
THEOREM RestoredStay == Spec => []RestoresLast
<1>1. IInv => RestoresLast
  BY DEF IInv, RestoreInv, RestoresLast
<1>2. QED BY Invariant, <1>1, PTL

-------------------------------------------------------------------------------
(* The theorems about the ledger. *)

\* The ledger invariant holds in every reachable state: the heads of a ledger that
\* is served say what was committed, a thread that extends a chain has its lock
\* and follows its head, and every copy in the archive, or that a power loss may
\* bring back, has lost its chains only if one of its rows was altered.
THEOREM LedgerInvariant == Spec => []LedgerInv
<1>1. QED BY Invariant, InitLedgerHolds, NextKeepsLedger, PTL DEF Spec

\* While no row is altered, the rows of every tenant are one chain in the order of
\* their commits, and the head is its end, for any number of threads that append at
\* the same time, on both backends, through restarts, restores and power losses.
THEOREM ChainsWhole == Spec => []ChainsAreWhole
<1>1. LedgerInv => ChainsAreWhole
  <2>1. SUFFICES ASSUME LedgerInv, corruptions = 0, service = "running", NEW t \in Tenants
                 PROVE  Verifies(rows, t, heads[t]) /\ EventsOf(rows, t) = history[t]
    BY DEF ChainsAreWhole
  <2>2. Verifies(rows, t, heads[t]) /\ heads[t].hash = history[t]
    BY <2>1, LedgerFacts DEF ServiceInv, Whole, Headed
  <2>3. heads[t] = HeadOf(rows, t) /\ HeadOf(rows, t).hash = EventsOf(rows, t)
    BY <2>2 DEF Verifies, HeadOf, NoHead
  <2>4. QED BY <2>2, <2>3
<1>2. QED BY LedgerInvariant, <1>1, PTL

\* An auditor that pages by after_sequence is given every row up to where it is:
\* with PostgreSQL numbers are given out before the rows commit, and a row commits
\* after every row and every page of its tenant with a smaller number.
THEOREM PagesComplete == Spec => []PagesMissNothing
<1>1. LedgerInv => PagesMissNothing
  BY LedgerFacts DEF PageInv, PagesMissNothing
<1>2. QED BY LedgerInvariant, <1>1, PTL

\* A store is refused only when one of its rows was altered, whatever backup of
\* whatever time it was restored from.
THEOREM RestoredOpen == Spec => []RestoredLedgersOpen
<1>1. LedgerInv => RestoredLedgersOpen
  BY LedgerFacts DEF ServiceInv, RestoredLedgersOpen
<1>2. QED BY LedgerInvariant, <1>1, PTL

\* verify_audit_chain returns the hash of exactly what was committed, altered rows
\* or not, although with SQLite it reads the head after the rows.
THEOREM CheckpointsTrue == Spec => CheckpointsAreTrue
<1>1. LedgerInv /\ [Next]_vars =>
        [\A a \in Auditors : (pc'[a] = "verified" /\ pc[a] # "verified") =>
            checkpoint'[a] = history[job'[a]]]_ledgerVars
  BY ChecksAreTrue
<1>2. QED BY LedgerInvariant, <1>1, PTL DEF Spec, CheckpointsAreTrue

===============================================================================
