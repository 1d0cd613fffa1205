----------------------------- MODULE BackupBundle -----------------------------
(***************************************************************************)
(* A complete backup (complete_backup.py): a directory with a manifest, an *)
(* archive and the metadata that name the digests of both.  They are       *)
(* written one after the other, as by scripts/generate_complete_backup_    *)
(* fixture.py, which may be killed and run again; a reader validates what  *)
(* it finds, file by file, at any time.                                    *)
(*                                                                         *)
(* A path is the sequence of its names, and a name is a number: its place  *)
(* in the order of all names and of all names with a slash after them.     *)
(* That order, of strings, puts a-b between a and a/.  0 stands for a name  *)
(* that is refused ("..", a control character).  A digest, with the size   *)
(* that goes with it, is the content it is of.                             *)
(***************************************************************************)
EXTENDS Naturals, Sequences, SequencesExt

CONSTANTS
  Names,      \* names of files and directories
  Slash,      \* the place of a name with a slash after it
  Snapshots,  \* manifests that are written
  Foreign,    \* bundles that others have put together
  Absent,     \* no such file
  Torn,       \* a file that was cut short
  MaxRuns     \* bound: runs of the generator

ASSUME NamesAssumption ==
  Names \subseteq Nat /\ Slash \in [Names -> Nat] /\ \A n \in Names : n < Slash[n]

VARIABLES
  bundle,     \* the directory: bundle.manifest, bundle.archive, bundle.metadata
  generator,  \* the next step of the generator, "idle" when it does not run
  snapshot,   \* the manifest it writes
  reader,     \* the next step of the validation, or its verdict
  read,       \* what the validation has read so far
  runs,
  meddled     \* history: the generator was at work since the validation began

bundleVars == <<bundle, generator, snapshot, reader, read, runs, meddled>>

Files == {"manifest", "archive", "metadata"}
NoBundle == [f \in Files |-> Absent]

-----------------------------------------------------------------------------
(* The manifest. *)

\* path_in_target; the target "." is the empty path.
InTarget(path, target) == IsPrefix(target, path)

Covers(path, target) == InTarget(path, target) \* mutant: tested in one direction
Overlap(path, target) == InTarget(path, target) \/ InTarget(target, path)

SafePath(path) == path # <<>> /\ \A i \in DOMAIN path : path[i] # 0
SafeTarget(path) == path = <<>> \/ SafePath(path)

\* The order of the path strings: each name is compared with the slash after it,
\* if there is one.
Text(path) == [i \in DOMAIN path |-> IF i = Len(path) THEN path[i] ELSE Slash[path[i]]]
Before(p, q) ==
  \E i \in DOMAIN p \cap DOMAIN q :
    /\ \A k \in 1..(i - 1) : Text(p)[k] = Text(q)[k]
    /\ Text(p)[i] < Text(q)[i]

\* validate_scope_targets, and the order of the scopes.
ScopesValid(scopes) ==
  /\ scopes # <<>>
  /\ \A i \in DOMAIN scopes : SafeTarget(scopes[i].target)
  /\ \A i, j \in DOMAIN scopes :
       i < j => scopes[i].name < scopes[j].name /\ ~Overlap(scopes[j].target, scopes[i].target)

\* required_directory_paths: from the target of the scope, which is one of them,
\* to the parent of the path.
BelowTarget(path, target) ==  \* mutant: the target itself is left out
  {SubSeq(path, 1, n) : n \in (Len(target) + 1)..(Len(path) - 1)}
RequiredDirectories(path, target) ==
  {SubSeq(path, 1, n) : n \in {m \in 1..(Len(path) - 1) : m >= Len(target)}}

EntryValid(manifest, i) ==
  LET entry == manifest.entries[i]
      Directories == {e.path : e \in {d \in ToSet(manifest.entries) : d.type = "directory"}}
  IN
  /\ SafePath(entry.path)
  /\ i > 1 => Before(manifest.entries[i - 1].path, entry.path)
  /\ \E scope \in ToSet(manifest.scopes) :
       /\ scope.name = entry.scope
       /\ InTarget(entry.path, scope.target)
       /\ entry.path = scope.target => entry.type = "directory"
       /\ RequiredDirectories(entry.path, scope.target) \subseteq Directories

\* validate_backup_manifest.
ManifestValid(manifest) ==
  ScopesValid(manifest.scopes) /\ \A i \in DOMAIN manifest.entries : EntryValid(manifest, i)

-----------------------------------------------------------------------------
(* The metadata and the archive. *)

\* validate_backup_metadata.
MetadataValid(metadata) ==
  IF metadata.kind = "baseline" THEN metadata.protected /\ ~metadata.source
                                ELSE ~metadata.protected /\ metadata.source

\* validate_archive_member: type, mode, size and content.
MemberAsEntry(member, entry) ==
  /\ member.type = entry.type /\ member.mode = entry.mode
  /\ entry.type = "file" => member.data = entry.data

\* validate_backup_archive.
ArchiveValid(archive, manifest) ==
  /\ archive # Torn
  /\ \A i \in DOMAIN archive :
       /\ SafePath(archive[i].path) /\ archive[i].type # "special"
       /\ \A j \in DOMAIN archive : j # i => archive[j].path # archive[i].path
  /\ {m.path : m \in ToSet(archive)} = {e.path : e \in ToSet(manifest.entries)}
  /\ \A e \in ToSet(manifest.entries), m \in ToSet(archive) : m.path = e.path => MemberAsEntry(m, e)

-----------------------------------------------------------------------------
(* The generator: manifest, archive, and metadata that name what was written. *)

Members(manifest) ==
  [i \in DOMAIN manifest.entries |->
     LET e == manifest.entries[i] IN [path |-> e.path, type |-> e.type, mode |-> e.mode, data |-> e.data]]
Describe(manifest, archive) ==
  [id |-> manifest.id, kind |-> "baseline", protected |-> TRUE, source |-> FALSE, canonical |-> TRUE,
   manifest |-> manifest, archive |-> archive]

\* Documents that are well formed; a directory has no content.
Entry(e) ==
  /\ e.path \in Seq(Names) /\ e.type \in {"directory", "file"}
  /\ e.type = "directory" => e.data = "-"
IsManifest(m) ==
  /\ m.scopes \in Seq([name : Nat, target : Seq(Names)])
  /\ m.entries \in Seq(ToSet(m.entries)) /\ \A e \in ToSet(m.entries) : Entry(e)
IsArchive(a) ==
  /\ a \in Seq(ToSet(a))
  /\ \A m \in ToSet(a) :
       /\ m = [path |-> m.path, type |-> m.type, mode |-> m.mode, data |-> m.data]
       /\ m.path \in Seq(Names) /\ (m.type = "directory" => m.data = "-")
IsMetadata(d) == {d.protected, d.source, d.canonical} \subseteq BOOLEAN
IsBundle(b) ==
  /\ DOMAIN b = Files
  /\ b.manifest \notin {Absent, Torn} => IsManifest(b.manifest)
  /\ b.archive \notin {Absent, Torn} => IsArchive(b.archive)
  /\ b.metadata \notin {Absent, Torn} => IsMetadata(b.metadata)

ASSUME BundleAssumption ==
  /\ MaxRuns \in Nat /\ Absent # Torn
  /\ \A b \in Foreign : IsBundle(b)
  /\ \A m \in Snapshots :
       IsManifest(m) /\ {m, Members(m), Describe(m, Members(m))} \cap {Absent, Torn} = {}

Meddle == meddled' = (meddled \/ reader # "idle")

\* backup_manifest_to_json refuses a manifest that is not valid.
StartRun ==
  /\ generator = "idle" /\ runs < MaxRuns /\ runs' = runs + 1
  /\ \E manifest \in Snapshots : ManifestValid(manifest) /\ snapshot' = manifest
  /\ generator' = "manifest"
  /\ Meddle /\ UNCHANGED <<bundle, reader, read>>

\* A file is emptied before it is written.
WriteFile(f, content, next) ==
  /\ generator = f
  /\ \/ bundle[f] # Torn /\ bundle' = [bundle EXCEPT ![f] = Torn] /\ UNCHANGED <<generator, snapshot>>
     \/ bundle[f] = Torn /\ bundle' = [bundle EXCEPT ![f] = content]
        /\ generator' = next /\ snapshot' = IF next = "idle" THEN Absent ELSE snapshot
  /\ Meddle /\ UNCHANGED <<reader, read, runs>>

WriteManifest == WriteFile("manifest", snapshot, "archive")
WriteArchive == WriteFile("archive", Members(snapshot), "metadata")
WriteMetadata == WriteFile("metadata", Describe(snapshot, bundle.archive), "idle")

KillRun ==
  /\ generator # "idle" /\ generator' = "idle" /\ snapshot' = Absent
  /\ UNCHANGED <<bundle, reader, read, runs, meddled>>

-----------------------------------------------------------------------------
(* validate_complete_backup_bundle. *)

Goes(next) == reader' = next /\ UNCHANGED <<bundle, generator, snapshot, runs, meddled>>

FindFiles ==
  /\ reader = "idle"
  /\ reader' = IF Absent \in {bundle[f] : f \in Files} THEN "invalid" ELSE "metadata"
  /\ meddled' = (generator # "idle")
  /\ UNCHANGED <<bundle, generator, snapshot, read, runs>>

ReadMetadata ==
  /\ reader = "metadata" /\ read' = [read EXCEPT !.metadata = bundle.metadata]
  /\ Goes("manifest")

\* Both files are read before either is looked at.
TrustDigests(metadata, manifest) == \* mutant: the manifest is not compared with its digest
  /\ MetadataValid(metadata) /\ ManifestValid(manifest)
  /\ metadata.canonical /\ manifest.canonical /\ metadata.id = manifest.id
DocumentsValid(metadata, manifest) ==
  /\ MetadataValid(metadata) /\ ManifestValid(manifest)
  /\ metadata.canonical /\ manifest.canonical
  /\ metadata.id = manifest.id
  /\ metadata.manifest = manifest
ReadManifest ==
  /\ reader = "manifest" /\ read' = [read EXCEPT !.manifest = bundle.manifest]
  /\ Goes(IF /\ read.metadata # Torn /\ bundle.manifest # Torn
             /\ DocumentsValid(read.metadata, bundle.manifest)
          THEN "digest" ELSE "invalid")

\* The archive is read twice: once for its digest ...
HashArchive ==
  /\ reader = "digest" /\ read' = [read EXCEPT !.archive = bundle.archive]
  /\ Goes(IF bundle.archive = read.metadata.archive THEN "members" ELSE "invalid")

\* ... and once for its members.
OpenArchive ==
  /\ reader = "members"
  /\ Goes(IF ArchiveValid(bundle.archive, read.manifest) THEN "valid" ELSE "invalid")
  /\ UNCHANGED read

\* Somebody asks again.
ReadAgain ==
  /\ reader \in {"valid", "invalid"} /\ runs < MaxRuns /\ read' = NoBundle
  /\ Goes("idle")

-----------------------------------------------------------------------------

BundleInit ==
  /\ \/ bundle = NoBundle /\ runs = 0
     \/ bundle \in Foreign /\ runs = MaxRuns
  /\ generator = "idle" /\ snapshot = Absent
  /\ reader = "idle" /\ read = NoBundle
  /\ meddled = FALSE

BundleNext ==
  \/ StartRun \/ WriteManifest \/ WriteArchive \/ WriteMetadata \/ KillRun
  \/ FindFiles \/ ReadMetadata \/ ReadManifest \/ HashArchive \/ OpenArchive \/ ReadAgain

\* A bundle that nobody asks about.
BundleAside ==
  /\ bundle = NoBundle /\ runs = MaxRuns /\ generator = "idle" /\ snapshot = Absent
  /\ reader = "invalid" /\ read = NoBundle /\ meddled = FALSE

-----------------------------------------------------------------------------
(* Properties. *)

\* Every variable stays in its range.
BundleTypeOK ==
  /\ DOMAIN bundle = Files /\ DOMAIN read = Files
  /\ generator \in Files \cup {"idle"} /\ snapshot \in Snapshots \cup {Absent}
  /\ reader \in {"idle", "metadata", "manifest", "digest", "members", "valid", "invalid"}
  /\ runs \in 0..MaxRuns /\ meddled \in BOOLEAN

\* What docs/backup-format.md calls a valid bundle, taken together: the entries
\* are a forest whose trees stand at the targets of the scopes, and the archive
\* holds exactly the entries.
Forest(manifest) ==
  LET E == ToSet(manifest.entries)
      S == ToSet(manifest.scopes)
      Up(p) == SubSeq(p, 1, Len(p) - 1)
  IN
  /\ S # {} /\ \A s \in S : SafeTarget(s.target)
  /\ \A s, t \in S : s # t => ~Overlap(s.target, t.target)
  /\ \A i, j \in DOMAIN manifest.scopes : i < j => manifest.scopes[i].name < manifest.scopes[j].name
  /\ \A i, j \in DOMAIN manifest.entries : i < j => Before(manifest.entries[i].path, manifest.entries[j].path)
  /\ \A e \in E : SafePath(e.path) /\ \E s \in S :
       /\ s.name = e.scope /\ InTarget(e.path, s.target)
       /\ IF e.path = s.target THEN e.type = "directory"
          ELSE Len(e.path) > 1 => \E d \in E : d.path = Up(e.path) /\ d.type = "directory"
Sound(b) ==
  /\ {b[f] : f \in Files} \cap {Absent, Torn} = {}
  /\ Forest(b.manifest) /\ b.manifest.canonical /\ b.metadata.canonical
  /\ b.metadata.protected <=> b.metadata.kind = "baseline"
  /\ b.metadata.source <=> b.metadata.kind # "baseline"
  /\ b.metadata.id = b.manifest.id
  /\ b.metadata.manifest = b.manifest /\ b.metadata.archive = b.archive
  /\ Len(b.archive) = Len(b.manifest.entries)
  /\ ToSet(b.archive) = ToSet(Members(b.manifest))

\* A bundle that nobody changes meanwhile is accepted when it is sound, and only
\* then: after each broken-off run of the generator, and for bundles that others
\* have put together.
VerdictIsRight ==
  ~meddled /\ generator = "idle" =>
    /\ reader = "valid" => Sound(bundle)
    /\ reader = "invalid" => ~Sound(bundle)

\* Even if the generator writes while the bundle is validated, an accepted one
\* was read in one piece: metadata, manifest and the archive that was hashed
\* describe each other, whatever run each of them is from.
AcceptedInOnePiece == reader = "valid" => Sound(read)

\* What is accepted can be unpacked in the order of its entries: every entry is
\* in the target of one scope only, and each directory on its way down from that
\* target comes before it.
AcceptedUnpacks ==
  reader = "valid" =>
    LET m == read.manifest IN
    \A i \in DOMAIN m.entries :
      \E s \in ToSet(m.scopes) :
        /\ {t \in ToSet(m.scopes) : InTarget(m.entries[i].path, t.target)} = {s}
        /\ \A n \in 1..(Len(m.entries[i].path) - 1) :
             n >= Len(s.target) =>
               \E j \in 1..(i - 1) : m.entries[j].path = SubSeq(m.entries[i].path, 1, n)
                                     /\ m.entries[j].type = "directory"

=============================================================================
