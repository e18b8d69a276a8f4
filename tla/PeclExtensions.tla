----------------------------- MODULE PeclExtensions ----------------------------
(***************************************************************************)
(* Legacy PECL packages of one PHP installation (backend/pecl.go,          *)
(* cli/command_ext.go): polka ext install and remove, and the packages     *)
(* that polka install provisions.  A package brings a module of its own    *)
(* and, on Windows, libraries next to php.exe that it may share with other *)
(* packages.  The installation's record file says which package put which  *)
(* content into which file; a file in no record is not polka's to touch.   *)
(***************************************************************************)
EXTENDS Naturals, FiniteSets

CONSTANTS Package,      \* the packages
          Release,      \* their versions
          Shared,       \* the library
          Brings(_, _), \* whether a version of a package brings it
          NoRelease,    \* none: not in the config, no record
          MaxEvents     \* bound: kills and edits by hand

PeclAssumption ==
  /\ Shared \notin Package /\ NoRelease \notin Release /\ MaxEvents \in Nat
  /\ \A p \in Package, v \in Release : Brings(p, v) \in BOOLEAN

Artifact == Package \cup {Shared}

VARIABLES
  configured,  \* the version of each package in the config
  folder,      \* the content of each file: nothing, a user's, or that of a release
  records,     \* the record file: of each package, its version and the content of its files
  enabled,     \* the modules that php.ini loads
  extension,   \* the command: its step, kind, package and version, the config, records and
               \* modules as read, files done, packages to come, whether a user came between
  events,      \* kills and edits so far
  settled      \* history: since a polka install that ended well, every command has

peclVars == <<configured, folder, records, enabled, extension, events, settled>>

Absent == [by |-> "nobody", release |-> NoRelease]
Foreign == [by |-> "user", release |-> NoRelease]
Content(v) == [by |-> "package", release |-> v]

NoRecord == [version |-> NoRelease, files |-> [f \in {} |-> Absent]]
NoRecords == [p \in Package |-> NoRecord]
Unconfigured == [p \in Package |-> NoRelease]

NoExtension == [step |-> "idle", kind |-> "none", package |-> Shared, version |-> NoRelease,
                wanted |-> Unconfigured, seen |-> NoRecords, modules |-> {},
                done |-> NoRecord.files, todo |-> {}, marred |-> FALSE]

PeclInit ==
  /\ configured = Unconfigured
  /\ folder = [f \in Artifact |-> Absent]
  /\ records = NoRecords /\ enabled = {}
  /\ extension = NoExtension
  /\ events = 0 /\ settled = FALSE

Doing(label) == extension.step = label
Then(label) == extension' = [extension EXCEPT !.step = label]
Fail == extension' = NoExtension /\ settled' = FALSE
Storage == UNCHANGED <<configured, folder, records, enabled>>
Steady == UNCHANGED <<events, settled>>

Payload(p, v) == {p} \cup (IF Brings(p, v) THEN {Shared} ELSE {})

\* peclRecordContainsPath, peclFileReferencedByOtherPackage.
OwnedBy(known, p, f) == f \in DOMAIN known[p].files
OwnedByOther(known, p, f) == \E q \in Package \ {p} : OwnedBy(known, q, f)

\* peclRecordFilesValid.
RecordListsFiles(r) == DOMAIN r.files # {}
RecordFilesValid(r) ==
  DOMAIN r.files # {} /\ \A f \in DOMAIN r.files : folder[f] = r.files[f]

-----------------------------------------------------------------------------
\* php -m, InstalledPHPModules: a module of php.ini that is there, with the library it needs.
Loaded == {p \in enabled : /\ folder[p] # Absent
                           /\ Brings(p, folder[p].release) => folder[Shared] # Absent}

(* The commands begin.  InstallPECLExtension, RemovePECLExtension and        *)
(* installPECLExtensions read the record file.                               *)

Command(kind, label, p, v, todo) ==
  /\ Doing("idle")
  /\ extension' = [NoExtension EXCEPT !.kind = kind, !.step = label, !.package = p,
                                      !.version = v, !.wanted = configured, !.seen = records,
                                      !.modules = Loaded, !.todo = todo]
  /\ Storage /\ Steady

InstallExtension == \E p \in Package, v \in Release : Command("install", "module", p, v, {})
RemoveExtension ==
  \E p \in Package : Command("remove", "delete", p, NoRelease, DOMAIN records[p].files)

\* The packages of the config, when their files, their version or php.ini differ.
ProvisionPackages ==
  Command("provision", "next", Shared, NoRelease,
          {p \in Package : configured[p] # NoRelease})

NextPackage ==
  /\ Doing("next")
  /\ \/ /\ extension.todo = {} /\ Then("sync") /\ Steady
     \/ \E p \in extension.todo :
           LET r    == extension.seen[p]
               rest == extension.todo \ {p}
               v    == extension.wanted[p]
               skip == r.version = v /\ p \in extension.modules /\ RecordFilesValid(r)
           IN  /\ IF skip THEN extension' = [extension EXCEPT !.todo = rest]
                  ELSE extension' = [extension EXCEPT !.todo = rest, !.step = "reread",
                                       !.package = p, !.version = v]
               /\ Steady
  /\ Storage

\* installResolvedPECLExtension reads the records again; the build or download may fail.
Reread ==
  /\ Doing("reread")
  /\ \/ extension' = [extension EXCEPT !.step = "module", !.seen = records] /\ Steady
     \/ Fail /\ UNCHANGED events
  /\ Storage

-----------------------------------------------------------------------------
(* installPECLArtifact, for the module and then for the libraries. *)

AfterModule == IF Brings(extension.package, extension.version) THEN "library" ELSE "unlist"

\* The file is there and this package's: it is removed and renamed over, as a new one is.
Place(label, f, put) ==
  /\ Doing(label)
  /\ folder[f] = Absent \/ OwnedBy(extension.seen, extension.package, f)
  /\ folder' = [folder EXCEPT ![f] = Absent]
  /\ Then(put)
  /\ UNCHANGED <<configured, records, enabled>> /\ Steady

Put(label, f, after) ==
  /\ Doing(label)
  /\ LET c == Content(extension.version)
     IN  \/ /\ folder' = [folder EXCEPT ![f] = c]
            /\ extension' = [extension EXCEPT !.step = after,
                 !.done = [g \in DOMAIN @ \cup {f} |-> IF g = f THEN c ELSE @[g]]]
            /\ Steady
         \/ Fail /\ UNCHANGED <<folder, events>>
  /\ UNCHANGED <<configured, records, enabled>>

\* A module that is not the package's is never adopted.
RefuseModule ==
  /\ Doing("module")
  /\ LET p == extension.package IN folder[p] # Absent /\ ~OwnedBy(extension.seen, p, p)
  /\ Fail
  /\ Storage /\ UNCHANGED events

\* A library that is not the package's is tracked when another package tracks it and the
\* content is the same, left alone when nobody does, and else an error.
MeetLibrary ==
  /\ Doing("library")
  /\ folder[Shared] # Absent /\ ~OwnedBy(extension.seen, extension.package, Shared)
  /\ \/ /\ folder[Shared] = Content(extension.version)
        /\ extension' = [extension EXCEPT !.step = "unlist",
             !.done = IF OwnedByOther(extension.seen, extension.package, Shared)
                      THEN [g \in DOMAIN @ \cup {Shared} |->
                              IF g = Shared THEN folder[Shared] ELSE @[g]]
                      ELSE @]
        /\ Steady
     \/ folder[Shared] # Content(extension.version) /\ Fail /\ UNCHANGED events
  /\ Storage

-----------------------------------------------------------------------------
(* writePECLInstallState: the old file is removed, and the new one renamed to its place. *)

Unlist ==
  /\ Doing("unlist")
  /\ records' = NoRecords /\ Then("list")
  /\ UNCHANGED <<configured, folder, enabled>> /\ Steady

List ==
  /\ Doing("list")
  /\ LET p   == extension.package
         new == IF extension.kind = "remove" THEN NoRecord
                ELSE [version |-> extension.version, files |-> extension.done]
     IN  /\ records' = [extension.seen EXCEPT ![p] = new]
         /\ extension' = [extension EXCEPT !.step = IF extension.kind = "remove" THEN "config"
                                                    ELSE "sweep"]
  /\ UNCHANGED <<configured, folder, enabled>> /\ Steady

\* The files of the record before, if they are unchanged and nobody else's.
Superseded(r) ==
  {f \in DOMAIN r.files \ DOMAIN extension.done :
     ~OwnedByOther(extension.seen, extension.package, f) /\ folder[f] = r.files[f]}

Sweep ==
  /\ Doing("sweep")
  /\ \E gone \in SUBSET Superseded(extension.seen[extension.package]) :
        folder' = [f \in Artifact |-> IF f \in gone THEN Absent ELSE folder[f]]
  /\ extension' = [extension EXCEPT !.step = IF extension.kind = "provision" THEN "next"
                                             ELSE "config",
                                    !.seen = IF extension.kind = "provision" THEN @ ELSE NoRecords,
                                    !.done = NoRecord.files]
  /\ UNCHANGED <<configured, records, enabled>> /\ Steady

\* RemovePECLExtension: the files of the record, one after the other; without one only the
\* config changes.
DeleteFile ==
  /\ Doing("delete")
  /\ LET p == extension.package
         r == extension.seen[p]
     IN  \/ /\ extension.todo = {}
            /\ Then(IF r = NoRecord THEN "config" ELSE "unlist")
            /\ UNCHANGED folder /\ Steady
         \/ \E f \in extension.todo :
              /\ IF ~OwnedByOther(extension.seen, p, f) /\ folder[f] = r.files[f]
                 THEN folder' = [folder EXCEPT ![f] = Absent]
                 ELSE UNCHANGED folder
              /\ extension' = [extension EXCEPT !.todo = @ \ {f}] /\ Steady
         \/ extension.todo # {} /\ Fail /\ UNCHANGED <<folder, events>>
  /\ UNCHANGED <<configured, records, enabled>>

\* ConfigurePECLExtension: the version that was installed, or none.
WriteConfig ==
  /\ Doing("config")
  /\ configured' = [configured EXCEPT ![extension.package] = extension.version]
  /\ Then("sync")
  /\ UNCHANGED <<folder, records, enabled>> /\ Steady

\* syncPECLRuntimeConfig: php.ini loads the packages of the config that have a record.
SyncRuntimeConfig ==
  /\ Doing("sync")
  /\ LET config == IF extension.kind = "provision" THEN extension.wanted ELSE configured
     IN  enabled' = {p \in Package : config[p] # NoRelease /\ records[p] # NoRecord}
  /\ settled' = ((settled \/ extension.kind = "provision") /\ ~extension.marred)
  /\ extension' = NoExtension
  /\ UNCHANGED <<configured, folder, records, events>>

-----------------------------------------------------------------------------
(* What happens to them. *)

Event == events < MaxEvents /\ events' = events + 1

KillExtension == ~Doing("idle") /\ Event /\ Fail /\ Storage

ByHand ==
  /\ Event /\ settled' = FALSE
  /\ extension' = [extension EXCEPT !.marred = ~Doing("idle")]

\* A user puts a file of his own into the installation, or deletes one.
TouchFile ==
  /\ ByHand
  /\ \E f \in Artifact, c \in {Absent, Foreign} : folder[f] # c /\ folder' = [folder EXCEPT ![f] = c]
  /\ UNCHANGED <<configured, records, enabled>>

\* The config names another version, or drops a package.
EditConfig ==
  /\ ByHand
  /\ \E p \in Package, v \in Release \cup {NoRelease} :
        configured[p] # v /\ configured' = [configured EXCEPT ![p] = v]
  /\ UNCHANGED <<folder, records, enabled>>

\* PHP is installed again: its directory is replaced, and its packages provisioned.
ReplacePHP ==
  /\ Doing("idle") /\ Event /\ settled' = FALSE
  /\ folder' = [f \in Artifact |-> Absent] /\ records' = NoRecords /\ enabled' = {}
  /\ UNCHANGED <<configured, extension>>

PeclNext ==
  \/ InstallExtension \/ RemoveExtension \/ ProvisionPackages
  \/ NextPackage \/ Reread
  \/ Place("module", extension.package, "putmodule")
  \/ Put("putmodule", extension.package, AfterModule)
  \/ RefuseModule
  \/ Place("library", Shared, "putlibrary") \/ Put("putlibrary", Shared, "unlist")
  \/ MeetLibrary
  \/ Unlist \/ List \/ Sweep \/ DeleteFile \/ WriteConfig \/ SyncRuntimeConfig
  \/ KillExtension \/ TouchFile \/ EditConfig \/ ReplacePHP

PeclSpec == PeclInit /\ [][PeclNext]_peclVars

-----------------------------------------------------------------------------
(* Correctness. *)

\* The types.
PeclTypeOK ==
  /\ configured \in [Package -> Release \cup {NoRelease}]
  /\ folder \in [Artifact -> {Absent, Foreign} \cup {Content(v) : v \in Release}]
  /\ \A p \in Package : DOMAIN records[p].files \subseteq Artifact
  /\ enabled \subseteq Package
  /\ events \in 0..MaxEvents /\ settled \in BOOLEAN

\* After a polka install that ended well, and commands that all did, the modules that
\* php.ini loads are those of the config; each is in its place with the content that its
\* package brought, the libraries that their records name are there, and no package left
\* the config without its module (installResolvedPECLExtension, RemovePECLExtension,
\* syncPECLRuntimeConfig): whatever was killed, refused or edited before.
ExtensionsLoad ==
  settled /\ Doing("idle") =>
    /\ enabled = {p \in Package : configured[p] # NoRelease}
    /\ \A p \in enabled : /\ folder[p] = Content(configured[p])
                          /\ OwnedBy(records, p, Shared) => folder[Shared] # Absent
=============================================================================
