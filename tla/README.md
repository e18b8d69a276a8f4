# Polka in TLA+

Polka installs the tools of PHP projects (PHP itself, Composer, databases, web
servers, ...) from a machine-wide cache into a project directory, and starts and
stops the project's services. Most of its code is sequential; what is hard is in
the few places where goroutines share a file or a counter, and in the state on
disk that separate commands, any of which may be killed, read and write. This
directory models those places.

To check one run: `tlc -config X.cfg M` with the pair from the table of runs; to
check the proofs: `tlapm XProofs.tla`.

## Inventory

| Component | State | Operations | Interacts with | Hard |
|---|---|---|---|---|
| File transfers, `tools/ranged_download.go` | target file, chunk counter, slots of the process, progress counters | probe, claim, request, copy, retry, fall back, report | called by the download hooks; the slots are shared by all transfers | workers, cancellation, retries, a remote file that changes |
| Payload cache, `tools/cache.go` | per tool: payloads, `metadata.json`, lock file | publish, look up, validate, install | written by downloads and builds, read by installs of all projects | processes, crashes, stale locks |
| Project install, `backend/store.go`, `state.go` | config, install directories, `installed.json` | install, install tool:version | cache, registry, post-install hooks | parallel layers, partial failure, kills, overlapping commands |
| Dependency layers, `tools/registry.go` | none | search and layering of requests | project install | cycles, conflicting versions |
| Environments and shims, `backend/store.go`, `configure_value.go` | project file, a file per environment, the active name, `.polka/bin` | init, config, use, remove, sync | project install, dispatch | several files changed in place by one command |
| Internal tools, `backend/internal_tools.go` | machine-wide tools and their `installed.json` | ensure | cache, `DirLock` | a lock per tool over one shared file |
| Managed services and databases, `service/` | state file and PID per service, data directories, credentials | start, look, stop, status, initialize | serve, stop, db commands | no locks, crashes between start and record, PID reuse |
| Workers, `service/workers.go` | state file, PIDs of replicas | reconcile, stop | manager | partial start and stop |
| Serve and stop, `cli/` | serve state, PIDs, proxy route | start services then webserver, stop in reverse | manager | several failures in one command |
| Build engine, `tools/build*.go`, `backend/build.go` | build roots, lock, cache entries | build, package, verify, publish | cache, internal tools | locks, interrupted builds, orphaned compilers |
| PECL and PIE, `backend/pecl.go`, `pie.go`, `tools/php*.go` | extension files and their records, `php.ini` and its files | install, remove, sync | project install | files shared by packages, several files per command |
| Release lookup, `tools/downloader.go` | none of its own | resolve, page, verify | transfers, cache, upstream | upstream changes between calls |
| Framework files, `plugins/framework_*.go` | the framework's own configuration | edit after composer | composer hook | the user and others write them too |
| TLS certificates, `cli/serve_tls.go`, `tls_private_key.go` | four files, the keyring, the trust store | serve, cert install | serve | all projects share them, without a lock |
| MSVC toolchain, `backend/msvc.go` | captured environment | sync | install, sh, exec | the machine changes under the capture |
| Manifests, scripts, display | none | parsing, rendering | | little |

What makes each correct: a transfer ends, and with one version of the file or an
error; the cache serves only what its metadata describes, and no publisher undoes
another; an install that succeeds has installed, configured and recorded everything
asked for, in order, and one that fails leaves the config alone; of a service there is
at most one instance, stop finds what start has left, and a success is true; a
database that is reported as running accepts the credentials handed out, and none
is removed; and of the files polka keeps, a command that succeeds leaves them right
whatever earlier ones that failed or were killed have left behind.

## Modules

| Module | Models | Correspondence |
|---|---|---|
| `FileTransfer` | what a transfer promises | abstract: a call ends once, with an error or one published version |
| `RangedDownload` | `downloadFileWithProgress` and all it calls | `phase` is the position in the call; `pc`, `chunk`, `attempt`, `source` are one worker's locals; `nextChunk`, `exhausted`, `failure` are the fields of `rangedTransfer`; `inUse`, `held` are the channel of slots and `transferSlot.held`; `disk` is the target, per chunk |
| `DownloadProgress` | `downloadReporter` and everything that counts | the transfer is reduced to what adds, subtracts, resets and returns; `loaded` is what `flush` has read when it has not yet read the total |
| `CacheLock` | `DirLock`, `cacheLock` | `at` is the position in `acquireCacheLock`; time is one bit, `stale` |
| `PayloadCache` | `cacheDownloadedPayload`, `InstallCachedToolPayload` | extends `CacheLock`; a payload is its content and an entry the content it describes |
| `ProjectInstall` | `install`, `InstallToolWithOptions`, `installRequestLayer`, the install state | a label is a version of a tool; `job` is the position of one goroutine of a layer, `known` the install state the layer has read |
| `InstallLayers` | `InstallRequestLayers` | operators: `Search` is the search with its cycle, version and plugin checks, `Layered` the loop; no state |
| `ManagedServer` | one managed service, of any of seven kinds: `EnsureManaged...Started`, `StopManaged...`, status | `at` is the position in a command, `job` its settings and child; `file` is the state file; `proc` are the processes of the machine with their ports |
| `Workers` | `EnsureManagedWorkersStarted`, `StopManagedWorkers` | `named` is the state file, `process` the machine's processes, `work` what a command has loaded or started |
| `ServiceManager` | `Manager.Start` and `Stop` within `polka start` and `stop` | `place` is the index in the order; a service is up or not; what one does by itself is in the modules above |
| `Serve` | the background webserver with php-cgi, its state file, the proxy's route | `stage` is the position in a command, `hand` its children or the state it has read |
| `ManagedDatabase` | credentials, data directory, initialization, bootstrap | `disk` is what each data directory holds, `asset` the credential files per family |
| `InternalTools` | `EnsureInternalTool` | `tree` is each installation, `recorded` installed.json, `provision` a process with its own copy of what it has read |
| `Environments` | init, config, use, remove | `files`, `active`, `shims` are the disk; `editing` is what a command has read |
| `PeclExtensions` | `InstallPECLExtension`, `RemovePECLExtension`, `installPECLExtensions` | `folder` is the content of each file, `records` the record file, `enabled` what php.ini loads |
| `PHPRuntime` | `polka ext`, PIE within install, `syncInstalledPHPRuntimeConfig` | `wants` is the config, `ini`, `library` and `ssl` the files; `act` the command |
| `BuildEngine` | `buildManifestTool`, `runBuild`, `Store.BuildTool` | `buildRoot` is whose files the directory holds, `cached` the payloads, `internal` what each internal install was made from, `named` installed.json, of which `build` and `installing` hold the copies that are written back |
| `ReleaseDownload` | `Download` and all it asks upstream | `offered` is upstream's list, `download` the call with what it has got |
| `Certificates` | serve and cert install, `ensureGlobalTLSCertificate`, the keyring | `file` are the four files, `keyring`, `trusted` |
| `FrameworkFiles` | the post-composer hook and its actions | `text` is each file as a sequence of items, `hook` a hook with what it has read |
| `MSVCToolchain` | `syncMSVCToolchain` | `level` and `toolsets` are the machine, `capture` the file |
| `MC...` | instances for TLC | constants, symmetry, and for `MCServices` and `MCProject` the choice of a part, see below |
| `...Proofs` | proofs | extend the module they are about |

Abstractions that matter:

- A response carries a version of the file, and a failed attempt its class: worth a
  retry, not usable for ranges, or a local write error. Any attempt may fail in any
  class the code distinguishes. Redirects and the retries of `doDownloadRequest`,
  which come before the response is looked at, are part of that choice.
- `rangeValidator` is a function `Tag` from versions. Under the assumption
  `StrongValidator` it tells every two versions apart (an ETag); the run
  `lastmodified` drops the assumption.
- A chunk written by an attempt that failed is `Torn`; one never written is `Hole`.
- Every file operation of a publisher is an action and may fail. `RemoveAll` may stop
  half way; renames are atomic. A kill is possible between any two actions, and
  loses what the process had in memory.
- In `ProjectInstall`, `Fetch` stands for `ensureCachedTool` and the extraction into a
  private staging directory: neither touches what the model speaks of until
  `RemoveAll` begins, which is part of the same action. The rest of the config beside
  the versions is one number, the settings that hooks write into a tool.
- `everStale`, `undone`, `alone`, `brokenOff` and `started` are history: no guard of
  the code's actions depends on them, except the bounds on what is started.

- In the modules about services a process of the machine listens on ports or ends;
  PIDs are reused by processes of others. A ping answers if any process listens. A
  wait for an answer ends by it or by its timeout, without a clock.
- A state or config file that is written in place is two steps, truncation and
  write, and what a kill leaves in between is read as the code reads it: an error for
  JSON, an empty environment for a YAML file.
- `ManagedDatabase` takes a server to answer as soon as it runs; the steps of start,
  ping and record are those of `ManagedServer`, whose databases have no data.
- A framework's file is a sequence of what the edits tell apart: assignments,
  commented ones, includes, the include block, and the rest. Quoting and layout are
  left out.
- A certificate is its key pair, who signed it and for which names; a toolset, a
  release or a PECL content is a version.
- History variables (`excused`, `forgiven`, `pardoned`, `mishap`, `blurred`, `lost`,
  `settled`, `left`, `missed`, `sound`, `raced`, `stopped`, `nested`, ...) mark what a
  property excepts. Each property's comment lists the exceptions; they are behaviours
  of the code, listed below under "What the exceptions are".

## Runs

| Run | Module and configuration | Result | Bounds |
|---|---|---|---|
| `assembly` | `MCRangedDownload`, `RangedDownload_assembly.cfg` | holds | 1 file, 4 chunks, 3 workers, 2 slots, 2 attempts, 1 replacement |
| `budget` | `MCRangedDownload`, `RangedDownload_budget.cfg` | holds | 2 files, 2 chunks, 2 workers each, 1 slot, 2 attempts |
| `lastmodified` | `MCRangedDownload`, `RangedDownload_lastmodified.cfg` | violated | 1 file, 2 chunks, 2 workers, 1 replacement |
| `progress` | `MCDownloadProgress`, `DownloadProgress.cfg` | holds | 3 chunks of 2, 2 and 1 writes, 2 workers, 2 attempts, bodies of 2 or 6 |
| `lock` | `CacheLock`, `CacheLock_exclusive.cfg` | violated | 3 processes |
| `cache` | `MCPayloadCache`, `PayloadCache.cfg` | holds | 2 publishers, 3 publications, 2 versions, 2 payloads, 1 reader |
| `cache_install` | `MCPayloadCache`, `PayloadCache_install.cfg` | violated | as `cache`, 2 publications |
| `install` | `MCProjectInstall`, `ProjectInstall.cfg` | holds | 2 commands, 4 labels, 1 edit of the settings; see below |
| `install_state` | `MCProjectInstall`, `ProjectInstall_state.cfg` | violated | 2 commands one after the other |
| `services` | `MCServices`, `MCServices.cfg` | holds | 1 million states; see below |
| `project` | `MCProject`, `MCProject.cfg` | holds | 2.1 million states; see below |
| `database_reset` | `MCDatabase`, `MCDatabase_reset.cfg` | violated | 1 command at a time, 3 databases, 1 switch |

The run `install` has the constraint `EditedWithoutDatabase`: a layer of two tools, a PHP
and a database, is explored without edits, and edits without the database.  The theorems
about `ProjectInstall` have neither this constraint nor the bounds.

The two runs of `MCProjectInstall` also evaluate two assumptions about `InstallLayers`.
`LayersAssumption` compares the search and the loop with `RightLayers`, which says what a
plan is without searching, on 2,890 catalogs of three tools, each with four lists of
roots and their reversals: one tool has two versions, two tools need up to two others in
either order and one needs up to one, and a tool may have no plugin. Cycles of every
length, cycles behind a visited tool, diamonds and conflicts of versions occur; dropping
any one check of the search, or forgetting to leave a tool, makes the assumption false.
`PlanAssumption` says that on the labels of the instance the search finds the requests
that `ProjectInstall` plans.

`MCServices` and `MCProject` are sums: the variable `part` says at the start of which
specification a behaviour is, and the variables of the others keep the value `Idle`.
Nothing is composed that the code does not compose, and each part has its full state
space; one run, one set of bounds and one list of properties serve all of them. The
parts do interact in the code, and where one matters to another it is inside the
module: `ServiceManager` has the services' outcomes, `BuildEngine` the internal
install, `Serve` the proxy's route, `PHPRuntime` the config that PIE writes. The last
step of a command is one whose success a property judges, so a property of a part
that is not the behaviour's says nothing about it (`part = "..." => ...`).

| Part | Bounds |
|---|---|
| `ManagedServer` | each of 7 kinds, 2 commands, 2 PIDs, 2 ports, 1 version, 1 edit of the settings, 1 process of others |
| `Workers` | 1 worker with up to 1 replica, 2 PIDs, 2 commands, 2 edits |
| `ServiceManager` | database, phpMyAdmin and workers with the webserver, 1 edit |
| `Serve` | 1 command at a time, 2 PIDs, 2 addresses, 1 edit |
| `InternalTools` | 2 processes, 2 tools, 2 versions, 1 mishap |
| `Environments` | 1 command at a time, 3 environments, 2 shims, 1 kill or edit |
| `ManagedDatabase` | 1 command at a time, 4 databases, 1 switch, 1 password |
| `PeclExtensions` | 2 packages, 2 versions, a shared library, 1 kill or edit |
| `BuildEngine` | 2 commands, 2 labels (of two tools), 2 builds, 1 kill; 2 builds or internal installs at once |
| `Certificates` | one command after the other with 5 key pairs and 1 accident; two at a time with 3 pairs |
| `ReleaseDownload` | 4 releases (prerelease, draft, numbers that sort otherwise as text), pages of 2, 2 tries, 1 change upstream; each combination of a way to find versions and a way to verify that a manifest can have |
| `FrameworkFiles` | 2 hooks at a time, 2 keys, files of up to 2 items, 2 credentials, 1 edit |
| `MSVCToolchain` | 2 instances, 2 toolsets, 1 change of the machine |
| `PHPRuntime` | 3 extensions (of PIE, Zend, needing the CA bundle), 1 edit, 1 command cut short |

Why these bounds: a chunk is claimed by its index only, so a worker with a chunk
of its own, one that competes for the last chunk and one that waits for a slot
show every case of the claim; two attempts have a first, a retried and a last
one; one replacement separates the probe from later chunks. Two files and one
slot make every additional worker of one file wait for the other's. Two
publishers and three publications allow one to be killed, to be followed by
another one of the same and by one of another version. In `install` the labels
are the two PHP flavors (rivals of each other), their shared headers (a
dependency, internal, flavored) and a database: every rule of
`installRequestLayer` has a label that needs it. Bounds that are not in the
code: `MaxVersion`, `MaxPublications`, `MaxCommands`, `MaxSettings`, and the
`Max...` of the other modules; all of them bound the number of events from
outside, such as kills, edits and what upstream does, or of what commands
generate. One kill or edit is enough for what these properties are about: what a
command that was cut off leaves to the next one. Of `BuildEngine` two builds,
two internal installs or one of each are under way at once (`MaxTogether`), and
others before and after: that is enough for a second build of a label during a
first one, for a replacement during an install, and for a copy of
`installed.json` written back after another writer. Where two commands meet, two
are enough for a check of one and a write of the other; `Serve`, `Environments`
and `ManagedDatabase` have one command at a time in these instances, because
overlaps are exceptions of their properties; their modules allow more (`mishap`,
`lost`, `pardoned`).

`CHECK_DEADLOCK FALSE` is in every configuration because every one of these systems
does stop: downloads return, publications and commands are bounded in number.

What the runs that hold show is in `PROJECT.json`, and each property's comment says
what it is about. The five violated runs are about sentences of the code's comments:

1. `lastmodified`: a `Last-Modified` date does not tell two versions of one second
   apart, so chunks of both may be assembled (`ranged_download.go:341-342`). The
   checksum that follows a download catches this where upstream publishes one.
2. `lock`: two waiters that have both seen the same stale file remove it one
   after the other, the second one after the first has created its own; both hold
   the lock (`cache.go:485`, `533-541`). It takes a holder that was killed ten minutes
   ago, and two waiters within the same poll.
3. `cache_install`: a payload is validated and opened again without the lock
   (`cache.go:112-121`).
4. `install_state`: a forced install does not forget the record before it removes
   the tree (`state.go:19-20`, `store.go:1291`). After a kill or a failed hook the next
   install without `--force` skips the extraction if the executable still resolves.
5. `database_reset`: the directory of earlier versions of polka is the parent of the
   present ones, and a start in a new one takes the parent, with the databases in it,
   for an incomplete directory and resets it (`database.go:637`, `1120`). The run needs
   no kill, no second command and no data of earlier versions: a start, an edit of the
   engine or version, a start. `DataKeptWithoutSwitch`, a part of `NotGivenUp`, shows
   that without a switch no start removes a database, wherever commands were killed.

### What the exceptions are

What the properties except is what the code does not prevent:

- Services: a command killed between the start of a server and its record leaves one
  that nobody stops; two starts at once may start two and record one; a start that
  finds another process answering records its own child as if it had answered; a
  database's port is not compared with the config. `polka use` and `polka remove` do
  not stop the services of the environment they leave. A state file that a kill has
  cut off makes `Manager.Stop` end with an error before the services after it.
- Workers: one that cannot be stopped is forgotten, and its replacement started.
- Webserver: when nginx or httpd ends by itself, the next command removes the state
  file that names php-cgi too (`serve_runtime.go:302-319`). A master that is killed
  after the grace period leaves workers with the socket, and each later stop fails
  while they live.
- Databases: a kill between `initdb` and the marker makes the next start take the
  bootstrap for done; concurrent starts can reset each other's data.
- Internal tools: a process that writes back an older copy of `installed.json` drops a
  record, and the tool is installed again under a command that runs it.
- Environments: a kill between the removal of an environment's file and of the
  active name leaves an active environment that does not exist.
- PECL: a kill around the write of the record leaves files that no record names. A
  later install of the package refuses them, or keeps a library with the same content
  that no record names; packages with different contents of one library alternate.
- Builds: a compiler outlives a killed `polka build` (it has its own process group)
  and may write into the directory of the next build, although the comment of
  `runBuild` says that a crashed run "leaves nothing behind that matters"
  (`tools/build.go:340-342`).
- `installed.json` is read and written back by a build that drops a record and by each
  internal install, under the locks of different tools or none: the one that writes last may
  put back a record that was dropped, and internal tools stay with the old build. A build
  that is killed before it drops the record, or fails to, leaves it as well.
- Certificates: a command that is cut off between certificate and key leaves a pair that does
  not match and is taken for complete; two commands may mix two authorities, and
  the keyring's entry is read and then set.
- Releases: one that is withdrawn while pages are read can hide the newest one. Of an archive
  that is checked by its commit only the zip's comment is compared: damage to the rest goes
  into the cache. Where a manifest declares no checksum and none is told, nothing is checked.
- Framework files: what is written between a hook's reading and its rename is lost.
- MSVC: an install within `polka sh` captures only the difference to the shell's own
  toolchain, or removes the capture.
- PHP: an install whose config has become empty leaves the old `php.ini` on Windows
  and for FrankenPHP (`php.go:132`); `polka ext` places only the library of its own
  package. An `openssl.cnf` or CA bundle that a kill has cut off exists, so it is
  never written again, although its first line says "Re-run polka install to recreate
  this file" (`php.go:24`, `194-203`).

Read on the way, without a run: `docs/tools.md:117` says `polka serve` points Traefik at
the webserver, but a start that finds the webserver running returns before the route
is written (`command_serve.go:127-131`); `StartWorkerProcess` promises that commands
which exit at once "fail loudly" (`workers.go:219-220`), but on Unix signal 0 succeeds
for a child that has exited and was not waited for; the start and stop hooks of single
services in `cli/hooks.go` are not called, `Manager` is.

## Fairness

Only `TransfersEnd` and `LeftoverRemoved` are about what must happen.

- `RangedDownload!FairSpec`: weak fairness for each worker and each call. They are
  goroutines, which Go's scheduler runs; a request that hangs is ended by the stall
  guard (`withStallGuard`) after two minutes, which makes the failure of a request an
  action that stays enabled. No fairness is assumed for the server's changes, and
  only weak fairness of a worker that waits for a slot: the channel serves waiters in
  some order, and the property holds even if another worker gets each slot first,
  since chunks are finite.
- `LeftoverRemoved` states its own assumptions: live processes take the steps of
  `acquireCacheLock`, time passes, some process keeps looking at the file, and from
  some time on none is killed while it does. Without the last, one may always be
  killed just before it removes the file.

The other modules state no fairness. Their commands are sequences of steps that each end
or time out, and nothing in them waits for another command except for a lock, which is
`CacheLock`'s subject or the kernel's.

## Proofs

| Theorem | Says | Assumes |
|---|---|---|
| `Invariance`, `TypeCorrect` | the inductive invariant of `RangedDownload` | `ConstantAssumption` |
| `SlotBudgetHolds`, `OneWriter`, `NoHole`, `NoStragglersHold` | the properties of the runs `assembly` and `budget` | `ConstantAssumption` |
| `FailureKept` | the first failure stays, a write failure ends the call | `ConstantAssumption` |
| `OneVersion`, `Implementation` | one version on disk; `Spec => ImplementsTransfer` | also `StrongValidator` |
| `LockExclusive` | exclusive until a lock file gets stale | `LockAssumption` |
| `CacheTypeCorrect`, `PublishServed`, `NoLostUpdate` | the cache's properties | `LockAssumption`, `CacheAssumption` |
| `InstallTypes`, `InstallsInOrder`, `DiskStaysConsistent`, `InstallsCompletely` | the properties of the run `install` | `InstallAssumption` |
| `ProgressTypes`, `CountIsExact`, `FinalEvent`, `EventsInOrder` | the properties of the run `progress` | `ProgressAssumption` |
| `InternalToolsWhole` | what `EnsureInternalTool` returns is whole | `InternalAssumption` |
| `PayloadsOfOneBuild` | a payload is of one build, an internal install on record follows the payload, but for the exceptions listed above | `BuildAssumption` |
| `RunningDatabaseUsable` | a database on record can be used | `DatabaseAssumption` |
| `ServicesTyped`, `ServersStayKept`, `WorkersStayKept`, `WebserverStaysKept`, `SuccessIsTold` | the properties of the run `services` | `ServicesAssumption`, `ServerAssumption` |
| `NothingGivenUp` | no start removes a database, only force replaces a payload | `DatabaseAssumption`, `BuildAssumption` |
| `HTTPSStaysUsable` | the certificates belong together, are trusted, and their keys can be read | `CertificatesAssumption` |
| `ToolchainFollows`, `PHPFollowsConfig`, `ShimsFollow`, `ReleaseNewest` | the properties of the run `project` about the MSVC capture, PHP's configuration, the shims and downloads | `PartsAssumption` |
| `ExtensionsStayLoaded` | the PECL packages of the config are loaded | `PartsAssumption` |
| `FrameworkStaysRight` | the framework's files have the credentials and keep the rest | `PartsAssumption` |
| `TypesStayRight` | the types of all parts of the run `project`, bounds included | `PartsAssumption` |

They hold for any number of files, chunks, connections, slots, attempts and versions;
of processes, versions, payloads, readers and publications; of commands, labels and
dependencies of an install; of commands, PIDs, ports, services and workers of the parts
of `MCServices`; and of commands, tools, versions, builders, builds and kills of
the parts of `MCProject`, whose databases are the four engines and versions that the
module defines and whose upstream has the versions it defines, and of keys, credentials and
texts of any length. The bounds on events from outside are constants of the theorems, too.
`DatabaseProofs` holds the theorem about the framework's files beside those about databases,
whose credentials these files get; what an edit does to a text is in `FilesProofs`. It extends
both this module and `ProjectProofs`, so that its last theorem has the invariants of all parts.

The argument for downloads. `NoSilentHole` is not inductive: that no chunk is missing at
the end depends on each chunk being either good or in some worker's hands as long as
nothing has failed (`CompleteInv`), which depends on chunks in transfer having been
claimed, by one worker each (`ClaimInv`), and on what a worker copies carrying the
validator of the probe (`SourceInv`). A worker may return without a failure only when
every chunk has been claimed, which is why `exhausted` must imply that `nextChunk` has
passed the last chunk. `SlotBudget` follows from the counter being the number of
holders (`CountInv`) and the holders being the workers at certain places
(`HolderInv`). The refinement adds `DeliveredInv`, for which the served version must have
been published (`ServedInv`): every step that ends a call maps to `Deliver` or
`Fail`, a replacement to `Publish`, and the rest to a stutter.

The argument for the cache. Until a lock file is stale, a process in the critical
section is the one whose name is on the lock file, and no process is about to remove
it. From this, what a publisher has read, moved or written is still there when
it takes its next step; `PublishServed` and `NoLostUpdate` follow from one clause per
step of the publisher.

The argument for installs. Of a command in its layers, everything requested is planned or
begun, and what something begun needs is done (`LayersInv`), because the requests are the
least set that holds the roots and is closed under needs: when the layer that is ready has
ended, nothing that is left needs what is left and not ready. `DiskConsistent` needs that
the config a command will save is consistent (`EnvInv`) and that a label without flavors
has the plain payload (`PlainInv`). `InstallComplete` is about a command that ran alone: what
a goroutine has done with stays as it left it, its directory, its record and its settings
(`AloneInv`), since each other goroutine of the layer writes only its own label. There is no
induction over layers in the proof: `remaining` and the goroutines say where the command is.

The argument for the progress. The counter is a sum of what each chunk has contributed
(`CountInv`): the length of a finished one, what the present attempt of another has
written, zero for the rest. A worker changes the contribution of its own chunk only,
as no other has that chunk (`ClaimsInv`). The lemmas about sums say what a sum becomes
when one value changes, one element is added, or each value is bounded; they are proved from
the definition of `MapThenSumSet`, by a smallest set that would be a counterexample, for want
of an induction theorem. An attempt can only be undone after it failed, and then the shown
count may go back; otherwise what was loaded, shown and counted are in that order
(`DeliveryInv`).

The argument for internal tools. Until something is blurred, a process in the steps under the
lock has the lock of its tool (`LocksInv`), so one that installs found the tool
unrecorded and it stays so; what is on record is whole, and it is on record when it is
returned (`RecordsInv`). The copy of `installed.json` that a process writes back may lack
another's record: this is what sets `blurred`.

The argument for builds. The directory and the compiler of a label belong to the build that
has its lock, and its files are the only ones there, unless the build is marked because a
compiler outlived its polka (`BuildFiles`). What the second look at the cache, under the lock,
has found stays so until the publication (`BuildKnows`), which is why only force
replaces a payload. The internal install is made from what was in the cache at the time,
and either this is still there, or a build is about to drop the record, or the label is
marked (`InternalFollows`). A copy of the records that somebody will write back may name
labels that were dropped meanwhile; writing it marks those whose install is outdated
(`Restored`), and only those: the marks are taken off again by the next record of an
install from the payload in the cache.

The argument for databases. Until two commands meet, only one is busy (`Alone`). While
engine and version stay, only the directory of this engine and version and that of
earlier versions of polka are in use, and a start that finds the second one to be of its
engine has nothing in the first: what it resets is no database (`KeptInv`). As long as
nothing is cut short, a server that runs is on record or belongs to the command that
launched it (`ServedInv`), a cluster without the application's database has its marker or
its command is about to write it (`ClusterInv`), and the password that the files have is
the one of each database once there is one (`SecretInv`). `RunningIsUsable` speaks of the
moments when no command is busy; the invariant shows that a server on record can be used
at any time.

The argument for services. What the properties speak of is lost or kept by several steps
of a command, and holds because the command knows something at each of them. While it
runs alone, or when none runs, every server that somebody has to know of is on record as the
service's settings say (before a command has looked, and while it stops what it has read), is
the child the command has started (until the record is written, or the child is
stopped again), or is not there (between the removal of a stale record and the spawn). This
is `Hands` for a server, `WorkerHands` for a worker, where the record names a set of PIDs and
the command adds to its own, and `ServeHands` for the webserver, where two processes are
started and stopped one after the other. When two commands run, all is excused and there
is nothing to know: what a command knows is claimed under `Lone` only, and a command that
begins alone knows what was true when none ran (`Known`). A ping tells nothing about who
answers; that a stop that has seen no answer leaves nobody behind needs that a server waits at
all the addresses it was asked to (`Waits`), for RabbitMQ that a broker's name has one node
(`OneBroker`, from `RABBITMQ_NODENAME`). Success is true by what the command knows at its
last label. For a stop of all services, what is up is among those of the order that are
still to come (`ManagerInv`).

The argument for the MSVC capture. What a sync has detected is true until the machine
changes, which `sync.fresh` says; what is in the file was true of what it lists if it was
captured while nothing changed (`steady`, a history variable that the file carries along).
Without it the property is false from three changes of the machine on: an instance that is
updated during a capture and taken back afterwards leaves a capture that every comparison of
the code accepts.

The argument for PHP. From the moment a command has written `php.ini`, the file follows what
the command read from the config (`IniFollows`), and a package that an install has not come
to is still on its list.

The argument for the shims. An editor that nobody disturbed is the only one (`Undisturbed`),
so what it read of the files still holds at each of its later steps (`ViewInv`). The active
environment exists unless a removal is about to clear the name, or `lost` excuses it
(`ActiveInv`).

The argument for downloads of releases. While the pages are read and nothing is withdrawn,
each release that has been listed all the while is among those read or on a page still to
come (`Covered`): a publication only moves releases to later pages. With the last page
nothing is left to come, and the selection is the newest of what was read. After the
verification the archive is the one that the checksum is of, unless the manifest declares none
and none was told, or wants the commit: then only the comment is that commit's (`Checked`).

The argument for the certificates. A command that nobody disturbed knows at each step which of
the files it has written or has found, and by which authority: from then on they are of one
pair and can be read, and the others are not claimed. It is one invariant of any set of
commands (`CertInv`), used for the part where commands follow each other, with accidents, and
for the part where they run at the same time. A command that was overtaken knows nothing, and
what it leaves is not claimed until an install that ran alone.

The argument for PECL. Who has brought a file is in the records on disk or, while a command has
removed the record, in what it has read of it (`Known`). So the packages that nobody works on
are in place: each file is there and has the content of the recorded version, unless another
one shares it, and the removal of a package keeps what another record names. This is claimed
for what commands that ran to their end have done since the last install that did
(`PeclInv`).

The argument for the framework's files. A filter is defined by the positions it keeps, in
their order (`Picked`), so that what an edit does to what is not polka's can be said without
an induction: an edit that inserts, rewrites or drops other items leaves a map from the old
positions to the new ones that keeps their order, and two selections between which there is
such a map are equal. Each edit, applied to what it has made, changes nothing (`Settled`),
and it leaves each key with the value and no other: for an array because one with a key
twice is refused, and what is added has keys that were not there. `FrameworkRight` judges a hook that has ended, so
the invariant says what holds on the way: what a hook has staged is settled, and has what is
foreign in the text it has read (`CleanInv`); a hook that is alone has left the files of its
earlier actions settled; what is foreign in the file on disk is what the user and the hooks
before have left there, unless a file was replaced that had changed since it was read
(`TextInv`); one that is alone is the only one (`OneHookInv`); and a file that may be written
although it was read-only is in the hands of the hook that will protect it again
(`ProtectInv`).

The argument for the types. Most of them are conjuncts of the parts' invariants. The bounds are
not: that a payload, a directory or an archive on its way to the cache names only builds that
began needs the same of what each builder has read (`NumbersBound`), and that no file or
database has a password newer than the last one drawn needs it of each command
(`DataBounds`).

Only model-checked: liveness (`TransfersEnd`, `LeftoverRemoved`) and
`FirstWorkerNeverBlocked`, which is about `ENABLED`, are beyond the prover; so is
`InstallLayers`, whose operators are recursive. The findings are counterexamples of TLC.

## Not modelled

- The parsing of manifests, release indexes, archives, PHP source and the output of
  compilers, and the rendering of commands and settings: conversions without a state of
  their own. The sandboxed interpreter of manifest scripts (`script/`) is one too.
- Validation, normalization and aliases of the config's fields (`config/types.go`),
  detection of frameworks and presets: pure functions of one file.
- Import, dump and client commands of `polka db`, logs and the dashboard: they read, or
  run a program that is not polka's.
- The foreground mode of serve, which keeps no state file and ends with its children.
- The choice of connections by the HTTP transport, and the bytes within a chunk.
- File systems that lose completed writes at a power failure: a kill ends a process,
  not the machine.
- That a `polka build --force` drops a record under a command that runs an internal tool: the
  drop is in `BuildEngine`, the command that runs the tool in `InternalTools`.
- `buildMissingTools`, PIE, PECL and MSVC are modules of their own, but within
  `ProjectInstall` one step that may fail before or after the layers.

## Plan

Every safety property of the passing runs is a theorem but `FirstWorkerNeverBlocked`. What is
left to model: the rules of the config's fields that reject an environment, and the loading of
manifests, both functions of their files.
