------------------------------ MODULE MCProject ------------------------------
(***************************************************************************)
(* What polka keeps for a project and for the machine, beside payloads and *)
(* services, in one run: a behaviour is one of InternalTools, of           *)
(* Environments, of ManagedDatabase, of PeclExtensions, of BuildEngine, of *)
(* Certificates, of ReleaseDownload, of FrameworkFiles, of MSVCToolchain   *)
(* or of PHPRuntime.  The variables of the others keep the value Idle.     *)
(***************************************************************************)
EXTENDS InternalTools, TLC, SequencesExt

CONSTANTS Idle, \* the value of variables that are not used
          Editor, Main, Named, Shim, NoName, MaxChanges,
          Operator, Legacy, Nothing, MaxSwitches, MaxPasswords,
          Package, Release, Shared, NoRelease, MaxEvents,
          Builder, Label, Unlocked, MaxBuilds, MaxKills, MaxTogether,
          Holder, Lone, Site, Gone, Torn, Plain, MaxPairs, MaxPairsTogether, MaxAccidents,
          PageSize, MaxTries, MaxNews, Damaged,
          Runner, ManagedKeys, Anchor, Credential, Own, Void, MaxItems, MaxHooks, MaxEdits,
          Stable, Latest, Toolset, Unknown,
          Module, ByPIE, Zend, Secure, MaxTweaks, MaxCuts

\* What a database may be: PostgreSQL's versions do not share data, MySQL's might.
Engine(e, v) == [engine |-> e, version |-> v]
Databases ==
  {Engine("postgresql", "16"), Engine("postgresql", "17"), Engine("mysql", "8"),
   Engine("mariadb", "11")}

\* Versions that sort otherwise as text, one of them a prerelease, and a draft.
Tagged(parts, pre) == [parts |-> parts, pre |-> pre]
Drafts == {Tagged(<<2, 0>>, FALSE)}
Tags == {Tagged(<<1, 9>>, FALSE), Tagged(<<1, 10>>, FALSE), Tagged(<<1, 11>>, TRUE)} \cup Drafts
Requests ==
  {Tagged(<<1>>, FALSE), Tagged(<<1, 10>>, FALSE), Tagged(<<1, 11>>, TRUE)}

\* The managed keys, in an order.
Keys == SetToSeq(ManagedKeys)

\* The preview is the newer instance.
Studios == {Stable, Latest}
Majors == [s \in Studios |-> IF s = Latest THEN 18 ELSE 17]

\* Each package brings the shared library.
AllBring(p, v) == TRUE

VARIABLES
  part, \* which specification the behaviour is of
  files, active, shims, editing, changes, outcome, lost,
  target, switches, secret, torn, drawn, asset, disk, server, record, doing, mishap,
  configured, folder, records, enabled, extension, events, settled,
  cached, buildRoot, buildLock, compiler, internal, named, build, installing, begun, killed,
  left, missed,
  file, keyring, trusted, holding, generated, accidents, sound, installed,
  offered, copy, news, download,
  text, protected, readonly, windows, manifest, credentials, hook, hooks, edits, others,
  raced, stopped, delivered,
  level, toolsets, runtime, capture, sync, machine, current, nested,
  flavor, builtin, suggested, wants, ini, library, ssl, act, tweaks, cuts

Project == INSTANCE Environments
Data    == INSTANCE ManagedDatabase WITH Target <- Databases
Pecl    == INSTANCE PeclExtensions WITH Brings <- AllBring
Built   == INSTANCE BuildEngine
\* One command after the other, with accidents; two at a time, without.
One     == INSTANCE Certificates
             WITH Holder <- Lone, Host <- Site, Missing <- Gone, MaxGenerated <- MaxPairs
Two     == INSTANCE Certificates
             WITH Host <- Site, Missing <- Gone, MaxGenerated <- MaxPairsTogether,
                  MaxAccidents <- 0
Upstream == INSTANCE ReleaseDownload
             WITH Tag <- Tags, Draft <- Drafts, Requested <- Requests, Allowed <- Tags
Hooks   == INSTANCE FrameworkFiles WITH Key <- Keys, Absent <- Void
Native  == INSTANCE MSVCToolchain
             WITH Studio <- Studios, Major <- Majors, Preview <- {Latest}, Absent <- Void
Runtime == INSTANCE PHPRuntime

ASSUME PartsAssumption ==
  /\ Upstream!ReleaseAssumption /\ Hooks!FrameworkAssumption /\ Native!MSVCAssumption
  /\ Runtime!PHPAssumption
  /\ Project!EnvironmentAssumption /\ Data!DatabaseAssumption /\ Pecl!PeclAssumption
  /\ Built!BuildAssumption /\ One!CertificatesAssumption /\ Two!CertificatesAssumption

projectVars == <<files, active, shims, editing, changes, outcome, lost>>
dataVars == <<target, switches, secret, torn, drawn, asset, disk, server, record, doing,
              mishap>>
peclVars == <<configured, folder, records, enabled, extension, events, settled>>
builtVars == <<cached, buildRoot, buildLock, compiler, internal, named, build, installing,
               begun, killed, left, missed>>
certificateVars == <<file, keyring, trusted, holding, generated, accidents, sound, installed>>
releaseVars == <<offered, copy, news, download>>
frameworkVars == <<text, protected, readonly, windows, manifest, credentials, hook, hooks, edits,
                   others, raced, stopped, delivered>>
msvcVars == <<level, toolsets, runtime, capture, sync, machine, current, nested>>
phpVars == <<flavor, builtin, suggested, wants, ini, library, ssl, act, tweaks, cuts>>

NoInternal ==
  /\ chosen = Idle /\ recorded = Idle /\ tree = Idle /\ lock = Idle /\ provision = Idle
  /\ mishaps = Idle /\ blurred = Idle
NoEnvironment ==
  /\ files = Idle /\ active = Idle /\ shims = Idle /\ editing = Idle /\ changes = Idle
  /\ outcome = Idle /\ lost = Idle
NoData ==
  /\ target = Idle /\ switches = Idle /\ secret = Idle /\ torn = Idle /\ drawn = Idle
  /\ asset = Idle /\ disk = Idle /\ server = Idle /\ record = Idle /\ doing = Idle
  /\ mishap = Idle
NoPecl ==
  /\ configured = Idle /\ folder = Idle /\ records = Idle /\ enabled = Idle
  /\ extension = Idle /\ events = Idle /\ settled = Idle
NoBuild ==
  /\ cached = Idle /\ buildRoot = Idle /\ buildLock = Idle /\ compiler = Idle
  /\ internal = Idle /\ named = Idle /\ build = Idle /\ installing = Idle /\ begun = Idle
  /\ killed = Idle /\ left = Idle /\ missed = Idle
NoCert ==
  /\ file = Idle /\ keyring = Idle /\ trusted = Idle /\ holding = Idle /\ generated = Idle
  /\ accidents = Idle /\ sound = Idle /\ installed = Idle
NoDownload == offered = Idle /\ copy = Idle /\ news = Idle /\ download = Idle
NoHooks ==
  /\ text = Idle /\ protected = Idle /\ readonly = Idle /\ windows = Idle /\ manifest = Idle
  /\ credentials = Idle /\ hook = Idle /\ hooks = Idle /\ edits = Idle /\ others = Idle
  /\ raced = Idle /\ stopped = Idle /\ delivered = Idle
NoStudio ==
  /\ level = Idle /\ toolsets = Idle /\ runtime = Idle /\ capture = Idle /\ sync = Idle
  /\ machine = Idle /\ current = Idle /\ nested = Idle
NoPHP ==
  /\ flavor = Idle /\ builtin = Idle /\ suggested = Idle /\ wants = Idle /\ ini = Idle
  /\ library = Idle /\ ssl = Idle /\ act = Idle /\ tweaks = Idle /\ cuts = Idle

Init ==
  \/ part = "internal" /\ InternalInit
     /\ NoEnvironment /\ NoData /\ NoPecl /\ NoBuild /\ NoCert /\ NoDownload /\ NoHooks
     /\ NoStudio /\ NoPHP
  \/ part = "environments" /\ Project!EnvironmentInit
     /\ NoInternal /\ NoData /\ NoPecl /\ NoBuild /\ NoCert /\ NoDownload /\ NoHooks
     /\ NoStudio /\ NoPHP
  \/ part = "database" /\ Data!DatabaseInit
     /\ NoInternal /\ NoEnvironment /\ NoPecl /\ NoBuild /\ NoCert /\ NoDownload
     /\ NoHooks /\ NoStudio /\ NoPHP
  \/ part = "pecl" /\ Pecl!PeclInit
     /\ NoInternal /\ NoEnvironment /\ NoData /\ NoBuild /\ NoCert /\ NoDownload
     /\ NoHooks /\ NoStudio /\ NoPHP
  \/ part = "build" /\ Built!BuildInit
     /\ NoInternal /\ NoEnvironment /\ NoData /\ NoPecl /\ NoCert /\ NoDownload
     /\ NoHooks /\ NoStudio /\ NoPHP
  \/ part = "one" /\ One!CertificatesInit
     /\ NoInternal /\ NoEnvironment /\ NoData /\ NoPecl /\ NoBuild /\ NoDownload
     /\ NoHooks /\ NoStudio /\ NoPHP
  \/ part = "two" /\ Two!CertificatesInit
     /\ NoInternal /\ NoEnvironment /\ NoData /\ NoPecl /\ NoBuild /\ NoDownload
     /\ NoHooks /\ NoStudio /\ NoPHP
  \/ part = "release" /\ Upstream!ReleaseInit
     /\ NoInternal /\ NoEnvironment /\ NoData /\ NoPecl /\ NoBuild /\ NoCert /\ NoHooks
     /\ NoStudio /\ NoPHP
  \/ part = "framework" /\ Hooks!FrameworkInit
     /\ NoInternal /\ NoEnvironment /\ NoData /\ NoPecl /\ NoBuild /\ NoCert
     /\ NoDownload /\ NoStudio /\ NoPHP
  \/ part = "msvc" /\ Native!MSVCInit
     /\ NoInternal /\ NoEnvironment /\ NoData /\ NoPecl /\ NoBuild /\ NoCert
     /\ NoDownload /\ NoHooks /\ NoPHP
  \/ part = "php" /\ Runtime!PHPInit
     /\ NoInternal /\ NoEnvironment /\ NoData /\ NoPecl /\ NoBuild /\ NoCert
     /\ NoDownload /\ NoHooks /\ NoStudio

Next ==
  /\ UNCHANGED part
  /\ \/ part = "internal" /\ InternalNext
        /\ UNCHANGED <<projectVars, dataVars, peclVars, builtVars, certificateVars,
                       releaseVars, frameworkVars, msvcVars, phpVars>>
     \/ part = "environments" /\ Project!EnvironmentNext
        /\ UNCHANGED <<internalVars, dataVars, peclVars, builtVars, certificateVars,
                       releaseVars, frameworkVars, msvcVars, phpVars>>
     \/ part = "database" /\ Data!DatabaseNext
        /\ UNCHANGED <<internalVars, projectVars, peclVars, builtVars, certificateVars,
                       releaseVars, frameworkVars, msvcVars, phpVars>>
     \/ part = "pecl" /\ Pecl!PeclNext
        /\ UNCHANGED <<internalVars, projectVars, dataVars, builtVars, certificateVars,
                       releaseVars, frameworkVars, msvcVars, phpVars>>
     \/ part = "build" /\ Built!BuildNext
        /\ UNCHANGED <<internalVars, projectVars, dataVars, peclVars, certificateVars,
                       releaseVars, frameworkVars, msvcVars, phpVars>>
     \/ part = "one" /\ One!CertificatesNext
        /\ UNCHANGED <<internalVars, projectVars, dataVars, peclVars, builtVars,
                       releaseVars, frameworkVars, msvcVars, phpVars>>
     \/ part = "two" /\ Two!CertificatesNext
        /\ UNCHANGED <<internalVars, projectVars, dataVars, peclVars, builtVars,
                       releaseVars, frameworkVars, msvcVars, phpVars>>
     \/ part = "release" /\ Upstream!ReleaseNext
        /\ UNCHANGED <<internalVars, projectVars, dataVars, peclVars, builtVars,
                       certificateVars, frameworkVars, msvcVars, phpVars>>
     \/ part = "framework" /\ Hooks!FrameworkNext
        /\ UNCHANGED <<internalVars, projectVars, dataVars, peclVars, builtVars,
                       certificateVars, releaseVars, msvcVars, phpVars>>
     \/ part = "msvc" /\ Native!MSVCNext
        /\ UNCHANGED <<internalVars, projectVars, dataVars, peclVars, builtVars,
                       certificateVars, releaseVars, frameworkVars, phpVars>>
     \/ part = "php" /\ Runtime!PHPNext
        /\ UNCHANGED <<internalVars, projectVars, dataVars, peclVars, builtVars,
                       certificateVars, releaseVars, frameworkVars, msvcVars>>

projectPartVars ==
  <<part, internalVars, projectVars, dataVars, peclVars, builtVars, certificateVars,
    releaseVars, frameworkVars, msvcVars, phpVars>>

Spec == Init /\ [][Next]_projectPartVars

\* Commands are interchangeable, and so are the items that they work on.
Symmetry ==
  Permutations(Provisioner) \cup Permutations(Shim) \cup Permutations(Label)

-----------------------------------------------------------------------------

\* The type invariant of each specification.
TypesOK ==
  /\ part = "internal" => InternalTypeOK
  /\ part = "environments" => Project!EnvironmentTypeOK
  /\ part = "database" => Data!DatabaseTypeOK
  /\ part = "pecl" => Pecl!PeclTypeOK
  /\ part = "build" => Built!BuildTypeOK
  /\ part = "one" => One!CertificatesTypeOK
  /\ part = "two" => Two!CertificatesTypeOK
  /\ part = "release" => Upstream!ReleaseTypeOK
  /\ part = "framework" => Hooks!FrameworkTypeOK
  /\ part = "msvc" => Native!MSVCTypeOK
  /\ part = "php" => Runtime!PHPTypeOK

\* A returned internal tool stays whole: see ReturnedIsWhole in InternalTools
\* (EnsureInternalTool).
InternalWhole == part = "internal" => ReturnedIsWhole

\* The shims are those of the active environment: see ShimsOfTheActive in Environments
\* (syncManagedBinaries).
ShimsRight == part = "environments" => Project!ShimsOfTheActive

\* A database that was started can be used: see RunningIsUsable in ManagedDatabase
\* (EnsureManagedDatabaseStarted).
DatabaseUsable == part = "database" => Data!RunningIsUsable

\* The configured extensions load: see ExtensionsLoad in PeclExtensions (pecl.go).
PeclLoads == part = "pecl" => Pecl!ExtensionsLoad

\* A payload is of one build, and an internal install follows the payload: see
\* PayloadOfOneBuild and InternalFollowsBuild in BuildEngine (runBuild, Store.BuildTool).
BuildsRight == part = "build" => Built!PayloadOfOneBuild /\ Built!InternalFollowsBuild

\* What took long to make is only given up for a reason: no start removes a database while
\* engine and version stay, see DataKeptWithoutSwitch in ManagedDatabase
\* (InitializeDatabaseServer); and only force replaces a payload that was compiled, see
\* ReplacedOnlyByForce in BuildEngine (existingBuild).
NotGivenUp ==
  [][/\ part = "database" => Data!DataKeptStep
     /\ part = "build" => Built!ForcedStep]_<<dataVars, builtVars>>

\* The certificates can be used: see CertificatesUsable in Certificates (serve_tls.go).
HTTPSUsable ==
  /\ part = "one" => One!CertificatesUsable
  /\ part = "two" => Two!CertificatesUsable

\* What is downloaded is the newest and verified: see NewestAndVerified in ReleaseDownload
\* (resolveManifestRequest, downloadManifestAssetWithProgress).
ReleaseRight == part = "release" => Upstream!NewestAndVerified

\* The framework's files have the credentials and the rest: see ConfiguredAndKept in
\* FrameworkFiles (frameworkManifestPostComposer).
FrameworkRight == part = "framework" => Hooks!ConfiguredAndKept

\* The captured toolchain is the one to build with: see CaptureCurrent in MSVCToolchain
\* (syncMSVCToolchain).
ToolchainRight == part = "msvc" => Native!CaptureCurrent

\* PHP loads what the config asks for: see InstalledPHPFollows in PHPRuntime
\* (syncInstalledPHPRuntimeConfig, installPIEExtensions, runExtInstall, runExtRemove).
PHPRight == part = "php" => Runtime!InstalledPHPFollows
===============================================================================
