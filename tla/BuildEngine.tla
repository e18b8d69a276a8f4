------------------------------ MODULE BuildEngine ------------------------------
(***************************************************************************)
(* polka build (tools/build.go, backend/build.go): a tool is compiled in   *)
(* a directory of its label below the cache, under a flock that the kernel *)
(* releases when the command is killed, although the compiler it started   *)
(* lives on; the result is packed, tried out as an install would, and      *)
(* published.  When it replaces a payload, the record of the internal      *)
(* install of that label is dropped, so that internal tools follow.  The   *)
(* records are one file, installed.json: whoever changes it reads it and   *)
(* writes it back as a whole, and no lock is common to all who do.         *)
(***************************************************************************)
EXTENDS Naturals, FiniteSets

CONSTANTS Builder,     \* the commands that build
          Label,       \* what they build: a version of a tool, each of another tool
          Unlocked,    \* nobody holds the lock
          MaxBuilds,   \* bound: compilations that were begun
          MaxKills,    \* bound: commands that were killed
          MaxTogether  \* bound: builds and internal installs that are under way at once

BuildAssumption ==
  /\ Unlocked \notin Builder \cup Label
  /\ MaxBuilds \in Nat /\ MaxKills \in Nat /\ MaxTogether \in Nat

VARIABLES
  cached,      \* of each label: the payload in the cache
  buildRoot,   \* of each label: the builds whose files the build directory holds
  buildLock,   \* of each label: who holds its lock
  compiler,    \* of each label: compilers whose polka was killed
  internal,    \* of each label: the payload that the internal install was made from
  named,       \* the labels that installed.json names
  build,       \* of each command: its step, label, force, replaced, number, archive,
               \* and its copy of installed.json
  installing,  \* of each label: its internal install's step, payload, copy of installed.json
  begun,       \* builds begun so far
  killed,      \* commands killed so far
  left,        \* history: builds that began while a compiler of an earlier one ran
  missed       \* history: labels whose replacement the internal install may not know of

buildVars == <<cached, buildRoot, buildLock, compiler, internal, named, build, installing,
               begun, killed, left, missed>>

NoPayload == [number |-> 0, of |-> {}]
\* A payload that no build made: number 0.
Downloaded == [NoPayload EXCEPT !.of = {0}]
NoBuild == [step |-> "idle", label |-> Unlocked, force |-> FALSE, replaced |-> FALSE,
            number |-> 0, archive |-> {}, copy |-> {}]
NoInstalling == [step |-> "idle", payload |-> NoPayload, copy |-> {}]

BuildInit ==
  /\ cached \in [Label -> {NoPayload, Downloaded}]
  /\ buildRoot = [l \in Label |-> {}]
  /\ buildLock = [l \in Label |-> Unlocked]
  /\ compiler = [l \in Label |-> {}]
  /\ internal = [l \in Label |-> NoPayload] /\ named = {}
  /\ build = [b \in Builder |-> NoBuild] /\ installing = [l \in Label |-> NoInstalling]
  /\ begun = 0 /\ killed = 0
  /\ left = {} /\ missed = {}

Step(b, label) == build[b].step = label
Goes(b, label) == build' = [build EXCEPT ![b].step = label]
Here(b) == build[b].label
InternalSide == UNCHANGED <<internal, named, installing, missed>>
Bounds == UNCHANGED <<begun, killed>>
Together == Cardinality({b \in Builder : ~Step(b, "idle")})
              + Cardinality({l \in Label : installing[l].step # "idle"})

-----------------------------------------------------------------------------
(* Before the compilation. *)

\* existingBuild: with a payload the command ends, be it an answer or, when it was built
\* with other configure arguments, a refusal.
Existing(b) == ~build[b].force /\ cached[Here(b)] # NoPayload

\* buildManifestTool; buildIfMissing asks without force.
BeginBuild(b) ==
  /\ Step(b, "idle") /\ Together < MaxTogether
  /\ \E l \in Label, f \in BOOLEAN :
        build' = [build EXCEPT ![b] = [NoBuild EXCEPT !.step = "look", !.label = l, !.force = f]]
  /\ UNCHANGED <<cached, buildRoot, buildLock, compiler, left>> /\ InternalSide /\ Bounds

\* The look before the host is checked, and the one under the lock.
LookCachedOnce(b) ==
  /\ Step(b, "look") \/ Step(b, "recheck")
  /\ \/ Step(b, "look") /\ Existing(b) /\ build' = [build EXCEPT ![b] = NoBuild]
     \/ Step(b, "look") /\ ~Existing(b) /\ Goes(b, "acquire")
     \/ Step(b, "recheck")
        /\ build' = [build EXCEPT ![b].step = "reset",
                                  ![b].replaced = cached[Here(b)] # NoPayload]
  /\ UNCHANGED <<cached, buildRoot, buildLock, compiler, left>> /\ InternalSide /\ Bounds
LookCached(b) ==
  /\ Step(b, "look") \/ Step(b, "recheck")
  /\ \/ Existing(b) /\ build' = [build EXCEPT ![b] = NoBuild]
        /\ buildLock' = IF Step(b, "recheck") THEN [buildLock EXCEPT ![Here(b)] = Unlocked]
                        ELSE buildLock
     \/ /\ ~Existing(b) /\ UNCHANGED buildLock
        /\ IF Step(b, "look") THEN Goes(b, "acquire")
           ELSE build' = [build EXCEPT ![b].step = "reset",
                                       ![b].replaced = cached[Here(b)] # NoPayload]
  /\ UNCHANGED <<cached, buildRoot, compiler, left>> /\ InternalSide /\ Bounds

\* acquireBuildLock: a flock, polled; the host may be found wanting, the wait cancelled.
AcquireAnyway(b) ==
  /\ Step(b, "acquire")
  /\ buildLock' = [buildLock EXCEPT ![Here(b)] = b] /\ Goes(b, "recheck")
  /\ UNCHANGED <<cached, buildRoot, compiler, left>> /\ InternalSide /\ Bounds
AcquireBuildLock(b) ==
  /\ Step(b, "acquire")
  /\ \/ /\ buildLock[Here(b)] = Unlocked
        /\ buildLock' = [buildLock EXCEPT ![Here(b)] = b] /\ Goes(b, "recheck")
     \/ build' = [build EXCEPT ![b] = NoBuild] /\ UNCHANGED buildLock
  /\ UNCHANGED <<cached, buildRoot, compiler, left>> /\ InternalSide /\ Bounds

\* The deferred removal of the directory and release of the lock; what is left of the
\* command is to tell the internal install.
Leave(b, next) ==
  /\ buildRoot' = [buildRoot EXCEPT ![Here(b)] = {}]
  /\ buildLock' = [buildLock EXCEPT ![Here(b)] = Unlocked]
  /\ IF next = "idle" THEN build' = [build EXCEPT ![b] = NoBuild] ELSE Goes(b, next)

-----------------------------------------------------------------------------
(* runBuild. *)

\* The directory is emptied, or the removal or the lookup of the sources fails.
ResetRoot(b) ==
  /\ Step(b, "reset")
  /\ LET l == Here(b)
     IN  \/ /\ begun < MaxBuilds /\ begun' = begun + 1
            /\ buildRoot' = [buildRoot EXCEPT ![l] = {}]
            /\ build' = [build EXCEPT ![b].step = "fetch", ![b].number = begun + 1]
            /\ left' = IF compiler[l] = {} THEN left ELSE left \cup {begun + 1}
            /\ UNCHANGED buildLock
         \/ /\ buildLock' = [buildLock EXCEPT ![l] = Unlocked]
            /\ build' = [build EXCEPT ![b] = NoBuild]
            /\ UNCHANGED <<buildRoot, begun, left>>
  /\ UNCHANGED <<cached, compiler, killed>> /\ InternalSide

\* Each step puts files of this build into the directory, or fails, a checksum that
\* differs and a cancellation included.
Work(b, label, next) ==
  /\ Step(b, label)
  /\ \/ /\ buildRoot' = [buildRoot EXCEPT ![Here(b)] = @ \cup {build[b].number}]
        /\ Goes(b, next)
        /\ UNCHANGED buildLock
     \/ Leave(b, "idle")
  /\ UNCHANGED <<cached, compiler, left>> /\ InternalSide /\ Bounds

\* fetchBuildSources and extractSources; configure and make; make install.
FetchSources(b) == Work(b, "fetch", "compile")
Compile(b) == Work(b, "compile", "install")
InstallStage(b) == Work(b, "install", "package")

\* packageAndVerify: the payload is what lies in the staging directory.
PackageAndVerify(b) ==
  /\ Step(b, "package")
  /\ \/ /\ build' = [build EXCEPT ![b].step = "publish",
                                  ![b].archive = buildRoot[Here(b)]]
        /\ UNCHANGED <<buildRoot, buildLock>>
     \/ Leave(b, "idle")
  /\ UNCHANGED <<cached, compiler, left>> /\ InternalSide /\ Bounds

\* An internal install has taken a payload of the label and is not on record yet.
Overlaps(l) == installing[l].step \in {"put", "read", "record"}

\* The internal installs that are not made from the payload in the cache.
Outdated == {l \in Label : internal[l] # cached[l]}

\* CacheBuiltPayload, whose steps are PayloadCache's; then the deferred calls.
Publish(b) ==
  /\ Step(b, "publish")
  /\ LET l == Here(b)
     IN  \/ /\ cached' = [cached EXCEPT ![l] =
                 [number |-> build[b].number, of |-> build[b].archive]]
            /\ Leave(b, IF build[b].replaced THEN "forget" ELSE "idle")
            /\ missed' = IF Overlaps(l) THEN missed \cup {l} ELSE missed
         \/ Leave(b, "idle") /\ UNCHANGED <<cached, missed>>
  /\ UNCHANGED <<compiler, internal, named, installing, left>> /\ Bounds

\* What writing these records back restores that others have dropped since.
Restored(records) == Outdated \cap (records \ named)

\* Store.BuildTool, when a payload was replaced: installed.json may not name the label.
ReadRecords(b) ==
  /\ Step(b, "forget")
  /\ LET l == Here(b)
     IN  IF l \in named
         THEN /\ build' = [build EXCEPT ![b].step = "drop", ![b].copy = named]
              /\ UNCHANGED missed
         ELSE /\ build' = [build EXCEPT ![b] = NoBuild]
              /\ missed' = IF Overlaps(l) THEN missed ELSE missed \ {l}
  /\ UNCHANGED <<cached, buildRoot, buildLock, compiler, internal, named, installing, left>>
  /\ Bounds

\* It writes the file back without the label, or fails to.
ForgetInternal(b) ==
  /\ Step(b, "drop")
  /\ LET l == Here(b)
     IN  \/ /\ named' = build[b].copy \ {l}
            /\ missed' = (IF Overlaps(l) THEN missed ELSE missed \ {l}) \cup Restored(named')
         \/ UNCHANGED named /\ missed' = missed \cup ({l} \cap Outdated)
  /\ build' = [build EXCEPT ![b] = NoBuild]
  /\ UNCHANGED <<cached, buildRoot, buildLock, compiler, internal, installing, left>> /\ Bounds

\* The command is killed: the kernel releases the lock, the directory stays, and a
\* compiler of its own process group goes on.
KillBuilder(b) ==
  /\ ~Step(b, "idle") /\ killed < MaxKills /\ killed' = killed + 1
  /\ LET l == Here(b)
     IN  /\ buildLock' = IF buildLock[l] = b THEN [buildLock EXCEPT ![l] = Unlocked] ELSE buildLock
         /\ missed' = IF build[b].step \in {"forget", "drop"} THEN missed \cup ({l} \cap Outdated)
                      ELSE missed
         /\ compiler' = IF build[b].step \in {"compile", "install"}
                        THEN [compiler EXCEPT ![l] = @ \cup {build[b].number}] ELSE compiler
  /\ build' = [build EXCEPT ![b] = NoBuild]
  /\ UNCHANGED <<cached, buildRoot, begun, left, internal, named, installing>>

\* Such a compiler writes, by the paths it was given, or ends.
CompilerGoesOn ==
  /\ \E l \in Label : \E n \in compiler[l] :
        \/ /\ n \notin buildRoot[l]
           /\ buildRoot' = [buildRoot EXCEPT ![l] = @ \cup {n}] /\ UNCHANGED compiler
        \/ compiler' = [compiler EXCEPT ![l] = @ \ {n}] /\ UNCHANGED buildRoot
  /\ UNCHANGED <<cached, buildLock, build, left>> /\ InternalSide /\ Bounds

-----------------------------------------------------------------------------
(* EnsureInternalTool, whose steps are InternalTools': one install of a tool at a time, *)
(* by the tool's lock, and those of several tools together.                             *)

InternalFrame == UNCHANGED <<cached, buildRoot, buildLock, compiler, build, left>> /\ Bounds

\* With the lock, and no record of the label: the payload is opened.  A build that ends
\* between the two is as good as one that ended before.
TakePayload(l) ==
  /\ installing[l].step = "idle" /\ Together < MaxTogether
  /\ l \notin named /\ cached[l] # NoPayload
  /\ installing' = [installing EXCEPT ![l].step = "put", ![l].payload = cached[l]]
  /\ UNCHANGED <<internal, named, missed>> /\ InternalFrame

\* installToolFromCache: its tree takes the place of the old one.
PutInternal(l) ==
  /\ installing[l].step = "put"
  /\ internal' = [internal EXCEPT ![l] = installing[l].payload]
  /\ installing' = [installing EXCEPT ![l].step = "read"]
  /\ UNCHANGED <<named, missed>> /\ InternalFrame

\* The record: installed.json is read, and written back with the label.
CopyRecords(l) ==
  /\ installing[l].step = "read"
  /\ installing' = [installing EXCEPT ![l].step = "record", ![l].copy = named]
  /\ UNCHANGED <<internal, named, missed>> /\ InternalFrame

RecordInternal(l) ==
  /\ installing[l].step = "record"
  /\ named' = installing[l].copy \cup {l}
  /\ missed' = (IF l \in Outdated THEN missed ELSE missed \ {l})
                  \cup Restored(installing[l].copy \ {l})
  /\ installing' = [installing EXCEPT ![l] = NoInstalling]
  /\ UNCHANGED internal /\ InternalFrame

\* It fails or is killed.
FailInstall(l) ==
  /\ installing[l].step # "idle"
  /\ installing' = [installing EXCEPT ![l] = NoInstalling]
  /\ UNCHANGED <<internal, named, missed>> /\ InternalFrame

BuildNext ==
  \/ \E b \in Builder :
        \/ BeginBuild(b) \/ LookCached(b) \/ AcquireBuildLock(b) \/ ResetRoot(b)
        \/ FetchSources(b) \/ Compile(b) \/ InstallStage(b) \/ PackageAndVerify(b)
        \/ Publish(b) \/ ReadRecords(b) \/ ForgetInternal(b) \/ KillBuilder(b)
  \/ CompilerGoesOn
  \/ \E l \in Label :
        \/ TakePayload(l) \/ PutInternal(l) \/ CopyRecords(l) \/ RecordInternal(l)
        \/ FailInstall(l)

BuildSpec == BuildInit /\ [][BuildNext]_buildVars

-----------------------------------------------------------------------------
(* Correctness. *)

\* The types.
BuildTypeOK ==
  /\ \A l \in Label : /\ cached[l].number \in 0..begun /\ cached[l].of \subseteq 0..begun
                      /\ buildRoot[l] \subseteq 1..begun /\ compiler[l] \subseteq 1..begun
  /\ buildLock \in [Label -> Builder \cup {Unlocked}]
  /\ begun \in 0..MaxBuilds /\ killed \in 0..MaxKills
  /\ left \subseteq 1..begun /\ missed \subseteq Label /\ named \subseteq Label

\* A payload holds the files of the build that published it and of no other, whoever else
\* built the label or was killed while building it (buildManifestTool, runBuild, the lock and
\* the reset of the directory); except that a compiler which outlives its polka may still
\* write into the directory of a build that begins before it ends.
PayloadOfOneBuild ==
  \A l \in Label : cached[l].number \notin left => cached[l].of \subseteq {cached[l].number}

\* A payload in the cache is replaced only by a build that was asked to, although the look
\* that finds it absent is hours of other builds before the publication (buildManifestTool,
\* existingBuild: "silently replacing it would discard a long compile").
ForcedStep ==
  \A l \in Label : cached[l] # NoPayload /\ cached'[l] # cached[l] =>
    \E b \in Builder : /\ Step(b, "publish") /\ ~Step(b, "publish")'
                       /\ Here(b) = l /\ build[b].force
ReplacedOnlyByForce == [][ForcedStep]_buildVars

\* An internal install on record is made from the payload in the cache, once the build that
\* replaced it has told (Store.BuildTool), however many builds and internal installs of other
\* tools go on meanwhile; unless that build was killed or failed before it dropped the
\* record, an install of the tool was under way when the payload was replaced, or another
\* writer of installed.json, whose copy was made before, has put the record back.
InternalFollowsBuild ==
  \A l \in named \ missed :
    (\A b \in Builder : ~(build[b].step \in {"forget", "drop"} /\ Here(b) = l))
      => internal[l] = cached[l]
=============================================================================
