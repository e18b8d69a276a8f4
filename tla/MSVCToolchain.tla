---------------------------- MODULE MSVCToolchain ----------------------------
(***************************************************************************)
(* The developer environment of Visual Studio that polka install captures  *)
(* for native builds on Windows (backend/msvc.go): an instance and toolset *)
(* are chosen that fit PHP's compiler, vcvarsall runs, and what it adds to *)
(* the environment goes to a file, which polka sh and polka exec apply.    *)
(* Visual Studio is updated and removed at any time.                       *)
(*                                                                         *)
(* The version of an instance is its major number, which never changes,    *)
(* and a level, which updates raise; level 0 is an instance that is not    *)
(* installed.                                                              *)
(***************************************************************************)
EXTENDS Naturals

CONSTANTS Studio,     \* instances of Visual Studio, with a path each
          Major,      \* Major[s]: its major version
          Preview,    \* the instances that are previews
          Toolset,    \* versions of the compiler's toolset
          Unknown,    \* PHP's compiler is not known, or no toolset is selected
          Absent,     \* no file, no environment of a toolchain
          Torn,       \* a file that was truncated
          MaxChanges  \* bound: changes of the machine and of PHP

\* What vcvarsall gives: of an instance and its level, for a toolset; whether it is all of
\* that, and whether (history) nothing changed between the listing of the instances and it.
Environment ==
  [studio : Studio, level : Nat, toolset : Toolset, whole : BOOLEAN, steady : BOOLEAN]
Captured == [studio : Studio, listed : Nat, result : Environment]

MSVCAssumption ==
  /\ Major \in [Studio -> Nat] /\ Preview \subseteq Studio
  /\ Unknown \notin Toolset /\ MaxChanges \in Nat
  /\ Absent \notin Environment /\ {Absent, Torn} \cap Captured = {}

VARIABLES
  level,    \* of each instance
  toolsets, \* of each instance: the toolsets in its VC\Tools\MSVC
  runtime,      \* the compiler of the environment's PHP
  capture,  \* the file: what was listed, and the environment that vcvarsall gave
  sync,     \* syncMSVCToolchain: where it is
  machine,  \* changes so far
  current,  \* history: how the last sync ended, if nothing has changed since it began
  nested    \* history: a sync ran in a shell that has a toolchain already

msvcVars == <<level, toolsets, runtime, capture, sync, machine, current, nested>>

NoSync == [step |-> "idle", force |-> FALSE, inside |-> Absent, studio |-> Absent, listed |-> 0,
           toolset |-> Unknown, result |-> Absent, fresh |-> TRUE]

MSVCInit ==
  /\ level \in [Studio -> {0, 1}]
  /\ toolsets \in [Studio -> (SUBSET Toolset) \ {{}}]
  /\ \A s \in Studio : level[s] = 0 => toolsets[s] = Toolset
  /\ runtime \in [major : {0} \cup {Major[s] : s \in Studio}, toolset : Toolset \cup {Unknown}]
  /\ capture = Absent /\ sync = NoSync
  /\ machine = 0 /\ current = "no" /\ nested = FALSE

At(label) == sync.step = label
Go(label) == sync' = [sync EXCEPT !.step = label]
End(how) == sync' = NoSync /\ current' = IF sync.fresh THEN how ELSE "no"
Host == UNCHANGED <<level, toolsets, runtime, machine>>
Recorded == capture \notin {Absent, Torn}

-----------------------------------------------------------------------------

\* selectMSVCInstance: releases before previews, then PHP's major version, then the newest.
Before(s, u) ==
  LET match(i) == runtime.major > 0 /\ Major[i] = runtime.major
  IN  IF (s \in Preview) # (u \in Preview) THEN u \in Preview
      ELSE IF match(s) # match(u) THEN match(s)
      ELSE Major[s] > Major[u] \/ (Major[s] = Major[u] /\ level[s] > level[u])
There == {s \in Studio : level[s] > 0}
Best == {s \in There : \A u \in There : ~Before(u, s)}

\* selectMSVCToolset: PHP's, if the instance has it.
ToolsetOf(s) == IF runtime.toolset \in toolsets[s] THEN runtime.toolset ELSE Unknown

\* The capture is kept if it is of the same instance and version, and of the toolset if one
\* is asked for.
ReusableOfOld(s) ==
  Recorded /\ capture.studio = s /\ ToolsetOf(s) \in {Unknown, capture.result.toolset}
Reusable(s) ==
  /\ Recorded
  /\ capture.studio = s /\ capture.listed = level[s]
  /\ ToolsetOf(s) \in {Unknown, capture.result.toolset}

\* The shell of the command may have the captured environment: that of polka sh.
BeginSync(force, inside) ==
  /\ At("idle") /\ (inside => Recorded)
  /\ sync' = [NoSync EXCEPT !.step = "look", !.force = force,
                            !.inside = IF inside THEN capture.result ELSE Absent]
  /\ nested' = (nested \/ inside) /\ current' = "no"
  /\ UNCHANGED capture /\ Host

\* detectMSVCToolchain, up to the capture; anything that fails ends in the removal.
DetectFails ==
  /\ At("look") \/ At("capture")
  /\ Go("remove")
  /\ UNCHANGED <<capture, current, nested>> /\ Host

Detect(s) ==
  /\ At("look") /\ s \in Best
  /\ sync' = [sync EXCEPT !.step = IF ~sync.force /\ Reusable(s) THEN "truncate" ELSE "capture",
                          !.studio = s, !.listed = level[s], !.toolset = ToolsetOf(s),
                          !.result = IF ~sync.force /\ Reusable(s) THEN capture.result ELSE Absent]
  /\ UNCHANGED <<capture, current, nested>> /\ Host

\* captureMSVCVCVars runs vcvarsall as the instance is now, and diffMSVCEnvironment keeps what
\* it changed: nothing, if the shell had it all, and not all, if the shell had a part.
Capture ==
  /\ At("capture") /\ level[sync.studio] > 0
  /\ \E t \in IF sync.toolset = Unknown THEN toolsets[sync.studio]
              ELSE toolsets[sync.studio] \cap {sync.toolset} :
       LET gives == [studio |-> sync.studio, level |-> level[sync.studio], toolset |-> t,
                     whole |-> sync.inside = Absent, steady |-> sync.fresh]
           had   == /\ sync.inside # Absent
                    /\ \A field \in {"studio", "level", "toolset"} :
                         sync.inside[field] = gives[field]
       IN  sync' = [sync EXCEPT !.step = IF had THEN "remove" ELSE "truncate", !.result = gives]
  /\ UNCHANGED <<capture, current, nested>> /\ Host

\* writeMSVCToolchain writes in place, also what it has kept.
Truncate ==
  /\ At("truncate")
  /\ capture' = Torn /\ Go("write")
  /\ UNCHANGED <<current, nested>> /\ Host

Write ==
  /\ At("write")
  /\ capture' = [studio |-> sync.studio, listed |-> sync.listed, result |-> sync.result]
  /\ End("captured")
  /\ UNCHANGED nested /\ Host

\* The capture of another time does not stay, and the install goes on with a warning.
RemoveCapture ==
  /\ At("remove")
  /\ capture' = Absent /\ End("warned")
  /\ UNCHANGED nested /\ Host

\* A write or the removal fails, or the command is killed.
Abort ==
  /\ ~At("idle")
  /\ sync' = NoSync /\ current' = "no"
  /\ UNCHANGED <<capture, nested>> /\ Host

\* An update, an installation or a removal of an instance, or another PHP.
ChangeMachine ==
  /\ machine < MaxChanges /\ machine' = machine + 1
  /\ \/ /\ \E s \in Studio, up \in BOOLEAN, ts \in (SUBSET Toolset) \ {{}} :
             /\ level' = [level EXCEPT ![s] = IF up THEN @ + 1 ELSE 0]
             /\ toolsets' = [toolsets EXCEPT ![s] = ts]
        /\ UNCHANGED runtime
     \/ /\ \E m \in {0} \cup {Major[s] : s \in Studio}, t \in Toolset \cup {Unknown} :
             runtime' = [major |-> m, toolset |-> t]
        /\ UNCHANGED <<level, toolsets>>
  /\ current' = "no" /\ sync' = [sync EXCEPT !.fresh = At("idle")]
  /\ UNCHANGED <<capture, nested>>

MSVCNext ==
  \/ \E force \in BOOLEAN, inside \in BOOLEAN : BeginSync(force, inside)
  \/ \E s \in Studio : Detect(s)
  \/ DetectFails \/ Capture \/ Truncate \/ Write \/ RemoveCapture \/ Abort \/ ChangeMachine

MSVCSpec == MSVCInit /\ [][MSVCNext]_msvcVars

-----------------------------------------------------------------------------

\* The types.
MSVCTypeOK ==
  /\ level \in [Studio -> 0 .. MaxChanges + 1] /\ toolsets \in [Studio -> (SUBSET Toolset) \ {{}}]
  /\ DOMAIN runtime = {"major", "toolset"} /\ runtime.toolset \in Toolset \cup {Unknown}
  /\ Recorded => capture \in Captured /\ capture.listed > 0
  /\ DOMAIN sync = DOMAIN NoSync
  /\ sync.step \in {"idle", "look", "capture", "truncate", "write", "remove"}
  /\ sync.studio \in Studio \cup {Absent} /\ sync.result \in Environment \cup {Absent}
  /\ machine \in 0 .. MaxChanges
  /\ current \in {"no", "captured", "warned"} /\ nested \in BOOLEAN

\* After an install that nothing changed during or after, the file is of the instance that
\* would be chosen, as it is installed, and of PHP's toolset if that instance has it; after
\* one that could not find out there is none, so that no build runs with a toolchain that
\* has gone.  What is in a file is all that vcvarsall gives, unless an install ran in a
\* shell that had a toolchain.  A capture made while its instance was updated is taken for
\* right if the listed version comes back, which no comparison with the file tells
\* (syncMSVCToolchain, detectMSVCToolchain).
CaptureCurrent ==
  /\ current = "captured" =>
       /\ Recorded /\ capture.studio \in Best
       /\ capture.result.studio = capture.studio
       /\ capture.listed = level[capture.studio]
       /\ capture.result.steady => capture.result.level = capture.listed
       /\ ToolsetOf(capture.studio) \in {Unknown, capture.result.toolset}
  /\ current = "warned" => capture = Absent
  /\ Recorded /\ ~nested => capture.result.whole
===============================================================================
