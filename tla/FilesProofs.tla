----------------------------- MODULE FilesProofs -----------------------------
(***************************************************************************)
(* The files that polka's commands leave to later ones, for any number of  *)
(* commands, as MCProject has them; and what the edits of a framework's    *)
(* files do to a text, for the theorem about them in DatabaseProofs.       *)
(***************************************************************************)
EXTENDS MCProject, SequenceTheorems, FiniteSetTheorems, TLAPS

-----------------------------------------------------------------------------
(* The MSVC toolchain.  What a sync has found out is true until the machine *)
(* changes (fresh), and what it has captured was true of what it listed.    *)

SyncSteps == {"idle", "look", "capture", "truncate", "write", "remove"}
Found == {"capture", "truncate", "write"}
Taken == {"truncate", "write"}
Syncing ==
  [step : SyncSteps, force : BOOLEAN, inside : Native!Environment \cup {Void},
   studio : Studios \cup {Void}, listed : Nat, toolset : Toolset \cup {Unknown},
   result : Native!Environment \cup {Void}, fresh : BOOLEAN]

MSVCTypes ==
  /\ level \in [Studios -> Nat] /\ \A s \in Studios : level[s] <= machine + 1
  /\ toolsets \in [Studios -> (SUBSET Toolset) \ {{}}]
  /\ runtime \in [major : Nat, toolset : Toolset \cup {Unknown}]
  /\ capture \in Native!Captured \cup {Void, Torn}
  /\ sync \in Syncing
  /\ machine \in 0 .. MaxChanges
  /\ current \in {"no", "captured", "warned"} /\ nested \in BOOLEAN

\* The file is of one instance, and of what was listed if nothing changed meanwhile.
CaptureInv ==
  Native!Recorded =>
    /\ capture.listed > 0 /\ capture.result.studio = capture.studio
    /\ capture.result.steady => capture.result.level = capture.listed
    /\ ~nested => capture.result.whole

SyncInv ==
  /\ sync.step = "idle" => sync = Native!NoSync
  /\ sync.step # "idle" => current = "no" /\ (~nested => sync.inside = Void)
  /\ sync.step \in Found => sync.studio \in Studios /\ sync.listed > 0
  /\ sync.step \in Taken =>
       /\ sync.result \in Native!Environment /\ sync.result.studio = sync.studio
       /\ sync.result.steady => sync.result.level = sync.listed
       /\ ~nested => sync.result.whole
  /\ sync.fresh /\ sync.step \in Found =>
       /\ sync.studio \in Native!Best /\ sync.listed = level[sync.studio]
       /\ sync.toolset = Native!ToolsetOf(sync.studio)
  /\ sync.fresh /\ sync.step \in Taken => sync.toolset \in {Unknown, sync.result.toolset}

MSVCInv == MSVCTypes /\ CaptureInv /\ SyncInv /\ Native!CaptureCurrent

\* What a file is not: one that is there.
LEMMA MSVCFacts ==
  /\ Void \notin Native!Environment /\ Void \notin Native!Captured /\ Torn \notin Native!Captured
  /\ Unknown \notin Toolset /\ MaxChanges \in Nat
  /\ Majors \in [Studios -> Nat]
  /\ Native!NoSync \in Syncing /\ Native!NoSync.step = "idle" /\ Native!NoSync.fresh = TRUE
<1>1. Native!MSVCAssumption
  BY PartsAssumption
<1>2. Native!NoSync \in Syncing
  BY DEF Native!NoSync, Syncing, SyncSteps
<1>3. Native!NoSync.step = "idle" /\ Native!NoSync.fresh = TRUE
  BY DEF Native!NoSync
<1>4. Majors \in [Studios -> Nat]
  BY DEF Majors
<1> QED
  BY <1>1, <1>2, <1>3, <1>4 DEF Native!MSVCAssumption

LEMMA MSVCStart == Native!MSVCInit => MSVCInv
<1> SUFFICES ASSUME Native!MSVCInit PROVE MSVCInv
  OBVIOUS
<1>1. {0} \cup {Majors[s] : s \in Studios} \subseteq Nat
  BY MSVCFacts
<1>2. runtime \in [major : Nat, toolset : Toolset \cup {Unknown}]
  BY <1>1 DEF Native!MSVCInit
<1>3. level \in [Studios -> Nat] /\ \A s \in Studios : level[s] <= machine + 1
  BY DEF Native!MSVCInit
<1>4. MSVCTypes
  <2>1. sync \in Syncing /\ machine \in 0 .. MaxChanges
    BY MSVCFacts DEF Native!MSVCInit
  <2> QED
    BY <1>2, <1>3, <2>1 DEF Native!MSVCInit, MSVCTypes
<1> QED
  BY <1>4, MSVCFacts
  DEF Native!MSVCInit, MSVCInv, CaptureInv, SyncInv, Native!CaptureCurrent, Native!Recorded, Found,
      Taken

\* The instances that are there, and what would be chosen, are the machine's affair.
LEMMA BestThere == \A s \in Native!Best : s \in Studios /\ level[s] > 0
BY DEF Native!Best, Native!There

LEMMA SameChoice ==
  ASSUME Native!Host
  PROVE  /\ Native!Best' = Native!Best
         /\ \A s \in Studios : Native!ToolsetOf(s)' = Native!ToolsetOf(s)
BY DEF Native!Host, Native!Best, Native!There, Native!Before, Native!ToolsetOf

\* A step that does not touch the machine keeps the invariant if the file and the sync are right.
LEMMA SyncKeeps ==
  ASSUME MSVCInv, Native!Host, sync' \in Syncing, UNCHANGED capture,
         nested' \in BOOLEAN, nested => nested', UNCHANGED current, SyncInv'
  PROVE  MSVCInv'
<1>1. MSVCTypes'
  BY DEF MSVCInv, MSVCTypes, Native!Host
<1>2. CaptureInv'
  BY DEF MSVCInv, CaptureInv, Native!Recorded
<1>3. Native!CaptureCurrent'
  BY SameChoice DEF MSVCInv, MSVCTypes, Native!CaptureCurrent, Native!Recorded, Native!Captured,
     Native!Host
<1> QED
  BY <1>1, <1>2, <1>3 DEF MSVCInv

\* Steps that begin a sync, or move it before it writes.
LEMMA SyncMoves ==
  ASSUME MSVCInv,
         \/ \E force \in BOOLEAN, inside \in BOOLEAN : Native!BeginSync(force, inside)
         \/ \E s \in Studios : Native!Detect(s)
         \/ Native!DetectFails
  PROVE  MSVCInv'
<1> USE DEF Native!At, Native!Go
<1>1. ASSUME NEW force \in BOOLEAN, NEW inside \in BOOLEAN, Native!BeginSync(force, inside)
      PROVE  MSVCInv'
  <2>1. IF inside THEN capture.result \in Native!Environment ELSE TRUE
    BY <1>1 DEF Native!BeginSync, Native!Recorded, MSVCInv, MSVCTypes, Native!Captured
  <2>2. sync' \in Syncing
    BY <1>1, <2>1, MSVCFacts DEF Native!BeginSync, Syncing, SyncSteps
  <2>3. sync'.step = "look" /\ (~inside => sync'.inside = Void)
    BY <1>1, MSVCFacts DEF Native!BeginSync, Native!NoSync
  <2>4. nested' = (nested \/ inside) /\ current' = "no" /\ UNCHANGED capture /\ Native!Host
    BY <1>1 DEF Native!BeginSync
  <2>5. SyncInv'
    BY <2>3, <2>4 DEF SyncInv, Found, Taken
  <2>6. MSVCTypes'
    BY <2>2, <2>4 DEF MSVCInv, MSVCTypes, Native!Host
  <2>7. CaptureInv' /\ Native!CaptureCurrent'
    BY <2>4 DEF MSVCInv, MSVCTypes, CaptureInv, Native!CaptureCurrent, Native!Recorded
  <2> QED
    BY <2>5, <2>6, <2>7 DEF MSVCInv
<1>2. ASSUME NEW s \in Studios, Native!Detect(s)
      PROVE  MSVCInv'
  <2> DEFINE kept == ~sync.force /\ Native!Reusable(s)
  <2>1. sync \in Syncing /\ sync.step = "look" /\ s \in Native!Best /\ level[s] \in Nat \ {0}
    <3>1. s \in Native!Best /\ sync.step = "look"
      BY <1>2 DEF Native!Detect
    <3> QED
      BY <3>1, BestThere DEF MSVCInv, MSVCTypes
  <2>2. kept => capture \in Native!Captured /\ capture.studio = s /\ capture.listed = level[s]
                /\ Native!ToolsetOf(s) \in {Unknown, capture.result.toolset} /\ Native!Recorded
    BY DEF Native!Reusable, Native!Recorded, MSVCInv, MSVCTypes
  <2>3. Native!ToolsetOf(s) \in Toolset \cup {Unknown}
    BY DEF Native!ToolsetOf, MSVCInv, MSVCTypes
  <2>4. /\ sync' = [sync EXCEPT !.step = IF kept THEN "truncate" ELSE "capture",
                                !.studio = s, !.listed = level[s], !.toolset = Native!ToolsetOf(s),
                                !.result = IF kept THEN capture.result ELSE Void]
        /\ UNCHANGED <<capture, current, nested>> /\ Native!Host
    BY <1>2 DEF Native!Detect
  <2>5. kept => capture.result \in Native!Environment
    BY <2>2 DEF Native!Captured
  <2> HIDE DEF kept
  <2>6. /\ sync' \in Syncing /\ sync'.inside = sync.inside /\ sync'.studio = s
        /\ sync'.listed = level[s] /\ sync'.toolset = Native!ToolsetOf(s)
        /\ kept => sync'.step = "truncate" /\ sync'.result = capture.result
        /\ ~kept => sync'.step = "capture"
    <3>1. sync'.step \in SyncSteps /\ sync'.result \in Native!Environment \cup {Void}
      BY <2>1, <2>4, <2>5 DEF Syncing, SyncSteps
    <3> QED
      BY <2>1, <2>3, <2>4, <2>5 DEF Syncing, SyncSteps
  <2>7. SyncInv'
    BY <2>1, <2>2, <2>4, <2>5, <2>6, SameChoice
    DEF SyncInv, MSVCInv, CaptureInv, Found, Taken, Native!Host
  <2> QED
    BY <2>4, <2>6, <2>7, SyncKeeps DEF MSVCInv, MSVCTypes
<1>3. CASE Native!DetectFails
  <2>1. sync' \in Syncing /\ sync'.step = "remove" /\ sync'.inside = sync.inside /\ sync.step # "idle"
    BY <1>3 DEF Native!DetectFails, MSVCInv, MSVCTypes, Syncing, SyncSteps
  <2>2. SyncInv'
    BY <1>3, <2>1 DEF SyncInv, MSVCInv, Found, Taken, Native!DetectFails
  <2> QED
    BY <1>3, <2>1, <2>2, SyncKeeps DEF Native!DetectFails, MSVCInv, MSVCTypes
<1> QED
  BY <1>1, <1>2, <1>3

\* What vcvarsall gives is of the instance and toolset that were found.
LEMMA CaptureKeeps ==
  ASSUME MSVCInv, Native!Capture
  PROVE  MSVCInv'
<1>1. /\ sync \in Syncing /\ sync.step = "capture" /\ sync.studio \in Studios /\ sync.listed > 0
      /\ level[sync.studio] \in Nat /\ toolsets[sync.studio] \subseteq Toolset
  BY DEF Native!Capture, Native!At, MSVCInv, MSVCTypes, SyncInv, Found
<1>2. PICK t \in Toolset, had \in BOOLEAN :
        LET gives == [studio |-> sync.studio, level |-> level[sync.studio], toolset |-> t,
                      whole |-> sync.inside = Void, steady |-> sync.fresh]
        IN  /\ sync.toolset # Unknown => t = sync.toolset
            /\ sync' = [sync EXCEPT !.step = IF had THEN "remove" ELSE "truncate", !.result = gives]
  BY <1>1 DEF Native!Capture
<1> DEFINE gives == [studio |-> sync.studio, level |-> level[sync.studio], toolset |-> t,
                     whole |-> sync.inside = Void, steady |-> sync.fresh]
<1>3. gives \in Native!Environment
  BY <1>1 DEF Native!Environment, Syncing
<1>4. /\ gives.studio = sync.studio /\ gives.level = level[sync.studio] /\ gives.toolset = t
      /\ gives.whole = (sync.inside = Void) /\ gives.steady = sync.fresh
  OBVIOUS
<1>5. /\ sync.toolset # Unknown => t = sync.toolset
      /\ sync' = [sync EXCEPT !.step = IF had THEN "remove" ELSE "truncate", !.result = gives]
  BY <1>2
<1> HIDE DEF gives
<1>6. /\ sync' \in Syncing /\ sync'.step \in {"truncate", "remove"} /\ sync'.result = gives
      /\ sync'.studio = sync.studio /\ sync'.listed = sync.listed /\ sync'.inside = sync.inside
      /\ sync'.fresh = sync.fresh /\ sync'.toolset = sync.toolset
  BY <1>1, <1>3, <1>5 DEF Syncing, SyncSteps
<1>7. Native!Host /\ UNCHANGED <<capture, current, nested>>
  BY DEF Native!Capture
<1>8. SyncInv'
  BY <1>1, <1>3, <1>4, <1>5, <1>6, <1>7, SameChoice
  DEF SyncInv, MSVCInv, Found, Taken, Native!Host
<1> QED
  BY <1>6, <1>7, <1>8, SyncKeeps DEF MSVCInv, MSVCTypes

\* The steps that end a sync, and those that write the file.
LEMMA SyncEnds ==
  ASSUME MSVCInv,
         Native!Truncate \/ Native!Write \/ Native!RemoveCapture \/ Native!Abort
  PROVE  MSVCInv'
<1> USE DEF Native!At, Native!Go, Native!End
<1>1. CASE Native!Truncate
  <2>1. /\ sync.step = "truncate" /\ sync' = [sync EXCEPT !.step = "write"] /\ capture' = Torn
        /\ UNCHANGED <<current, nested>> /\ Native!Host
    BY <1>1 DEF Native!Truncate
  <2>2. /\ sync' \in Syncing /\ sync'.step = "write" /\ sync'.result = sync.result
        /\ sync'.studio = sync.studio /\ sync'.listed = sync.listed /\ sync'.inside = sync.inside
        /\ sync'.fresh = sync.fresh /\ sync'.toolset = sync.toolset
    BY <2>1 DEF MSVCInv, MSVCTypes, Syncing, SyncSteps
  <2>3. SyncInv'
    BY <2>1, <2>2, SameChoice DEF SyncInv, MSVCInv, Found, Taken, Native!Host
  <2>4. MSVCTypes' /\ CaptureInv'
    BY <2>1, <2>2 DEF MSVCInv, MSVCTypes, CaptureInv, Native!Recorded, Native!Host
  <2>5. Native!CaptureCurrent'
    BY <2>1 DEF Native!CaptureCurrent, Native!Recorded, MSVCInv, SyncInv
  <2> QED
    BY <2>3, <2>4, <2>5 DEF MSVCInv
<1>2. CASE Native!Write
  <2>1. /\ sync.step = "write" /\ sync' = Native!NoSync
        /\ current' = IF sync.fresh THEN "captured" ELSE "no"
        /\ capture' = [studio |-> sync.studio, listed |-> sync.listed, result |-> sync.result]
        /\ UNCHANGED nested /\ Native!Host
    BY <1>2 DEF Native!Write
  <2>2. /\ sync \in Syncing /\ sync.result \in Native!Environment /\ sync.studio \in Studios
        /\ sync.listed \in Nat
    BY <2>1 DEF MSVCInv, MSVCTypes, SyncInv, Taken, Found, Syncing
  <2>3. /\ capture' \in Native!Captured /\ capture'.studio = sync.studio
        /\ capture'.listed = sync.listed /\ capture'.result = sync.result
    BY <2>1, <2>2 DEF Native!Captured
  <2>4. sync' \in Syncing /\ SyncInv'
    BY <2>1, MSVCFacts DEF SyncInv, Found, Taken
  <2>5. MSVCTypes' /\ CaptureInv'
    BY <2>1, <2>3, <2>4
    DEF MSVCInv, MSVCTypes, CaptureInv, Native!Recorded, Native!Host, SyncInv, Found, Taken
  <2>6. Native!Recorded'
    BY <2>3, MSVCFacts DEF Native!Recorded
  <2>7. Native!CaptureCurrent'
    BY <2>1, <2>2, <2>3, <2>5, <2>6, SameChoice
    DEF Native!CaptureCurrent, MSVCInv, SyncInv, Found, Taken, Native!Host
  <2> QED
    BY <2>4, <2>5, <2>7 DEF MSVCInv
<1>3. CASE Native!RemoveCapture
  <2>1. /\ sync' = Native!NoSync /\ capture' = Void /\ current' \in {"warned", "no"}
        /\ UNCHANGED nested /\ Native!Host
    BY <1>3 DEF Native!RemoveCapture
  <2>2. sync' \in Syncing /\ SyncInv'
    BY <2>1, MSVCFacts DEF SyncInv, Found, Taken
  <2>3. MSVCTypes' /\ CaptureInv' /\ Native!CaptureCurrent'
    BY <2>1, <2>2
    DEF MSVCInv, MSVCTypes, CaptureInv, Native!CaptureCurrent, Native!Recorded, Native!Host
  <2> QED
    BY <2>2, <2>3 DEF MSVCInv
<1>4. CASE Native!Abort
  <2>1. /\ sync' = Native!NoSync /\ current' = "no" /\ UNCHANGED <<capture, nested>> /\ Native!Host
    BY <1>4 DEF Native!Abort
  <2>2. sync' \in Syncing /\ SyncInv'
    BY <2>1, MSVCFacts DEF SyncInv, Found, Taken
  <2>3. MSVCTypes' /\ CaptureInv' /\ Native!CaptureCurrent'
    BY <2>1, <2>2
    DEF MSVCInv, MSVCTypes, CaptureInv, Native!CaptureCurrent, Native!Recorded, Native!Host
  <2> QED
    BY <2>2, <2>3 DEF MSVCInv
<1> QED
  BY <1>1, <1>2, <1>3, <1>4

\* After a change of the machine nothing that was found is claimed any more.
LEMMA MachineChanges == MSVCInv /\ Native!ChangeMachine => MSVCInv'
<1> SUFFICES ASSUME MSVCInv, Native!ChangeMachine
             PROVE  MSVCInv'
  OBVIOUS
<1>1. /\ machine < MaxChanges /\ machine' = machine + 1 /\ current' = "no"
      /\ sync' = [sync EXCEPT !.fresh = (sync.step = "idle")] /\ UNCHANGED <<capture, nested>>
  BY DEF Native!ChangeMachine, Native!At
<1>2. /\ level' \in [Studios -> Nat] /\ \A s \in Studios : level'[s] <= machine' + 1
      /\ toolsets' \in [Studios -> (SUBSET Toolset) \ {{}}]
      /\ runtime' \in [major : Nat, toolset : Toolset \cup {Unknown}]
  <2>1. level \in [Studios -> Nat] /\ (\A s \in Studios : level[s] <= machine + 1) /\ machine \in Nat
    BY DEF MSVCInv, MSVCTypes
  <2>2. CASE UNCHANGED <<level, toolsets>>
    <3>1. runtime' \in [major : Nat, toolset : Toolset \cup {Unknown}]
      BY <2>2, MSVCFacts DEF Native!ChangeMachine, MSVCInv, MSVCTypes
    <3> QED
      BY <1>1, <2>1, <2>2, <3>1 DEF MSVCInv, MSVCTypes
  <2>3. CASE \E s \in Studios, up \in BOOLEAN, ts \in (SUBSET Toolset) \ {{}} :
               /\ level' = [level EXCEPT ![s] = IF up THEN @ + 1 ELSE 0]
               /\ toolsets' = [toolsets EXCEPT ![s] = ts]
               /\ UNCHANGED runtime
    BY <1>1, <2>1, <2>3 DEF MSVCInv, MSVCTypes
  <2> QED
    BY <2>2, <2>3 DEF Native!ChangeMachine
<1>3. /\ sync' \in Syncing /\ sync'.step = sync.step /\ (sync'.fresh <=> sync.step = "idle")
      /\ sync'.result = sync.result /\ sync'.inside = sync.inside /\ sync'.studio = sync.studio
      /\ sync'.listed = sync.listed
  BY <1>1 DEF MSVCInv, MSVCTypes, Syncing
<1>4. sync.step = "idle" => sync' = Native!NoSync
  <2>1. ASSUME sync = Native!NoSync, sync.step = "idle"
        PROVE  sync' = Native!NoSync
    BY <1>1, <2>1 DEF Native!NoSync
  <2> QED
    BY <2>1 DEF MSVCInv, SyncInv
<1>5. MSVCTypes'
  BY <1>1, <1>2, <1>3, MSVCFacts DEF MSVCInv, MSVCTypes
<1>6. SyncInv'
  BY <1>1, <1>3, <1>4 DEF MSVCInv, SyncInv, Found, Taken
<1>7. CaptureInv' /\ Native!CaptureCurrent'
  BY <1>1 DEF MSVCInv, CaptureInv, Native!CaptureCurrent, Native!Recorded
<1> QED
  BY <1>5, <1>6, <1>7 DEF MSVCInv

LEMMA MSVCStep == MSVCInv /\ [Native!MSVCNext]_msvcVars => MSVCInv'
<1>1. ASSUME MSVCInv, UNCHANGED msvcVars
      PROVE  MSVCInv'
  <2>1. UNCHANGED <<capture, current, nested, sync>> /\ Native!Host
    BY <1>1 DEF msvcVars, Native!Host
  <2>2. SyncInv'
    BY <1>1, <2>1, SameChoice DEF MSVCInv, SyncInv, Native!Host
  <2> QED
    BY <1>1, <2>1, <2>2, SyncKeeps DEF MSVCInv, MSVCTypes
<1>2. MSVCInv /\ Native!MSVCNext => MSVCInv'
  BY SyncMoves, CaptureKeeps, SyncEnds, MachineChanges DEF Native!MSVCNext
<1> QED
  BY <1>1, <1>2

-----------------------------------------------------------------------------
(* The PHP runtime.  A command that has written php.ini has what its config renders, *)
(* and its last steps provide what PIE has to.                                      *)

PHPSteps == {"idle", "run", "configure", "save", "sync", "openssl", "fill openssl", "bundle",
             "fill bundle", "decide", "write", "fill", "extensions", "provide", "done"}
Lines == [Module -> Runtime!Line]
PHPAct ==
  [step : PHPSteps, job : {"none", "install", "add", "drop"}, module : ByPIE \cup {"none"},
   wants : Runtime!Wants, todo : SUBSET ByPIE]

PHPTypes ==
  /\ flavor \in {"built", "windows", "frankenphp"}
  /\ builtin \subseteq Module \ ByPIE /\ suggested \subseteq Module \ ByPIE
  /\ wants \in Runtime!Wants
  /\ ini \in [at : {"absent", "torn", "written"}, lines : Lines, other : BOOLEAN]
  /\ library \subseteq ByPIE
  /\ ssl \in [openssl : {"absent", "torn", "whole"}, bundle : {"absent", "torn", "whole"}]
  /\ act \in PHPAct
  /\ tweaks \in 0 .. MaxTweaks /\ cuts \in 0 .. MaxCuts

\* php.ini is what the config of the command renders.
IniFollows ==
  ini.at = "written" /\ ini.other = act.wants.other /\ ini.lines = Runtime!Rendered(act.wants)

ActInv ==
  /\ act.step = "idle" \/ act.job # "none"
  /\ act.step \in {"extensions", "provide"} => act.job = "install"
  /\ act.step \in {"run", "configure", "save", "sync"} => act.job \in {"add", "drop"}
  /\ act.job \in {"add", "drop"} => act.module \in ByPIE
  /\ act.job = "add" /\ act.step \notin {"idle", "run"} => act.module \in library
  /\ act.step \in {"extensions", "provide", "done"} =>
       (act.job = "install" /\ Runtime!IsZero(act.wants)) \/ IniFollows
  /\ act.step \in {"provide", "done"} /\ act.job = "install" =>
       \A m \in act.wants.packages :
         act.wants.switch[m] # "off" => Runtime!Loaded(m) \/ m \in act.todo
  /\ act.step = "done" /\ act.job = "install" => act.todo = {}

PHPInv == PHPTypes /\ ActInv

LEMMA PHPFacts ==
  /\ ByPIE \subseteq Module /\ Zend \subseteq Module /\ MaxTweaks \in Nat /\ MaxCuts \in Nat
  /\ Runtime!NoWants \in Runtime!Wants
  /\ Runtime!Blank \in Lines
  /\ \A w \in Runtime!Wants : /\ w.switch \in [Module -> {"unset", "on", "off"}]
                              /\ w.packages \subseteq ByPIE /\ w.other \in BOOLEAN
<1>1. Runtime!PHPAssumption
  BY PartsAssumption
<1>2. Runtime!NoWants \in Runtime!Wants
  BY DEF Runtime!NoWants, Runtime!Wants
<1>3. Runtime!Blank \in Lines
  BY DEF Runtime!Blank, Lines, Runtime!Line
<1>4. \A w \in Runtime!Wants : /\ w.switch \in [Module -> {"unset", "on", "off"}]
                               /\ w.packages \subseteq ByPIE /\ w.other \in BOOLEAN
  BY DEF Runtime!Wants
<1> QED
  BY <1>1, <1>2, <1>3, <1>4 DEF Runtime!PHPAssumption

\* What is rendered: a directive for what is on and not compiled in.
LEMMA Directives ==
  \A w \in Runtime!Wants :
    /\ Runtime!Rendered(w) \in Lines
    /\ \A m \in Module :
         /\ Runtime!Effective(w)[m] \in {"unset", "on", "off"}
         /\ m \notin builtin /\ Runtime!Effective(w)[m] = "on" =>
              Runtime!Rendered(w)[m] = (IF m \in Zend THEN "zend_extension" ELSE "extension")
         /\ m \in builtin \/ Runtime!Effective(w)[m] # "on" =>
              Runtime!Rendered(w)[m] \in {"none", "off"}
<1> SUFFICES ASSUME NEW w \in Runtime!Wants
             PROVE  /\ Runtime!Rendered(w) \in Lines
                    /\ \A m \in Module :
                         /\ Runtime!Effective(w)[m] \in {"unset", "on", "off"}
                         /\ m \notin builtin /\ Runtime!Effective(w)[m] = "on" =>
                              Runtime!Rendered(w)[m] =
                                (IF m \in Zend THEN "zend_extension" ELSE "extension")
                         /\ m \in builtin \/ Runtime!Effective(w)[m] # "on" =>
                              Runtime!Rendered(w)[m] \in {"none", "off"}
  OBVIOUS
<1>1. \A m \in Module : Runtime!Effective(w)[m] \in {"unset", "on", "off"}
  BY PHPFacts DEF Runtime!Effective
<1>2. \A m \in Module :
        Runtime!Rendered(w)[m] =
          (IF m \in builtin \/ Runtime!Effective(w)[m] = "unset" THEN "none"
           ELSE IF Runtime!Effective(w)[m] = "off" THEN "off"
           ELSE IF m \in Zend THEN "zend_extension" ELSE "extension")
  BY DEF Runtime!Rendered
<1>3. Runtime!Rendered(w) = [m \in Module |-> Runtime!Rendered(w)[m]]
  BY DEF Runtime!Rendered
<1>4. Runtime!Rendered(w) \in Lines
  <2>1. \A m \in Module : Runtime!Rendered(w)[m] \in Runtime!Line
    BY <1>1, <1>2 DEF Runtime!Line
  <2> QED
    BY <1>3, <2>1 DEF Lines
<1> QED
  BY <1>1, <1>2, <1>4

LEMMA PHPStart == Runtime!PHPInit => PHPInv
<1> SUFFICES ASSUME Runtime!PHPInit PROVE PHPInv
  OBVIOUS
<1>1. /\ act \in PHPAct /\ act.step = "idle" /\ act.todo = {}
      /\ ini \in [at : {"absent", "torn", "written"}, lines : Lines, other : BOOLEAN]
  BY PHPFacts
  DEF Runtime!PHPInit, Runtime!Resting, Runtime!Act, Runtime!None, PHPAct, PHPSteps, Runtime!Ini
<1>2. PHPTypes
  <2>1. ssl \in [openssl : {"absent", "torn", "whole"}, bundle : {"absent", "torn", "whole"}]
    BY DEF Runtime!PHPInit
  <2>2. /\ flavor \in {"built", "windows", "frankenphp"}
        /\ builtin \subseteq Module \ ByPIE /\ suggested \subseteq Module \ ByPIE
        /\ wants \in Runtime!Wants /\ library \subseteq ByPIE
    BY PHPFacts DEF Runtime!PHPInit
  <2>3. tweaks \in 0 .. MaxTweaks /\ cuts \in 0 .. MaxCuts
    BY PHPFacts DEF Runtime!PHPInit
  <2> QED
    BY <1>1, <2>1, <2>2, <2>3 DEF PHPTypes
<1>3. act.job = "none"
  BY DEF Runtime!PHPInit, Runtime!Resting, Runtime!Act, Runtime!None
<1> QED
  BY <1>1, <1>2, <1>3 DEF PHPInv, ActInv

\* A step of the command, as far as it concerns all of them.
LEMMA ActFrame ==
  ASSUME PHPTypes, Runtime!Still, wants' \in Runtime!Wants,
         ini' \in [at : {"absent", "torn", "written"}, lines : Lines, other : BOOLEAN],
         library' \subseteq ByPIE, act' \in PHPAct,
         ssl' \in [openssl : {"absent", "torn", "whole"}, bundle : {"absent", "torn", "whole"}]
  PROVE  PHPTypes'
BY DEF PHPTypes, Runtime!Still

\* What a config means does not change.
LEMMA SameMeaning ==
  ASSUME UNCHANGED <<flavor, builtin, suggested>>, UNCHANGED act.wants
  PROVE  /\ Runtime!Rendered(act.wants)' = Runtime!Rendered(act.wants)
         /\ Runtime!IsZero(act.wants)' <=> Runtime!IsZero(act.wants)
         /\ UNCHANGED ini => (IniFollows' <=> IniFollows)
BY DEF Runtime!Rendered, Runtime!IsZero, Runtime!Effective, IniFollows

\* What is known of the command depends on nothing but the command and the files.
LEMMA ActUnmoved ==
  ASSUME ActInv, UNCHANGED <<flavor, builtin, suggested, ini, library, act>>
  PROVE  ActInv'
<1>1. \A m : Runtime!Loaded(m)' <=> Runtime!Loaded(m)
  BY DEF Runtime!Loaded
<1>2. /\ Runtime!IsZero(act.wants)' <=> Runtime!IsZero(act.wants)
      /\ IniFollows' <=> IniFollows
  BY SameMeaning
<1> QED
  BY <1>1, <1>2 DEF ActInv

\* The commands begin, and polka ext runs PIE and writes the config.
LEMMA PHPBegins ==
  ASSUME PHPInv,
         \/ Runtime!Install
         \/ \E m \in ByPIE : Runtime!ExtInstall(m) \/ Runtime!ExtRemove(m)
  PROVE  PHPInv'
<1>1. UNCHANGED <<wants, ini, library, ssl>> /\ Runtime!Still
  BY DEF Runtime!Install, Runtime!ExtInstall, Runtime!ExtRemove
<1>2. \/ act' = Runtime!Act("openssl", "install", "none", wants, {})
      \/ \E m \in ByPIE, job \in {"add", "drop"} :
            act' = Runtime!Act("run", job, m, Runtime!NoWants, {})
  BY DEF Runtime!Install, Runtime!ExtInstall, Runtime!ExtRemove, Runtime!None
<1>3. /\ act' \in PHPAct /\ act'.step \in {"openssl", "run"}
      /\ act'.job # "none" /\ (act'.step = "run" => act'.job \in {"add", "drop"})
      /\ act'.step = "openssl" => act'.job = "install"
      /\ act'.job \in {"add", "drop"} => act'.module \in ByPIE /\ act'.step = "run"
  <2>1. CASE act' = Runtime!Act("openssl", "install", "none", wants, {})
    <3>1. wants \in Runtime!Wants
      BY DEF PHPInv, PHPTypes
    <3> QED
      BY <2>1, <3>1 DEF Runtime!Act, PHPAct, PHPSteps
  <2>2. CASE \E m \in ByPIE, job \in {"add", "drop"} :
               act' = Runtime!Act("run", job, m, Runtime!NoWants, {})
    BY <2>2, PHPFacts DEF Runtime!Act, PHPAct, PHPSteps
  <2> QED
    BY <1>2, <2>1, <2>2
<1> QED
  BY <1>1, <1>3, ActFrame DEF PHPInv, PHPTypes, ActInv

LEMMA ExtSteps ==
  ASSUME PHPInv,
         \/ Runtime!RunPIE
         \/ Runtime!ConfigureValue
         \/ Runtime!SaveConfig
         \/ Runtime!SyncPHPRuntimeConfig
  PROVE  PHPInv'
<1>0. act \in PHPAct /\ wants \in Runtime!Wants /\ library \subseteq ByPIE
  BY DEF PHPInv, PHPTypes
<1>1. CASE Runtime!RunPIE
  <2>1. /\ act.job \in {"add", "drop"} /\ act.step = "run"
        /\ act' \in PHPAct /\ act'.step = "configure" /\ act'.job = act.job
        /\ act'.module = act.module
    BY <1>0, <1>1 DEF Runtime!RunPIE, Runtime!To, PHPAct, PHPSteps, PHPInv, ActInv
  <2> QED
    BY <1>0, <1>1, <2>1, ActFrame DEF Runtime!RunPIE, PHPInv, PHPTypes, ActInv
<1>2. CASE Runtime!ConfigureValue
  <2>1. act.job \in {"add", "drop"} /\ act.module \in ByPIE /\ act.step = "configure"
    BY <1>0, <1>2 DEF Runtime!ConfigureValue, PHPInv, ActInv
  <2> DEFINE w == [wants EXCEPT !.packages = IF act.job = "add" THEN @ \cup {act.module}
                                             ELSE @ \ {act.module}]
  <2>2. w \in Runtime!Wants
    BY <1>0, <2>1 DEF Runtime!Wants
  <2>3. act' = [act EXCEPT !.step = "save", !.wants = w]
    BY <1>2 DEF Runtime!ConfigureValue
  <2> HIDE DEF w
  <2>4. /\ act' \in PHPAct /\ act'.step = "save" /\ act'.job = act.job
        /\ act'.module = act.module
    BY <1>0, <2>2, <2>3 DEF PHPAct, PHPSteps
  <2> QED
    BY <1>0, <1>2, <2>1, <2>4, ActFrame DEF Runtime!ConfigureValue, PHPInv, PHPTypes, ActInv
<1>3. CASE Runtime!SaveConfig
  <2>1. /\ act.step = "save" /\ act' \in PHPAct /\ act'.step = "sync" /\ act'.job = act.job
        /\ act'.module = act.module /\ act.wants \in Runtime!Wants
    BY <1>0, <1>3 DEF Runtime!SaveConfig, Runtime!To, PHPAct, PHPSteps
  <2> QED
    BY <1>0, <1>3, <2>1, ActFrame DEF Runtime!SaveConfig, PHPInv, PHPTypes, ActInv
<1>4. CASE Runtime!SyncPHPRuntimeConfig
  <2>1. /\ act.step = "sync" /\ act' \in PHPAct /\ act'.step = "openssl" /\ act'.job = act.job
        /\ act'.module = act.module
    BY <1>0, <1>4 DEF Runtime!SyncPHPRuntimeConfig, PHPAct, PHPSteps
  <2> QED
    BY <1>0, <1>4, <2>1, ActFrame DEF Runtime!SyncPHPRuntimeConfig, PHPInv, PHPTypes, ActInv
<1> QED
  BY <1>1, <1>2, <1>3, <1>4

\* The files of OpenSSL, and the decision about php.ini.
LEMMA EnsureKeeps ==
  ASSUME PHPInv,
         NEW item \in {"openssl", "bundle"}, NEW from \in {"openssl", "bundle"},
         NEW filling \in {"fill openssl", "fill bundle"}, NEW to \in {"bundle", "decide"},
         Runtime!Ensure(item, from, filling, to)
  PROVE  PHPInv'
<1>0. act \in PHPAct
  BY DEF PHPInv, PHPTypes
<1>1. /\ UNCHANGED <<wants, ini, library>> /\ Runtime!Still
      /\ act.step \in {from, filling}
      /\ \E step \in {filling, to} : act' = [act EXCEPT !.step = step]
      /\ \E how \in {"torn", "whole"} : ssl' \in {ssl, [ssl EXCEPT ![item] = how]}
  BY DEF Runtime!Ensure, Runtime!To
<1>2. /\ act' \in PHPAct /\ act'.step \in {filling, to} /\ act'.job = act.job
      /\ act'.module = act.module
  BY <1>0, <1>1 DEF PHPAct, PHPSteps
<1>3. ssl' \in [openssl : {"absent", "torn", "whole"}, bundle : {"absent", "torn", "whole"}]
  BY <1>1 DEF PHPInv, PHPTypes
<1> QED
  BY <1>0, <1>1, <1>2, <1>3, ActFrame DEF PHPInv, PHPTypes, ActInv

LEMMA InstallSteps ==
  ASSUME PHPInv,
         \/ Runtime!EnsureOpenSSLConfig
         \/ Runtime!EnsureCABundle
         \/ Runtime!Decide
         \/ Runtime!Truncate
         \/ Runtime!WriteIni
  PROVE  PHPInv'
<1>0. act \in PHPAct
  BY DEF PHPInv, PHPTypes
<1>1. CASE Runtime!EnsureOpenSSLConfig
  BY <1>1, EnsureKeeps DEF Runtime!EnsureOpenSSLConfig
<1>2. CASE Runtime!EnsureCABundle
  <2>1. CASE flavor = "windows"
    BY <1>2, <2>1, EnsureKeeps DEF Runtime!EnsureCABundle
  <2>2. CASE flavor # "windows"
    <3>1. /\ act.step = "bundle" /\ act' \in PHPAct /\ act'.step = "decide"
          /\ act'.job = act.job /\ act'.module = act.module
      BY <1>0, <1>2, <2>2 DEF Runtime!EnsureCABundle, Runtime!To, PHPAct, PHPSteps
    <3> QED
      BY <1>2, <2>2, <3>1, ActFrame DEF Runtime!EnsureCABundle, PHPInv, PHPTypes, ActInv
  <2> QED
    BY <2>1, <2>2
<1>3. CASE Runtime!Decide
  <2>1. /\ act.step = "decide" /\ act' \in PHPAct
        /\ act'.job = act.job /\ act'.module = act.module /\ act'.wants = act.wants
        /\ \/ act'.step = "extensions" /\ Runtime!IsZero(act.wants) /\ act.job = "install"
           \/ act'.step = "write"
    BY <1>0, <1>3 DEF Runtime!Decide, Runtime!To, Runtime!Force, PHPAct, PHPSteps
  <2>2. UNCHANGED <<flavor, builtin, suggested, wants, ini, library, ssl>> /\ Runtime!Still
    BY <1>3 DEF Runtime!Decide, Runtime!Still
  <2>3. PHPTypes'
    BY <2>1, <2>2, ActFrame DEF PHPInv, PHPTypes
  <2> QED
    BY <2>1, <2>2, <2>3, SameMeaning DEF PHPInv, ActInv
<1>4. CASE Runtime!Truncate
  <2>1. /\ act.step = "write" /\ act' \in PHPAct /\ act'.step = "fill"
        /\ act'.job = act.job /\ act'.module = act.module
    BY <1>0, <1>4 DEF Runtime!Truncate, Runtime!To, PHPAct, PHPSteps
  <2>2. ini' \in [at : {"absent", "torn", "written"}, lines : Lines, other : BOOLEAN]
    BY <1>4, PHPFacts DEF Runtime!Truncate, Runtime!Ini
  <2> QED
    BY <1>4, <2>1, <2>2, ActFrame DEF Runtime!Truncate, PHPInv, PHPTypes, ActInv
<1>5. CASE Runtime!WriteIni
  <2>1. /\ act.step = "fill" /\ act' \in PHPAct /\ act'.wants = act.wants
        /\ act'.step = (IF act.job = "install" THEN "extensions" ELSE "done")
        /\ act'.job = act.job /\ act'.module = act.module /\ act'.todo = act.todo
        /\ act.wants \in Runtime!Wants
    BY <1>0, <1>5 DEF Runtime!WriteIni, Runtime!To, PHPAct, PHPSteps
  <2>2. /\ ini' = Runtime!Ini("written", Runtime!Rendered(act.wants), act.wants.other)
        /\ UNCHANGED <<wants, library, ssl>> /\ Runtime!Still
    BY <1>5 DEF Runtime!WriteIni
  <2>3. ini' \in [at : {"absent", "torn", "written"}, lines : Lines, other : BOOLEAN]
    BY <2>1, <2>2, PHPFacts, Directives DEF Runtime!Ini
  <2>4. IniFollows'
    <3>1. Runtime!Rendered(act.wants)' = Runtime!Rendered(act.wants)
      BY <2>1, <2>2, SameMeaning DEF Runtime!Still
    <3> QED
      BY <2>1, <2>2, <3>1 DEF IniFollows, Runtime!Ini
  <2>5. PHPTypes'
    BY <2>1, <2>2, <2>3, ActFrame DEF PHPInv, PHPTypes
  <2> QED
    BY <2>1, <2>2, <2>4, <2>5 DEF PHPInv, ActInv
<1> QED
  BY <1>1, <1>2, <1>3, <1>4, <1>5

\* PIE places what PHP does not load; an extension that has its library is loaded.
LEMMA PIESteps ==
  ASSUME PHPInv, Runtime!ListMissing \/ Runtime!Provide
  PROVE  PHPInv'
<1>0. act \in PHPAct /\ act.wants \in Runtime!Wants /\ act.wants.packages \subseteq ByPIE
  BY PHPFacts DEF PHPInv, PHPTypes, PHPAct
<1>1. UNCHANGED <<wants, ini, ssl>> /\ Runtime!Still
  BY DEF Runtime!ListMissing, Runtime!Provide
<1>2. CASE Runtime!ListMissing
  <2>1. /\ act.step = "extensions" /\ act' \in PHPAct /\ act'.step = "provide"
        /\ act'.job = act.job /\ act'.module = act.module /\ act'.wants = act.wants
        /\ act'.todo = {m \in act.wants.packages :
                          ~Runtime!Loaded(m) /\ act.wants.switch[m] # "off"}
        /\ UNCHANGED library
    BY <1>0, <1>2 DEF Runtime!ListMissing, PHPAct, PHPSteps
  <2>2. PHPTypes'
    BY <1>1, <2>1, ActFrame DEF PHPInv, PHPTypes
  <2>3. \A m : Runtime!Loaded(m)' <=> Runtime!Loaded(m)
    BY <1>1, <2>1 DEF Runtime!Loaded, Runtime!Still
  <2> QED
    BY <1>1, <2>1, <2>2, <2>3, SameMeaning DEF PHPInv, ActInv, Runtime!Still
<1>3. CASE Runtime!Provide
  <2>1. PICK done \in BOOLEAN, m \in ByPIE \cup {"none"} :
          /\ act.step = "provide" /\ act' \in PHPAct
          /\ act'.job = act.job /\ act'.module = act.module /\ act'.wants = act.wants
          /\ done => act.todo = {} /\ act'.todo = {} /\ act'.step = "done" /\ UNCHANGED library
          /\ ~done => /\ m \in act.todo /\ act'.todo = act.todo \ {m} /\ act'.step = "provide"
                      /\ library' = library \cup {m}
    <3>1. CASE act.todo = {} /\ Runtime!To("done") /\ UNCHANGED library
      <4>1. act' \in PHPAct /\ act'.job = act.job /\ act'.module = act.module
            /\ act'.wants = act.wants /\ act'.todo = {} /\ act'.step = "done"
        BY <1>0, <3>1 DEF Runtime!To, PHPAct, PHPSteps
      <4> QED
        BY <1>3, <3>1, <4>1 DEF Runtime!Provide
    <3>2. ASSUME NEW m \in act.todo, act' = [act EXCEPT !.todo = @ \ {m}],
                 library' = library \cup {m}
          PROVE  /\ act' \in PHPAct /\ act'.job = act.job /\ act'.module = act.module
                 /\ act'.wants = act.wants /\ act'.todo = act.todo \ {m}
                 /\ act'.step = act.step /\ m \in ByPIE
      BY <1>0, <3>2 DEF PHPAct
    <3> QED
      BY <1>3, <3>1, <3>2 DEF Runtime!Provide
  <2>2. library' \subseteq ByPIE /\ library \subseteq library'
    BY <1>0, <2>1 DEF PHPInv, PHPTypes, PHPAct
  <2>3. PHPTypes'
    BY <1>1, <2>1, <2>2, ActFrame DEF PHPInv, PHPTypes
  <2>4. \A x \in act.wants.packages : Runtime!Loaded(x) => Runtime!Loaded(x)'
    BY <1>1, <2>2 DEF Runtime!Loaded, Runtime!Still
  <2>5. \/ act.job = "install" /\ Runtime!IsZero(act.wants)
        \/ IniFollows
    BY <2>1 DEF PHPInv, ActInv
  <2>6. \/ act'.job = "install" /\ Runtime!IsZero(act.wants)'
        \/ IniFollows'
    BY <1>1, <2>1, <2>5, SameMeaning DEF Runtime!Still
  <2>7. \A x \in act'.wants.packages :
          act'.wants.switch[x] # "off" => Runtime!Loaded(x)' \/ x \in act'.todo
    <3>1. \A x \in act.wants.packages :
            act.wants.switch[x] # "off" => Runtime!Loaded(x) \/ x \in act.todo
      BY <2>1, <2>5 DEF PHPInv, ActInv
    <3>2. CASE done
      BY <2>1, <2>4, <3>1, <3>2
    <3>3. CASE ~done
      <4>1. ASSUME m \in act.wants.packages, act.wants.switch[m] # "off"
            PROVE  Runtime!Loaded(m)'
        <5>1. m \in Module /\ m \notin builtin /\ m \in ByPIE
          BY <1>0, <4>1, PHPFacts DEF PHPInv, PHPTypes
        <5>2. Runtime!Effective(act.wants)[m] = "on"
          BY <1>0, <4>1, <5>1, PHPFacts DEF Runtime!Effective
        <5>3. ~Runtime!IsZero(act.wants)
          BY <5>1, <5>2 DEF Runtime!IsZero
        <5>4. /\ ini.at = "written"
              /\ ini.lines[m] = (IF m \in Zend THEN "zend_extension" ELSE "extension")
          BY <1>0, <2>5, <5>1, <5>2, <5>3, Directives DEF IniFollows
        <5>5. m \in library'
          BY <2>1, <3>3
        <5> QED
          BY <1>1, <5>4, <5>5 DEF Runtime!Loaded
      <4> QED
        BY <2>1, <2>4, <3>1, <3>3, <4>1
    <3> QED
      BY <3>2, <3>3
  <2>8. act'.job = "add" => act'.module \in library'
    BY <2>1, <2>2 DEF PHPInv, ActInv
  <2>9. act'.step = "done" => act'.todo = {}
    BY <2>1
  <2> QED
    BY <2>1, <2>3, <2>6, <2>7, <2>8, <2>9 DEF PHPInv, ActInv
<1> QED
  BY <1>2, <1>3

LEMMA PHPOutside ==
  ASSUME PHPInv, Runtime!Abort \/ Runtime!EditWants
  PROVE  PHPInv'
<1>1. CASE Runtime!Abort
  <2>1. /\ act' = Runtime!Resting /\ cuts' \in 0 .. MaxCuts
        /\ UNCHANGED <<flavor, builtin, suggested, wants, ini, library, ssl, tweaks>>
    BY <1>1, PHPFacts DEF Runtime!Abort, PHPInv, PHPTypes
  <2>2. act' \in PHPAct /\ act'.step = "idle" /\ act'.job = "none"
    BY <2>1, PHPFacts DEF Runtime!Resting, Runtime!Act, Runtime!None, PHPAct, PHPSteps
  <2> QED
    BY <2>1, <2>2 DEF PHPInv, PHPTypes, ActInv
<1>2. CASE Runtime!EditWants
  <2>1. /\ tweaks' \in 0 .. MaxTweaks
        /\ UNCHANGED <<flavor, builtin, suggested, ini, library, ssl, act, cuts>>
    BY <1>2, PHPFacts DEF Runtime!EditWants, PHPInv, PHPTypes
  <2>2. wants' \in Runtime!Wants
    <3>1. wants \in Runtime!Wants
      BY DEF PHPInv, PHPTypes
    <3>2. ASSUME NEW m \in Module, NEW s \in {"unset", "on", "off"},
                 wants' = [wants EXCEPT !.switch[m] = s]
          PROVE  wants' \in Runtime!Wants
      <4>1. [wants.switch EXCEPT ![m] = s] \in [Module -> {"unset", "on", "off"}]
        BY <3>1, PHPFacts
      <4>2. wants' = [wants EXCEPT !.switch = [wants.switch EXCEPT ![m] = s]]
        BY <3>1, <3>2 DEF Runtime!Wants
      <4> QED
        BY <3>1, <4>1, <4>2 DEF Runtime!Wants
    <3>3. ASSUME NEW m \in ByPIE, NEW add \in BOOLEAN,
                 wants' = [wants EXCEPT !.packages = IF add THEN @ \cup {m} ELSE @ \ {m}]
          PROVE  wants' \in Runtime!Wants
      BY <3>1, <3>3 DEF Runtime!Wants
    <3>4. ASSUME wants' = [wants EXCEPT !.other = ~@]
          PROVE  wants' \in Runtime!Wants
      BY <3>1, <3>4 DEF Runtime!Wants
    <3> QED
      BY <1>2, <3>2, <3>3, <3>4 DEF Runtime!EditWants
  <2>3. PHPTypes'
    BY <2>1, <2>2 DEF PHPInv, PHPTypes
  <2> QED
    BY <2>1, <2>3, ActUnmoved DEF PHPInv
<1> QED
  BY <1>1, <1>2

LEMMA PHPStep == PHPInv /\ [Runtime!PHPNext]_phpVars => PHPInv'
<1>1. ASSUME PHPInv, UNCHANGED phpVars
      PROVE  PHPInv'
  <2>1. UNCHANGED <<flavor, builtin, suggested, ini, library, act>>
    BY <1>1 DEF phpVars
  <2> QED
    BY <1>1, <2>1, ActUnmoved DEF PHPInv, PHPTypes, phpVars
<1>2. ASSUME PHPInv, Runtime!PHPNext
      PROVE  PHPInv'
  BY <1>2, PHPBegins, ExtSteps, InstallSteps, PIESteps, PHPOutside DEF Runtime!PHPNext
<1> QED
  BY <1>1, <1>2

\* A command that has ended well: what is on is loaded, and what is loaded is on.
LEMMA PHPFollows == PHPInv => Runtime!InstalledPHPFollows
<1> SUFFICES ASSUME PHPInv, act.step = "done",
                    ~(act.job = "install" /\ Runtime!IsZero(act.wants))
             PROVE  /\ ini.at = "written" /\ ini.other = act.wants.other
                    /\ \A m \in Module :
                         /\ Runtime!Loaded(m) =>
                              Runtime!Effective(act.wants)[m] = "on" \/ m \in builtin
                         /\ /\ Runtime!Effective(act.wants)[m] = "on"
                            /\ m \in ByPIE =>
                                 /\ m \in act.wants.packages
                                 /\ act.job = "install" \/ (act.job = "add" /\ m = act.module)
                            => Runtime!Loaded(m)
  BY DEF Runtime!InstalledPHPFollows
<1>1. IniFollows /\ act.wants \in Runtime!Wants
  BY DEF PHPInv, ActInv, PHPTypes, PHPAct
<1>2. ASSUME NEW m \in Module, Runtime!Loaded(m), m \notin builtin
      PROVE  Runtime!Effective(act.wants)[m] = "on"
  BY <1>1, <1>2, Directives DEF IniFollows, Runtime!Loaded
<1>3. ASSUME NEW m \in Module, Runtime!Effective(act.wants)[m] = "on",
             m \in ByPIE => m \in library
      PROVE  Runtime!Loaded(m)
  BY <1>1, <1>3, Directives DEF IniFollows, Runtime!Loaded
<1>4. ASSUME NEW m \in act.wants.packages, Runtime!Effective(act.wants)[m] = "on",
             act.job = "install"
      PROVE  Runtime!Loaded(m)
  <2>1. m \in Module /\ act.wants.switch[m] # "off"
    BY <1>1, <1>4, PHPFacts DEF Runtime!Effective
  <2> QED
    BY <1>4, <2>1 DEF PHPInv, ActInv
<1>5. act.job = "add" => act.module \in library
  BY DEF PHPInv, ActInv
<1> QED
  BY <1>1, <1>2, <1>3, <1>4, <1>5 DEF IniFollows

-----------------------------------------------------------------------------
(* The environments.  A command that nothing disturbs is alone, and its view of the files *)
(* is right until its end; the active environment exists, or is about to be deselected.   *)

EditSteps == {"idle", "init", "default", "load", "change", "truncate", "write", "find", "use",
              "remove", "clear", "unlink", "choose", "shims"}
EnvFile == [form : {"absent", "good", "bad"}, tools : SUBSET Shim]
Edit ==
  [step : EditSteps, of : {"none", "init", "config", "configured", "use", "remove"},
   name : Project!Name \cup {NoName}, tools : SUBSET Shim, seen : Named \cup {NoName},
   disturbed : BOOLEAN, config : [Project!Name -> EnvFile]]
ActiveName == IF active = NoName THEN Main ELSE active

EnvTypes ==
  /\ files \in [Project!Name -> EnvFile]
  /\ active \in Named \cup {NoName} /\ shims \subseteq Shim
  /\ editing \in [Editor -> Edit]
  /\ changes \in 0 .. MaxChanges /\ outcome \in {"none", "success"} /\ lost \in BOOLEAN
  /\ \A e \in Editor :
       /\ ~Project!In(e, "idle") => editing[e].name \in Project!Name
       /\ editing[e].step \in {"remove", "clear"} => editing[e].name \in Named
       /\ Project!In(e, "find") => \/ editing[e].of = "use"
                                   \/ editing[e].of = "remove" /\ editing[e].name \in Named

Undisturbed ==
  /\ \A e, q \in Editor :
       ~Project!In(e, "idle") /\ ~editing[e].disturbed /\ e # q => Project!In(q, "idle")
  /\ outcome = "success" => \A e \in Editor : Project!In(e, "idle")

ViewInv == \A e \in Editor : ~editing[e].disturbed =>
  /\ editing[e].step \in {"unlink", "choose"} => editing[e].config = Project!Loaded
  /\ editing[e].step \in {"choose", "shims"} => shims = {}
  /\ Project!In(e, "shims") => editing[e].tools = Project!Loaded[ActiveName].tools

ActiveInv ==
  \/ lost \/ Project!Exists(ActiveName)
  \/ \E e \in Editor : Project!In(e, "clear") /\ editing[e].name = active

EnvInv == EnvTypes /\ Undisturbed /\ ViewInv /\ ActiveInv /\ Project!ShimsOfTheActive

LEMMA EnvFacts ==
  /\ Main \notin Named /\ NoName \notin Named \cup {Main} /\ MaxChanges \in Nat
  /\ Project!Name = Named \cup {Main}
  /\ Project!NoFile \in EnvFile /\ Project!BadFile \in EnvFile
  /\ \A tools \in SUBSET Shim : Project!File(tools) \in EnvFile
  /\ \A n \in Project!Name : Project!EmptyFile(n) \in EnvFile
  /\ Project!NoEdit \in Edit /\ Project!NoEdit.step = "idle"
<1>1. Project!EnvironmentAssumption
  BY PartsAssumption
<1>2. /\ Project!NoFile \in EnvFile /\ Project!BadFile \in EnvFile
      /\ \A tools \in SUBSET Shim : Project!File(tools) \in EnvFile
      /\ \A n \in Project!Name : Project!EmptyFile(n) \in EnvFile
  BY DEF Project!NoFile, Project!BadFile, Project!File, Project!EmptyFile, EnvFile
<1>3. Project!NoEdit \in Edit /\ Project!NoEdit.step = "idle"
  BY <1>2 DEF Project!NoEdit, Edit, EditSteps
<1> QED
  BY <1>1, <1>2, <1>3 DEF Project!EnvironmentAssumption, Project!Name

LEMMA EnvStart == Project!EnvironmentInit => EnvInv
<1> SUFFICES ASSUME Project!EnvironmentInit PROVE EnvInv
  OBVIOUS
<1>1. /\ editing \in [Editor -> Edit] /\ \A e \in Editor : editing[e].step = "idle"
      /\ files \in [Project!Name -> EnvFile] /\ active = NoName /\ shims = {}
      /\ changes = 0 /\ outcome = "none" /\ lost = FALSE
  BY EnvFacts DEF Project!EnvironmentInit
<1>2. EnvTypes
  <2>1. \A e \in Editor :
          /\ Project!In(e, "idle") /\ editing[e].step \notin {"remove", "clear"}
          /\ ~Project!In(e, "find")
    BY <1>1 DEF Project!In
  <2>2. changes \in 0 .. MaxChanges
    BY <1>1, EnvFacts
  <2>3. lost \in BOOLEAN /\ active \in Named \cup {NoName}
    BY <1>1
  <2> QED
    BY <1>1, <2>1, <2>2, <2>3 DEF EnvTypes
<1>3. Undisturbed /\ ViewInv
  BY <1>1 DEF Undisturbed, ViewInv, Project!In
<1>4. ActiveInv
  BY <1>1 DEF ActiveInv, ActiveName, Project!Exists
<1> QED
  BY <1>1, <1>2, <1>3, <1>4 DEF EnvInv, Project!ShimsOfTheActive

\* The config as commands read it.
LEMMA LoadedTypes ==
  ASSUME EnvTypes
  PROVE  Project!Loaded \in [Project!Name -> EnvFile]
<1>1. [n \in Project!Name |-> IF n = Main THEN Project!File({}) ELSE Project!NoFile]
        \in [Project!Name -> EnvFile]
  BY EnvFacts
<1> QED
  BY <1>1 DEF EnvTypes, Project!Loaded

\* Where a command goes.
LEMMA Goings ==
  ASSUME EnvTypes, NEW e \in Editor, NEW label \in EditSteps, Project!Goes(e, label)
  PROVE  \E r \in Edit :
           /\ editing' = [editing EXCEPT ![e] = r] /\ r.step = label
           /\ label = "idle" => r = Project!NoEdit
           /\ label # "idle" => r = [editing[e] EXCEPT !.step = label]
<1>1. editing \in [Editor -> Edit]
  BY DEF EnvTypes
<1>2. CASE label = "idle"
  BY <1>1, <1>2, EnvFacts DEF Project!Goes
<1>3. CASE label # "idle"
  <2>1. [editing[e] EXCEPT !.step = label] \in Edit
    BY <1>1 DEF Edit
  <2>2. [editing[e] EXCEPT !.step = label].step = label
    BY <1>1 DEF Edit
  <2> QED
    BY <1>1, <1>3, <2>1, <2>2 DEF Project!Goes
<1> QED
  BY <1>2, <1>3

\* What a step of one command leaves true, if its own view is right.
LEMMA OneEdits ==
  ASSUME EnvInv, NEW e \in Editor, ~Project!In(e, "idle"),
         NEW r \in Edit, editing' = [editing EXCEPT ![e] = r],
         r.step = "idle" \/ (r.disturbed = editing[e].disturbed /\ r.name = editing[e].name),
         r.step \in {"remove", "clear"} => r.name \in Named,
         r.step = "find" => r.of = "use" \/ (r.of = "remove" /\ r.name \in Named),
         outcome' = outcome \/ (r.step = "idle" /\ outcome' = "none")
           \/ (r.step = "idle" /\ outcome' = "success" /\ ~editing[e].disturbed),
         files' \in [Project!Name -> EnvFile], active' \in Named \cup {NoName},
         shims' \subseteq Shim, changes' \in 0 .. MaxChanges, lost' \in BOOLEAN,
         ~r.disturbed =>
           /\ r.step \in {"unlink", "choose"} => r.config = (Project!Loaded)'
           /\ r.step \in {"choose", "shims"} => shims' = {}
           /\ r.step = "shims" => r.tools = (Project!Loaded[ActiveName].tools)'
  PROVE  /\ EnvTypes' /\ Undisturbed' /\ ViewInv'
         /\ outcome' = outcome => Project!ShimsOfTheActive'
<1>1. /\ editing \in [Editor -> Edit] /\ outcome \in {"none", "success"}
      /\ outcome # "success"
  BY DEF EnvInv, EnvTypes, Undisturbed
<1>2. editing' \in [Editor -> Edit] /\ editing'[e] = r
  BY <1>1
<1>3. \A q \in Editor : q # e => editing'[q] = editing[q]
  BY <1>1
<1>4. EnvTypes'
  <2>1. ASSUME NEW q \in Editor
        PROVE  /\ ~Project!In(q, "idle")' => editing'[q].name \in Project!Name
               /\ editing'[q].step \in {"remove", "clear"} => editing'[q].name \in Named
               /\ Project!In(q, "find")' => \/ editing'[q].of = "use"
                                            \/ editing'[q].of = "remove" /\ editing'[q].name \in Named
    <3>1. CASE q = e
      BY <1>2, <3>1 DEF EnvInv, EnvTypes, Project!In
    <3>2. CASE q # e
      BY <1>3, <3>2 DEF EnvInv, EnvTypes, Project!In
    <3> QED
      BY <3>1, <3>2
  <2>2. outcome' \in {"none", "success"}
    BY <1>1
  <2> QED
    BY <1>2, <2>1, <2>2 DEF EnvTypes, Project!Name
<1>5. \A q \in Editor : q # e /\ ~editing[q].disturbed => Project!In(q, "idle")
  BY DEF EnvInv, Undisturbed
<1>6. ~editing[e].disturbed => \A q \in Editor : q # e => Project!In(q, "idle")
  BY DEF EnvInv, Undisturbed
<1>7. Undisturbed'
  <2>1. ASSUME NEW x \in Editor, NEW q \in Editor, ~Project!In(x, "idle")',
               ~editing'[x].disturbed, x # q
        PROVE  Project!In(q, "idle")'
    <3>1. CASE x = e
      BY <1>2, <1>3, <1>6, <2>1, <3>1 DEF Project!In
    <3>2. CASE x # e
      BY <1>3, <1>5, <2>1, <3>2 DEF Project!In
    <3> QED
      BY <3>1, <3>2
  <2>2. outcome' = "success" => \A q \in Editor : Project!In(q, "idle")'
    BY <1>1, <1>2, <1>3, <1>6 DEF Project!In
  <2> QED
    BY <2>1, <2>2 DEF Undisturbed
<1>8. ViewInv'
  <2>1. ASSUME NEW q \in Editor, ~editing'[q].disturbed
        PROVE  /\ editing'[q].step \in {"unlink", "choose"} => editing'[q].config = (Project!Loaded)'
               /\ editing'[q].step \in {"choose", "shims"} => shims' = {}
               /\ Project!In(q, "shims")' => editing'[q].tools = (Project!Loaded[ActiveName].tools)'
    <3>1. CASE q = e
      BY <1>2, <2>1, <3>1 DEF Project!In
    <3>2. CASE q # e
      BY <1>3, <1>5, <2>1, <3>2 DEF Project!In
    <3> QED
      BY <3>1, <3>2
  <2> QED
    BY <2>1 DEF ViewInv
<1> QED
  BY <1>1, <1>4, <1>7, <1>8 DEF Project!ShimsOfTheActive

\* The active environment goes on to exist.
LEMMA StaysActive ==
  ASSUME ActiveInv, UNCHANGED <<active, lost>>,
         \A n \in Project!Name :
           files[n].form # "absent" => files'[n].form # "absent",
         \A e \in Editor : Project!In(e, "clear") =>
           Project!In(e, "clear")' /\ editing'[e].name = editing[e].name,
         active \in Named \cup {NoName}
  PROVE  ActiveInv'
<1>1. ActiveName \in Project!Name
  BY EnvFacts DEF ActiveName
<1>2. ActiveName' = ActiveName
  BY DEF ActiveName
<1> QED
  BY <1>1, <1>2 DEF ActiveInv, Project!Exists

LEMMA EditorsBegin ==
  ASSUME EnvInv, NEW e \in Editor,
         \/ Project!InitProject(e)
         \/ Project!ConfigureEnvironment(e)
         \/ Project!UseEnvironment(e)
         \/ Project!RemoveEnvironment(e)
  PROVE  EnvInv'
<1>1. PICK command \in {"init", "config", "use", "remove"}, n \in Project!Name, label \in {"init", "find"} :
        /\ Project!Launch(e, command, n, label)
        /\ command = "remove" => n \in Named
        /\ label = "find" => command \in {"use", "remove"}
  BY EnvFacts DEF Project!InitProject, Project!ConfigureEnvironment, Project!UseEnvironment,
                  Project!RemoveEnvironment
<1>2. /\ editing \in [Editor -> Edit] /\ Project!In(e, "idle")
      /\ outcome' = "none" /\ UNCHANGED <<files, active, shims, changes, lost>>
  BY <1>1 DEF EnvInv, EnvTypes, Project!Launch, Project!Disk
<1> DEFINE meeting == {q \in Editor \ {e} : ~Project!In(q, "idle")}
           new == [Project!NoEdit EXCEPT !.step = label, !.of = command, !.name = n,
                                         !.disturbed = meeting # {}]
<1>3. /\ new \in Edit /\ new.step = label /\ new.of = command /\ new.name = n
      /\ new.disturbed = (meeting # {})
  BY EnvFacts DEF Edit, EditSteps
<1>4. editing' = [q \in Editor |->
                    IF q = e THEN new
                    ELSE IF q \in meeting THEN [editing[q] EXCEPT !.disturbed = TRUE]
                    ELSE editing[q]]
  BY <1>1 DEF Project!Launch
<1> HIDE DEF new
<1>5. ASSUME NEW q \in Editor, q # e
      PROVE  /\ editing'[q] \in Edit
             /\ editing'[q].step = editing[q].step /\ editing'[q].name = editing[q].name
             /\ editing'[q].of = editing[q].of
             /\ editing'[q].disturbed \/ editing[q].step = "idle"
  <2>1. CASE q \in meeting
    <3>1. editing'[q] = [editing[q] EXCEPT !.disturbed = TRUE]
      BY <1>4, <1>5, <2>1
    <3> HIDE DEF meeting
    <3>2. editing[q] \in Edit
      BY <1>2
    <3> QED
      BY <3>1, <3>2 DEF Edit
  <2>2. CASE q \notin meeting
    <3>1. editing'[q] = editing[q]
      BY <1>4, <1>5, <2>2
    <3> QED
      BY <1>2, <1>5, <2>2, <3>1 DEF Project!In
  <2> QED
    BY <2>1, <2>2
<1>6. editing'[e] = new
  BY <1>4
<1>7. EnvTypes'
  <2>1. editing' \in [Editor -> Edit]
    BY <1>3, <1>4, <1>5, <1>6
  <2>2. ASSUME NEW q \in Editor
        PROVE  /\ ~Project!In(q, "idle")' => editing'[q].name \in Project!Name
               /\ editing'[q].step \in {"remove", "clear"} => editing'[q].name \in Named
               /\ Project!In(q, "find")' => \/ editing'[q].of = "use"
                                            \/ editing'[q].of = "remove" /\ editing'[q].name \in Named
    <3>1. CASE q = e
      BY <1>1, <1>3, <1>6, <3>1 DEF Project!In
    <3>2. CASE q # e
      BY <1>5, <3>2 DEF EnvInv, EnvTypes, Project!In
    <3> QED
      BY <3>1, <3>2
  <2> QED
    BY <1>2, <2>1, <2>2 DEF EnvInv, EnvTypes, Project!Name
<1>8. Undisturbed'
  <2>1. ASSUME NEW x \in Editor, NEW q \in Editor, ~Project!In(x, "idle")',
               ~editing'[x].disturbed, x # q
        PROVE  Project!In(q, "idle")'
    <3>1. x = e
      BY <1>5, <2>1 DEF Project!In
    <3>2. q \notin meeting
      BY <1>3, <1>6, <2>1, <3>1
    <3> QED
      BY <1>5, <2>1, <3>1, <3>2 DEF Project!In
  <2> QED
    BY <1>2, <2>1 DEF Undisturbed
<1>9. ViewInv'
  BY <1>3, <1>5, <1>6 DEF ViewInv, Project!In
<1>10. ActiveInv'
  <2>1. \A q \in Editor : Project!In(q, "clear") =>
          Project!In(q, "clear")' /\ editing'[q].name = editing[q].name
    BY <1>2, <1>5 DEF Project!In
  <2> QED
    BY <1>2, <2>1, StaysActive DEF EnvInv, EnvTypes
<1> QED
  BY <1>2, <1>7, <1>8, <1>9, <1>10 DEF EnvInv, Project!ShimsOfTheActive

\* A command that fails or is killed.
LEMMA EditorEnds ==
  ASSUME EnvInv, NEW e \in Editor, ~Project!In(e, "idle"), Project!Goes(e, "idle"),
         UNCHANGED <<files, active, shims, outcome>>, changes' \in 0 .. MaxChanges,
         lost' = (lost \/ (Project!In(e, "clear") /\ active = editing[e].name))
  PROVE  EnvInv'
<1>1. editing' = [editing EXCEPT ![e] = Project!NoEdit]
  BY Goings DEF EnvInv, EditSteps
<1>2. EnvTypes' /\ Undisturbed' /\ ViewInv' /\ Project!ShimsOfTheActive'
  BY <1>1, EnvFacts, OneEdits DEF EnvInv, EnvTypes
<1>3. ActiveInv'
  <2>1. Project!Exists(ActiveName)' <=> Project!Exists(ActiveName)
    BY DEF Project!Exists, ActiveName
  <2>2. \A q \in Editor : q # e => editing'[q] = editing[q]
    BY <1>1 DEF EnvInv, EnvTypes
  <2> QED
    BY <2>1, <2>2 DEF EnvInv, EnvTypes, ActiveInv, Project!In
<1> QED
  BY <1>2, <1>3 DEF EnvInv

\* A step that leaves the disk and the history alone.
LEMMA EditorReads ==
  ASSUME EnvInv, NEW e \in Editor, ~Project!In(e, "idle"), ~Project!In(e, "clear"),
         NEW r \in Edit, editing' = [editing EXCEPT ![e] = r],
         r.disturbed = editing[e].disturbed, r.name = editing[e].name,
         r.step \in {"remove", "clear"} => r.name \in Named,
         r.step # "find",
         UNCHANGED <<files, active, shims, changes, outcome, lost>>,
         ~r.disturbed =>
           /\ r.step \in {"unlink", "choose"} => r.config = Project!Loaded
           /\ r.step \in {"choose", "shims"} => shims = {}
           /\ r.step = "shims" => r.tools = Project!Loaded[ActiveName].tools
  PROVE  EnvInv'
<1>1. Project!Loaded' = Project!Loaded /\ ActiveName' = ActiveName
  BY DEF Project!Loaded, ActiveName
<1>2. EnvTypes' /\ Undisturbed' /\ ViewInv' /\ Project!ShimsOfTheActive'
  BY <1>1, OneEdits DEF EnvInv, EnvTypes
<1>3. ActiveInv'
  <2>1. \A q \in Editor : Project!In(q, "clear") =>
          Project!In(q, "clear")' /\ editing'[q].name = editing[q].name
    BY DEF EnvInv, EnvTypes, Project!In
  <2> QED
    BY <2>1, StaysActive DEF EnvInv, EnvTypes
<1> QED
  BY <1>2, <1>3 DEF EnvInv

\* A step that writes a file.
LEMMA EditorWrites ==
  ASSUME EnvInv, NEW e \in Editor, ~Project!In(e, "idle"), ~Project!In(e, "clear"),
         NEW label \in {"default", "load", "write"}, Project!Goes(e, label),
         NEW n \in Project!Name, NEW put \in EnvFile, put.form # "absent",
         files' = [files EXCEPT ![n] = put],
         UNCHANGED <<active, shims, changes, outcome, lost>>
  PROVE  EnvInv'
<1>1. PICK r \in Edit : /\ editing' = [editing EXCEPT ![e] = r] /\ r.step = label
                        /\ r = [editing[e] EXCEPT !.step = label]
  BY Goings DEF EnvInv, EditSteps
<1>2. r.disturbed = editing[e].disturbed /\ r.name = editing[e].name
  BY <1>1 DEF EnvInv, EnvTypes, Edit
<1>3. files \in [Project!Name -> EnvFile] /\ files' \in [Project!Name -> EnvFile]
  BY DEF EnvInv, EnvTypes
<1>4. EnvTypes' /\ Undisturbed' /\ ViewInv' /\ Project!ShimsOfTheActive'
  BY <1>1, <1>2, <1>3, OneEdits DEF EnvInv, EnvTypes
<1>5. ActiveInv'
  <2>1. \A q \in Editor : Project!In(q, "clear") =>
          Project!In(q, "clear")' /\ editing'[q].name = editing[q].name
    BY <1>1 DEF EnvInv, EnvTypes, Project!In
  <2>2. \A m \in Project!Name : files[m].form # "absent" => files'[m].form # "absent"
    BY <1>3
  <2> QED
    BY <2>1, <2>2, StaysActive DEF EnvInv, EnvTypes
<1> QED
  BY <1>4, <1>5 DEF EnvInv

LEMMA ConfigSteps ==
  ASSUME EnvInv, NEW e \in Editor,
         \/ Project!WriteDefault(e)
         \/ Project!DefaultWritten(e)
         \/ Project!ChangeEnvironment(e)
         \/ Project!TruncateFile(e)
         \/ Project!WriteFile(e)
  PROVE  EnvInv'
<1>0. /\ editing \in [Editor -> Edit] /\ changes \in 0 .. MaxChanges /\ lost \in BOOLEAN
      /\ Main \in Project!Name
  BY EnvFacts DEF EnvInv, EnvTypes
<1>1. ASSUME Project!Fails(e), ~Project!In(e, "idle"), ~Project!In(e, "clear")
      PROVE  EnvInv'
  BY <1>0, <1>1, EditorEnds DEF Project!Fails, Project!Disk, Project!Quietly
<1>2. CASE Project!WriteDefault(e)
  <2>1. ~Project!In(e, "idle") /\ ~Project!In(e, "clear")
    BY <1>2 DEF Project!WriteDefault, Project!In
  <2>2. CASE /\ files' = [files EXCEPT ![Main] = Project!BadFile]
             /\ Project!Goes(e, "default") /\ UNCHANGED <<active, shims>> /\ Project!Quietly
    BY <1>0, <2>1, <2>2, EditorWrites, EnvFacts DEF Project!Quietly, Project!BadFile
  <2>3. CASE Project!Goes(e, "load") /\ Project!Disk /\ Project!Quietly
    <3>1. PICK r \in Edit : /\ editing' = [editing EXCEPT ![e] = r] /\ r.step = "load"
                            /\ r = [editing[e] EXCEPT !.step = "load"]
      BY <2>3, Goings DEF EnvInv, EditSteps
    <3>2. r.disturbed = editing[e].disturbed /\ r.name = editing[e].name
      BY <1>0, <3>1 DEF Edit
    <3> QED
      BY <2>1, <2>3, <3>1, <3>2, EditorReads DEF Project!Disk, Project!Quietly
  <2> QED
    BY <1>1, <1>2, <2>1, <2>2, <2>3 DEF Project!WriteDefault
<1>3. CASE Project!DefaultWritten(e)
  <2>1. ~Project!In(e, "idle") /\ ~Project!In(e, "clear")
    BY <1>3 DEF Project!DefaultWritten, Project!In
  <2>2. Project!File({}) \in EnvFile /\ Project!File({}).form # "absent"
    BY EnvFacts DEF Project!File
  <2> QED
    BY <1>0, <1>3, <2>1, <2>2, EditorWrites DEF Project!DefaultWritten, Project!Quietly
<1>4. CASE Project!ChangeEnvironment(e)
  <2>1. ~Project!In(e, "idle") /\ ~Project!In(e, "clear")
    BY <1>4 DEF Project!ChangeEnvironment, Project!In
  <2>2. ASSUME NEW tools \in SUBSET Shim,
               editing' = [editing EXCEPT ![e].step = "truncate", ![e].tools = tools],
               Project!Disk, Project!Quietly
        PROVE  EnvInv'
    <3> DEFINE r == [editing[e] EXCEPT !.step = "truncate", !.tools = tools]
    <3>1. /\ r \in Edit /\ r.step = "truncate"
          /\ r.disturbed = editing[e].disturbed /\ r.name = editing[e].name
      BY <1>0 DEF Edit, EditSteps
    <3>2. editing' = [editing EXCEPT ![e] = r]
      BY <1>0, <2>2 DEF Edit
    <3> HIDE DEF r
    <3> QED
      BY <2>1, <2>2, <3>1, <3>2, EditorReads DEF Project!Disk, Project!Quietly
  <2> QED
    BY <1>1, <1>4, <2>1, <2>2 DEF Project!ChangeEnvironment
<1>5. CASE Project!TruncateFile(e)
  <2>1. ~Project!In(e, "idle") /\ ~Project!In(e, "clear") /\ editing[e].name \in Project!Name
    BY <1>5 DEF Project!TruncateFile, Project!In, EnvInv, EnvTypes
  <2>2. /\ Project!EmptyFile(editing[e].name) \in EnvFile
        /\ Project!EmptyFile(editing[e].name).form # "absent"
    BY <2>1, EnvFacts DEF Project!EmptyFile, Project!File, Project!BadFile
  <2>3. CASE /\ files' = [files EXCEPT ![editing[e].name] = Project!EmptyFile(editing[e].name)]
             /\ Project!Goes(e, "write") /\ UNCHANGED <<active, shims>> /\ Project!Quietly
    BY <2>1, <2>2, <2>3, EditorWrites DEF Project!Quietly
  <2> QED
    BY <1>1, <1>5, <2>1, <2>3 DEF Project!TruncateFile
<1>6. CASE Project!WriteFile(e)
  <2>1. ~Project!In(e, "idle") /\ ~Project!In(e, "clear") /\ editing[e].name \in Project!Name
    BY <1>6 DEF Project!WriteFile, Project!In, EnvInv, EnvTypes
  <2>2. /\ Project!File(editing[e].tools) \in EnvFile
        /\ Project!File(editing[e].tools).form # "absent"
    BY <1>0, EnvFacts DEF Edit, Project!File
  <2> QED
    BY <1>6, <2>1, <2>2, EditorWrites DEF Project!WriteFile, Project!Quietly
<1> QED
  BY <1>2, <1>3, <1>4, <1>5, <1>6

\* Use and Remove choose the active environment.
LEMMA ChoiceSteps ==
  ASSUME EnvInv, NEW e \in Editor,
         \/ Project!FindEnvironment(e)
         \/ Project!Select(e)
         \/ Project!RemoveFile(e)
         \/ Project!Deselect(e)
  PROVE  EnvInv'
<1>0. /\ editing \in [Editor -> Edit] /\ changes \in 0 .. MaxChanges /\ lost \in BOOLEAN
      /\ files \in [Project!Name -> EnvFile] /\ active \in Named \cup {NoName}
  BY EnvFacts DEF EnvInv, EnvTypes
<1>1. ASSUME NEW label \in {"load", "clear"}, Project!Goes(e, label), ~Project!In(e, "idle"),
             label = "clear" => editing[e].name \in Named,
             UNCHANGED <<shims, changes, outcome>>, active' \in Named \cup {NoName},
             files' \in [Project!Name -> EnvFile], lost' \in BOOLEAN
      PROVE  /\ EnvTypes' /\ Undisturbed' /\ ViewInv' /\ Project!ShimsOfTheActive'
             /\ Project!In(e, label)' /\ editing'[e].name = editing[e].name
             /\ \A q \in Editor : q # e => editing'[q] = editing[q]
  <2>1. PICK r \in Edit : /\ editing' = [editing EXCEPT ![e] = r] /\ r.step = label
                          /\ r = [editing[e] EXCEPT !.step = label]
    BY <1>1, Goings DEF EnvInv, EditSteps
  <2>2. r.disturbed = editing[e].disturbed /\ r.name = editing[e].name
    BY <1>0, <2>1 DEF Edit
  <2>3. /\ r.step \notin {"find", "unlink", "choose", "shims"}
        /\ r.step \in {"remove", "clear"} => r.name \in Named
        /\ shims' \subseteq Shim /\ changes' \in 0 .. MaxChanges
    BY <1>0, <1>1, <2>1, <2>2 DEF EnvInv, EnvTypes
  <2>4. EnvTypes' /\ Undisturbed' /\ ViewInv' /\ Project!ShimsOfTheActive'
    BY <1>1, <2>1, <2>2, <2>3, OneEdits
  <2> QED
    BY <1>0, <2>1, <2>2, <2>4 DEF Project!In
<1>2. CASE Project!FindEnvironment(e)
  <2>1. ~Project!In(e, "idle") /\ ~Project!In(e, "clear") /\ Project!In(e, "find")
    BY <1>2 DEF Project!FindEnvironment, Project!In
  <2>2. CASE /\ editing' = [editing EXCEPT ![e].step = editing[e].of, ![e].seen = active]
             /\ Project!Disk /\ Project!Quietly
    <3> DEFINE r == [editing[e] EXCEPT !.step = editing[e].of, !.seen = active]
    <3>1. \/ editing[e].of = "use"
          \/ editing[e].of = "remove" /\ editing[e].name \in Named
      BY <2>1 DEF EnvInv, EnvTypes
    <3>2. /\ r \in Edit /\ r.step = editing[e].of
          /\ r.disturbed = editing[e].disturbed /\ r.name = editing[e].name
      BY <1>0, <3>1 DEF Edit, EditSteps
    <3>3. editing' = [editing EXCEPT ![e] = r]
      BY <1>0, <2>2 DEF Edit
    <3> HIDE DEF r
    <3> QED
      BY <2>1, <2>2, <3>1, <3>2, <3>3, EditorReads DEF Project!Disk, Project!Quietly
  <2>3. CASE Project!Fails(e)
    BY <1>0, <2>1, <2>3, EditorEnds DEF Project!Fails, Project!Disk, Project!Quietly
  <2> QED
    BY <1>2, <2>2, <2>3 DEF Project!FindEnvironment
<1>3. CASE Project!Select(e)
  <2>1. ~Project!In(e, "idle") /\ editing[e].name \in Project!Name
    BY <1>3 DEF Project!Select, Project!In, EnvInv, EnvTypes
  <2>2. /\ active' \in Named \cup {NoName} /\ lost' \in BOOLEAN
        /\ Project!Goes(e, "load") /\ UNCHANGED <<files, shims, changes, outcome>>
        /\ lost' = (active' # NoName /\ files[active'].form = "absent")
    BY <1>3, <2>1, EnvFacts DEF Project!Select
  <2>3. EnvTypes' /\ Undisturbed' /\ ViewInv' /\ Project!ShimsOfTheActive'
    BY <1>0, <1>1, <2>1, <2>2
  <2>4. ActiveInv'
    BY <2>2 DEF ActiveInv, ActiveName, Project!Exists
  <2> QED
    BY <2>3, <2>4 DEF EnvInv
<1>4. CASE Project!RemoveFile(e)
  <2> DEFINE n == editing[e].name
  <2>0. PICK label \in {"load", "clear"} :
          label = IF editing[e].seen = n THEN "clear" ELSE "load"
    OBVIOUS
  <2>1. ~Project!In(e, "idle") /\ ~Project!In(e, "clear") /\ n \in Named
    BY <1>4 DEF Project!RemoveFile, Project!In, EnvInv, EnvTypes
  <2>2. /\ files' = [files EXCEPT ![n] = Project!NoFile] /\ Project!Goes(e, label)
        /\ lost' = (lost \/ (active = n /\ editing[e].seen # active))
        /\ UNCHANGED <<active, shims, changes, outcome>>
    BY <1>4, <2>0 DEF Project!RemoveFile
  <2>3. /\ files' \in [Project!Name -> EnvFile] /\ active' \in Named \cup {NoName}
    BY <1>0, <2>2, EnvFacts
  <2>4. lost' \in BOOLEAN
    BY <1>0, <2>2
  <2>5. /\ EnvTypes' /\ Undisturbed' /\ ViewInv' /\ Project!ShimsOfTheActive'
        /\ Project!In(e, label)' /\ editing'[e].name = editing[e].name
        /\ \A q \in Editor : q # e => editing'[q] = editing[q]
    BY <1>0, <1>1, <2>1, <2>2, <2>3, <2>4
  <2>6. ActiveInv'
    <3>1. CASE active = n
      <4>1. CASE editing[e].seen = n
        BY <2>0, <2>2, <2>5, <3>1, <4>1 DEF ActiveInv
      <4>2. CASE editing[e].seen # n
        BY <2>2, <3>1, <4>2 DEF ActiveInv
      <4> QED
        BY <4>1, <4>2
    <3>2. CASE active # n
      <4>1. ActiveName # n /\ ActiveName \in Project!Name /\ ActiveName' = ActiveName
        BY <1>0, <2>1, <2>2, <3>2, EnvFacts DEF ActiveName
      <4>2. Project!Exists(ActiveName)' <=> Project!Exists(ActiveName)
        BY <1>0, <2>2, <4>1 DEF Project!Exists
      <4>3. \A q \in Editor : Project!In(q, "clear") =>
              Project!In(q, "clear")' /\ editing'[q].name = editing[q].name
        BY <2>1, <2>5 DEF Project!In
      <4> QED
        BY <2>2, <4>2, <4>3 DEF EnvInv, ActiveInv
    <3> QED
      BY <3>1, <3>2
  <2> QED
    BY <2>5, <2>6 DEF EnvInv
<1>5. CASE Project!Deselect(e)
  <2>1. ~Project!In(e, "idle")
    BY <1>5 DEF Project!Deselect, Project!In
  <2>2. /\ active' = NoName /\ lost' = FALSE /\ Project!Goes(e, "load")
        /\ UNCHANGED <<files, shims, changes, outcome>>
    BY <1>5 DEF Project!Deselect
  <2>3. EnvTypes' /\ Undisturbed' /\ ViewInv' /\ Project!ShimsOfTheActive'
    BY <1>0, <1>1, <2>1, <2>2
  <2>4. ActiveInv'
    BY <2>2 DEF ActiveInv, ActiveName, Project!Exists
  <2> QED
    BY <2>3, <2>4 DEF EnvInv
<1> QED
  BY <1>2, <1>3, <1>4, <1>5

\* The shims follow.
LEMMA ShimSteps ==
  ASSUME EnvInv, NEW e \in Editor,
         \/ Project!LoadConfig(e)
         \/ Project!RemoveShims(e)
         \/ Project!ChooseShims(e)
         \/ Project!WriteShims(e)
  PROVE  EnvInv'
<1>0. /\ editing \in [Editor -> Edit] /\ changes \in 0 .. MaxChanges /\ lost \in BOOLEAN
      /\ files \in [Project!Name -> EnvFile] /\ active \in Named \cup {NoName}
      /\ Project!Loaded \in [Project!Name -> EnvFile] /\ shims \subseteq Shim
      /\ ActiveName \in Project!Name
  BY EnvFacts, LoadedTypes DEF EnvInv, EnvTypes, ActiveName
<1>1. CASE Project!LoadConfig(e)
  <2>1. ~Project!In(e, "idle") /\ ~Project!In(e, "clear")
    BY <1>1 DEF Project!LoadConfig, Project!In
  <2>2. CASE /\ editing' = [editing EXCEPT ![e].step = "unlink", ![e].config = Project!Loaded]
             /\ Project!Disk /\ Project!Quietly
    <3> DEFINE r == [editing[e] EXCEPT !.step = "unlink", !.config = Project!Loaded]
    <3>1. /\ r \in Edit /\ r.step = "unlink" /\ r.config = Project!Loaded
          /\ r.disturbed = editing[e].disturbed /\ r.name = editing[e].name
      BY <1>0 DEF Edit, EditSteps
    <3>2. editing' = [editing EXCEPT ![e] = r]
      BY <1>0, <2>2 DEF Edit
    <3> HIDE DEF r
    <3> QED
      BY <2>1, <2>2, <3>1, <3>2, EditorReads DEF Project!Disk, Project!Quietly
  <2>3. CASE Project!Fails(e)
    BY <1>0, <2>1, <2>3, EditorEnds DEF Project!Fails, Project!Disk, Project!Quietly
  <2> QED
    BY <1>1, <2>2, <2>3 DEF Project!LoadConfig
<1>2. CASE Project!RemoveShims(e)
  <2>1. ~Project!In(e, "idle") /\ ~Project!In(e, "clear") /\ Project!In(e, "unlink")
    BY <1>2 DEF Project!RemoveShims, Project!In
  <2>2. /\ shims' = {} /\ Project!Goes(e, "choose")
        /\ UNCHANGED <<files, active, changes, outcome, lost>>
    BY <1>2 DEF Project!RemoveShims, Project!Quietly
  <2>3. PICK r \in Edit : /\ editing' = [editing EXCEPT ![e] = r] /\ r.step = "choose"
                          /\ r = [editing[e] EXCEPT !.step = "choose"]
    BY <2>2, Goings DEF EnvInv, EditSteps
  <2>4. r.disturbed = editing[e].disturbed /\ r.name = editing[e].name /\ r.config = editing[e].config
    BY <1>0, <2>3 DEF Edit
  <2>5. Project!Loaded' = Project!Loaded
    BY <2>2 DEF Project!Loaded
  <2>6. ~r.disturbed => r.config = Project!Loaded
    BY <2>1, <2>4 DEF EnvInv, ViewInv, Project!In
  <2>7. EnvTypes' /\ Undisturbed' /\ ViewInv' /\ Project!ShimsOfTheActive'
    BY <1>0, <2>1, <2>2, <2>3, <2>4, <2>5, <2>6, OneEdits DEF EnvInv, EnvTypes
  <2>8. \A q \in Editor : Project!In(q, "clear") =>
          Project!In(q, "clear")' /\ editing'[q].name = editing[q].name
    BY <1>0, <2>1, <2>3 DEF Project!In
  <2> QED
    BY <1>0, <2>2, <2>7, <2>8, StaysActive DEF EnvInv
<1>3. CASE Project!ChooseShims(e)
  <2>1. ~Project!In(e, "idle") /\ ~Project!In(e, "clear") /\ Project!In(e, "choose")
    BY <1>3 DEF Project!ChooseShims, Project!In
  <2> DEFINE r == [editing[e] EXCEPT !.step = "shims",
                                     !.tools = editing[e].config[ActiveName].tools,
                                     !.config = Project!NoEdit.config]
  <2>2. editing[e].config \in [Project!Name -> EnvFile]
    BY <1>0 DEF Edit
  <2>3. editing[e].config[ActiveName].tools \in SUBSET Shim
    BY <1>0, <2>2 DEF EnvFile
  <2>4. Project!NoEdit.config \in [Project!Name -> EnvFile]
    BY EnvFacts DEF Edit
  <2>5. /\ r \in Edit /\ r.step = "shims" /\ r.tools = editing[e].config[ActiveName].tools
        /\ r.disturbed = editing[e].disturbed /\ r.name = editing[e].name
    BY <1>0, <2>3, <2>4 DEF Edit, EditSteps
  <2>6. editing' = [editing EXCEPT ![e] = r]
    BY <1>0, <1>3 DEF Edit, Project!ChooseShims, ActiveName
  <2> HIDE DEF r
  <2>7. ~r.disturbed => shims = {} /\ r.tools = Project!Loaded[ActiveName].tools
    BY <2>1, <2>5 DEF EnvInv, ViewInv, Project!In
  <2> QED
    BY <1>3, <2>1, <2>5, <2>6, <2>7, EditorReads
    DEF Project!ChooseShims, Project!Disk, Project!Quietly
<1>4. CASE Project!WriteShims(e)
  <2>1. ~Project!In(e, "idle") /\ ~Project!In(e, "clear") /\ Project!In(e, "shims")
    BY <1>4 DEF Project!WriteShims, Project!In
  <2>2. /\ shims' = shims \cup editing[e].tools /\ shims' \subseteq Shim
        /\ UNCHANGED <<files, active, changes, lost>>
        /\ Project!Loaded' = Project!Loaded /\ ActiveName' = ActiveName
    BY <1>0, <1>4 DEF Project!WriteShims, Edit, Project!Loaded, ActiveName
  <2>3. PICK r \in Edit :
          /\ editing' = [editing EXCEPT ![e] = r]
          /\ \/ /\ r.step = "change" /\ r.disturbed = editing[e].disturbed
                /\ r.name = editing[e].name /\ UNCHANGED outcome
             \/ /\ r.step = "idle"
                /\ outcome' = IF editing[e].disturbed THEN "none" ELSE "success"
    <3>1. CASE editing[e].of = "config"
      <4> DEFINE r == [editing[e] EXCEPT !.step = "change", !.of = "configured", !.tools = {}]
      <4>1. /\ r \in Edit /\ r.step = "change"
            /\ r.disturbed = editing[e].disturbed /\ r.name = editing[e].name
        BY <1>0 DEF Edit, EditSteps
      <4>2. editing' = [editing EXCEPT ![e] = r] /\ UNCHANGED outcome
        BY <1>0, <1>4, <3>1 DEF Edit, Project!WriteShims
      <4> HIDE DEF r
      <4> QED
        BY <4>1, <4>2
    <3>2. CASE editing[e].of # "config"
      <4>1. /\ Project!Goes(e, "idle")
            /\ outcome' = IF editing[e].disturbed THEN "none" ELSE "success"
        BY <1>4, <3>2 DEF Project!WriteShims
      <4> QED
        BY <4>1, Goings DEF EnvInv, EditSteps
    <3> QED
      BY <3>1, <3>2
  <2>4. EnvTypes' /\ Undisturbed' /\ ViewInv'
    BY <1>0, <2>1, <2>2, <2>3, OneEdits DEF EnvInv, EnvTypes
  <2>5. ActiveInv'
    <3>1. \A q \in Editor : Project!In(q, "clear") =>
            Project!In(q, "clear")' /\ editing'[q].name = editing[q].name
      BY <1>0, <2>1, <2>3 DEF Project!In
    <3> QED
      BY <1>0, <2>2, <3>1, StaysActive DEF EnvInv
  <2>6. Project!ShimsOfTheActive'
    <3>1. SUFFICES ASSUME outcome' = "success"
                   PROVE  /\ shims = {} /\ editing[e].tools = Project!Loaded[ActiveName].tools
                          /\ lost \/ Project!Exists(ActiveName)
      BY <2>2 DEF Project!ShimsOfTheActive, ActiveName, Project!Exists
    <3>2. ~editing[e].disturbed
      BY <2>1, <2>3, <3>1 DEF EnvInv, Undisturbed
    <3>3. shims = {} /\ editing[e].tools = Project!Loaded[ActiveName].tools
      BY <2>1, <3>2 DEF EnvInv, ViewInv, Project!In
    <3>4. \A q \in Editor : ~Project!In(q, "clear")
      BY <2>1, <3>2 DEF EnvInv, Undisturbed, Project!In
    <3> QED
      BY <3>3, <3>4 DEF EnvInv, ActiveInv
  <2> QED
    BY <2>4, <2>5, <2>6 DEF EnvInv
<1> QED
  BY <1>1, <1>2, <1>3, <1>4

\* A user writes or deletes a file: every command that runs is disturbed.
LEMMA EditFileStep == EnvInv /\ Project!EditFile => EnvInv'
<1> SUFFICES ASSUME EnvInv, Project!EditFile PROVE EnvInv'
  OBVIOUS
<1>0. /\ editing \in [Editor -> Edit] /\ changes \in Nat /\ lost \in BOOLEAN
      /\ files \in [Project!Name -> EnvFile] /\ active \in Named \cup {NoName}
      /\ ActiveName \in Project!Name
  BY EnvFacts DEF EnvInv, EnvTypes, ActiveName
<1>1. PICK n \in Project!Name,
           put \in {Project!NoFile, Project!BadFile}
                      \cup {Project!File(tools) : tools \in SUBSET Shim} :
        files' = [files EXCEPT ![n] = put] /\ lost' = (lost \/ put = Project!NoFile)
  BY DEF Project!EditFile
<1>2. /\ changes' \in 0 .. MaxChanges /\ outcome' = "none" /\ UNCHANGED <<active, shims>>
      /\ editing' = [e \in Editor |-> IF Project!In(e, "idle") THEN Project!NoEdit
                                      ELSE [editing[e] EXCEPT !.disturbed = TRUE]]
  BY <1>0, EnvFacts DEF Project!EditFile, Project!Change
<1>3. files' \in [Project!Name -> EnvFile] /\ lost' \in BOOLEAN
  BY <1>0, <1>1, EnvFacts
<1>4. ASSUME NEW e \in Editor
      PROVE  /\ editing'[e] \in Edit /\ editing'[e].step = editing[e].step
             /\ editing[e].step = "idle" \/ /\ editing'[e].name = editing[e].name
                                            /\ editing'[e].of = editing[e].of
                                            /\ editing'[e].disturbed
  <2>1. CASE Project!In(e, "idle")
    BY <1>2, <2>1, EnvFacts DEF Project!In
  <2>2. CASE ~Project!In(e, "idle")
    <3>1. editing'[e] = [editing[e] EXCEPT !.disturbed = TRUE]
      BY <1>2, <2>2
    <3>2. editing[e] \in Edit
      BY <1>0
    <3> QED
      BY <3>1, <3>2 DEF Edit
  <2> QED
    BY <2>1, <2>2
<1>5. EnvTypes'
  <2>1. editing' \in [Editor -> Edit]
    BY <1>2, <1>4
  <2>2. ASSUME NEW e \in Editor
        PROVE  /\ ~Project!In(e, "idle")' => editing'[e].name \in Project!Name
               /\ editing'[e].step \in {"remove", "clear"} => editing'[e].name \in Named
               /\ Project!In(e, "find")' => \/ editing'[e].of = "use"
                                            \/ editing'[e].of = "remove" /\ editing'[e].name \in Named
    BY <1>4 DEF EnvInv, EnvTypes, Project!In
  <2> QED
    BY <1>0, <1>2, <1>3, <2>1, <2>2 DEF EnvInv, EnvTypes, Project!Name
<1>6. Undisturbed' /\ ViewInv'
  BY <1>2, <1>4 DEF Undisturbed, ViewInv, Project!In
<1>7. ActiveInv'
  <2>1. ActiveName' = ActiveName
    BY <1>2 DEF ActiveName
  <2>2. CASE put = Project!NoFile
    BY <1>1, <2>2 DEF ActiveInv
  <2>3. CASE put # Project!NoFile
    <3>1. put.form # "absent"
      BY <1>1, <2>3 DEF Project!BadFile, Project!File
    <3>2. Project!Exists(ActiveName) => Project!Exists(ActiveName)'
      BY <1>0, <1>1, <2>1, <3>1 DEF Project!Exists
    <3>3. \A e \in Editor : Project!In(e, "clear") =>
            Project!In(e, "clear")' /\ editing'[e].name = editing[e].name
      BY <1>4 DEF Project!In
    <3> QED
      BY <1>1, <1>2, <2>1, <3>2, <3>3 DEF EnvInv, ActiveInv
  <2> QED
    BY <2>2, <2>3
<1> QED
  BY <1>2, <1>5, <1>6, <1>7 DEF EnvInv, Project!ShimsOfTheActive

LEMMA EnvStep == EnvInv /\ [Project!EnvironmentNext]_projectVars => EnvInv'
<1>1. ASSUME EnvInv, UNCHANGED projectVars
      PROVE  EnvInv'
  <2>1. UNCHANGED <<files, active, shims, editing, changes, outcome, lost>>
    BY <1>1 DEF projectVars
  <2>2. EnvTypes' /\ Undisturbed'
    BY <1>1, <2>1 DEF EnvInv, EnvTypes, Undisturbed, Project!In
  <2>3. Project!Loaded' = Project!Loaded /\ ActiveName' = ActiveName
    BY <2>1 DEF Project!Loaded, ActiveName
  <2>4. ViewInv' /\ ActiveInv' /\ Project!ShimsOfTheActive'
    BY <1>1, <2>1, <2>3
    DEF EnvInv, ViewInv, ActiveInv, Project!ShimsOfTheActive, Project!In, Project!Exists
  <2> QED
    BY <2>2, <2>4 DEF EnvInv
<1>2. ASSUME EnvInv, NEW e \in Editor, Project!KillEditor(e)
      PROVE  EnvInv'
  <2>1. /\ ~Project!In(e, "idle") /\ Project!Goes(e, "idle")
        /\ changes' \in 0 .. MaxChanges
        /\ UNCHANGED <<files, active, shims, outcome>>
        /\ lost' = (lost \/ (Project!In(e, "clear") /\ active = editing[e].name))
    BY <1>2, EnvFacts
    DEF Project!KillEditor, Project!Change, Project!Disk, EnvInv, EnvTypes
  <2> QED
    BY <1>2, <2>1, EditorEnds
<1>3. ASSUME EnvInv, Project!EnvironmentNext
      PROVE  EnvInv'
  BY <1>2, <1>3, EditorsBegin, ConfigSteps, ChoiceSteps, ShimSteps, EditFileStep
  DEF Project!EnvironmentNext
<1> QED
  BY <1>1, <1>3

-----------------------------------------------------------------------------
(* The download.  It knows a version that answers the request; while it reads the list, *)
(* what has been on it all the while is on a page read or on one that comes.            *)

ReleaseSteps ==
  {"resolve", "commit", "archive", "sum", "verify", "unwrap", "cached", "failed"}
Sums == 1 .. MaxNews + 1
Entry == [tag : Tags, copy : Sums]
Archives == [content : Sums \cup {Damaged}, comment : Sums \cup {0}]
Downloading ==
  [step : ReleaseSteps, tool : Upstream!Tool, request : Requests, page : Nat \ {0},
   tries : 1 .. MaxTries, got : Seq(Entry), version : Tags \cup Requests,
   sum : Sums \cup {0}, archive : Archives, lasting : SUBSET Tags, steady : BOOLEAN]

ReleaseTypes ==
  /\ offered \in Seq(Tags) /\ Upstream!IsInjective(offered)
  /\ news \in 0 .. MaxNews
  /\ copy \in [Tags -> Sums] /\ \A t \in Tags : copy[t] <= news + 1
  /\ download \in Downloading

\* Every release that lasts is among those that were read, or on a page to come.
Covered ==
  download.step = "resolve" /\ download.page > 1 /\ download.steady =>
    \A t \in download.lasting :
      \/ \E j \in DOMAIN download.got : download.got[j].tag = t
      \/ \E i \in DOMAIN offered :
            offered[i] = t /\ i > (download.page - 1) * PageSize

Resolvedly ==
  download.step \notin {"resolve", "failed"} =>
    /\ Upstream!Matches(download.version, download.request) /\ download.version \in Tags
    /\ download.steady =>
         \A t \in download.lasting :
           Upstream!Candidate(t, download.request, download.tool.mode) =>
             ~Upstream!Newer(t, download.version)

\* What a step, a checksum and an archive say together: a digest for a manifest without an
\* algorithm is known with the version, an archive that is not damaged has its own commit, and
\* one that was verified is what it should be.
Checked(tool, step, sum, archive) ==
  /\ step \notin {"resolve", "failed"} /\ tool.algorithm = "none" /\ tool.told # "nothing" => sum # 0
  /\ archive.content \in {Damaged, archive.comment}
  /\ step \in {"unwrap", "cached"} =>
       IF tool.algorithm = "commit" THEN archive.comment = sum
       ELSE sum = archive.content \/ (sum = 0 /\ tool.algorithm = "none")
Summed == Checked(download.tool, download.step, download.sum, download.archive)

ReleaseInv == ReleaseTypes /\ Covered /\ Resolvedly /\ Summed

LEMMA ReleaseFacts ==
  /\ PageSize \in Nat \ {0} /\ MaxTries \in Nat \ {0} /\ MaxNews \in Nat
  /\ Damaged \notin Sums \cup {0}
  /\ \A tool \in Upstream!Tool :
       /\ tool.algorithm \in {"none", "declared", "commit"}
       /\ tool.told \in {"nothing", "same", "other"} /\ tool.url \in BOOLEAN
       /\ tool.algorithm = "none" /\ tool.told # "nothing" => tool.mode = "releases"
       /\ tool.algorithm = "commit" => ~tool.url
  /\ Upstream!NoArchive \in Archives /\ Upstream!NoArchive.content = Damaged
<1>1. Upstream!ReleaseAssumption
  BY PartsAssumption
<1>2. ASSUME NEW tool \in Upstream!Tool
      PROVE  /\ tool.algorithm \in {"none", "declared", "commit"}
             /\ tool.told \in {"nothing", "same", "other"} /\ tool.url \in BOOLEAN
             /\ tool.algorithm = "none" /\ tool.told # "nothing" => tool.mode = "releases"
             /\ tool.algorithm = "commit" => ~tool.url
  BY DEF Upstream!Tool
<1>3. Upstream!NoArchive \in Archives /\ Upstream!NoArchive.content = Damaged
  BY DEF Upstream!NoArchive, Archives
<1> QED
  BY <1>1, <1>2, <1>3 DEF Upstream!ReleaseAssumption, Sums

\* A list without one of its items.
LEMMA Removing ==
  ASSUME NEW S, NEW s \in Seq(S), NEW i \in DOMAIN s
  PROVE  /\ Upstream!RemoveAt(s, i) \in Seq(S)
         /\ Upstream!IsInjective(s) => Upstream!IsInjective(Upstream!RemoveAt(s, i))
<1> DEFINE a == SubSeq(s, 1, i - 1)
           b == SubSeq(s, i + 1, Len(s))
<1>1. Len(s) \in Nat /\ i \in 1 .. Len(s)
  OBVIOUS
<1>2. /\ a \in Seq(S) /\ Len(a) = i - 1
      /\ \A j \in 1 .. i - 1 : a[j] = s[j]
  <2>1. \A j \in 1 .. i - 1 : s[j] \in S
    BY <1>1
  <2>2. /\ a \in Seq(S) /\ Len(a) = IF 1 <= i - 1 THEN i - 1 - 1 + 1 ELSE 0
        /\ \A j \in 1 .. i - 1 - 1 + 1 : a[j] = s[1 + j - 1]
    BY <1>1, <2>1, SubSeqProperties
  <2> QED
    BY <1>1, <2>2
<1>3. /\ b \in Seq(S) /\ Len(b) = Len(s) - i
      /\ \A j \in 1 .. Len(s) - i : b[j] = s[i + j]
  <2>1. \A j \in i + 1 .. Len(s) : s[j] \in S
    BY <1>1
  <2>2. /\ b \in Seq(S) /\ Len(b) = IF i + 1 <= Len(s) THEN Len(s) - (i + 1) + 1 ELSE 0
        /\ \A j \in 1 .. Len(s) - (i + 1) + 1 : b[j] = s[i + 1 + j - 1]
    BY <1>1, <2>1, SubSeqProperties
  <2> QED
    BY <1>1, <2>2
<1> HIDE DEF a, b
<1>4. /\ a \o b \in Seq(S) /\ Len(a \o b) = Len(a) + Len(b)
      /\ \A j \in 1 .. Len(a) + Len(b) :
           (a \o b)[j] = IF j <= Len(a) THEN a[j] ELSE b[j - Len(a)]
  BY <1>2, <1>3, ConcatProperties
<1>5. Upstream!RemoveAt(s, i) = a \o b
  BY DEF Upstream!RemoveAt, a, b
<1>6. ASSUME NEW j \in 1 .. Len(s) - 1
      PROVE  (a \o b)[j] = s[IF j < i THEN j ELSE j + 1]
  <2>1. CASE j < i
    <3>1. j \in 1 .. i - 1 /\ j \in 1 .. (i - 1) + (Len(s) - i) /\ j <= i - 1
      BY <1>1, <2>1
    <3>2. (a \o b)[j] = a[j]
      BY <1>2, <1>3, <1>4, <3>1
    <3>3. a[j] = s[j]
      BY <1>2, <3>1
    <3> QED
      BY <2>1, <3>2, <3>3
  <2>2. CASE ~(j < i)
    <3>1. /\ j - (i - 1) \in 1 .. Len(s) - i /\ i + (j - (i - 1)) = j + 1
          /\ j \in 1 .. (i - 1) + (Len(s) - i) /\ ~(j <= i - 1)
      BY <1>1, <2>2
    <3>2. (a \o b)[j] = b[j - (i - 1)]
      BY <1>2, <1>3, <1>4, <3>1
    <3>3. b[j - (i - 1)] = s[i + (j - (i - 1))]
      BY <1>3, <3>1
    <3> QED
      BY <2>2, <3>1, <3>2, <3>3
  <2> QED
    BY <2>1, <2>2
<1>7. DOMAIN (a \o b) = 1 .. Len(s) - 1
  BY <1>1, <1>2, <1>3, <1>4
<1>8. Upstream!IsInjective(s) => Upstream!IsInjective(a \o b)
  <2> SUFFICES ASSUME Upstream!IsInjective(s), NEW j \in 1 .. Len(s) - 1, NEW k \in 1 .. Len(s) - 1,
                      (a \o b)[j] = (a \o b)[k]
               PROVE  j = k
    BY <1>7 DEF Upstream!IsInjective
  <2> DEFINE x == IF j < i THEN j ELSE j + 1
             y == IF k < i THEN k ELSE k + 1
  <2>0. (a \o b)[j] = s[x] /\ (a \o b)[k] = s[y]
    BY <1>6
  <2>1. x \in DOMAIN s /\ y \in DOMAIN s
    BY <1>1
  <2>2. x = y
    <3> HIDE DEF x, y
    <3> QED
      BY <2>0, <2>1 DEF Upstream!IsInjective
  <2> QED
    BY <1>1, <2>2
<1> QED
  BY <1>4, <1>5, <1>8

\* A list with an item in front.
LEMMA Preceded ==
  ASSUME NEW S, NEW s \in Seq(S), NEW t \in S
  PROVE  /\ <<t>> \o s \in Seq(S)
         /\ DOMAIN (<<t>> \o s) = 1 .. Len(s) + 1 /\ (<<t>> \o s)[1] = t
         /\ \A i \in DOMAIN s : (<<t>> \o s)[i + 1] = s[i]
<1>1. <<t>> \in Seq(S) /\ Len(<<t>>) = 1 /\ <<t>>[1] = t /\ Len(s) \in Nat
  OBVIOUS
<1>2. /\ <<t>> \o s \in Seq(S) /\ Len(<<t>> \o s) = 1 + Len(s)
      /\ \A i \in 1 .. 1 + Len(s) : (<<t>> \o s)[i] = IF i <= 1 THEN <<t>>[i] ELSE s[i - 1]
  BY <1>1, ConcatProperties
<1>3. ASSUME NEW i \in DOMAIN s
      PROVE  (<<t>> \o s)[i + 1] = s[i]
  BY <1>1, <1>2
<1> QED
  BY <1>1, <1>2, <1>3

LEMMA ReleaseStart == Upstream!ReleaseInit => ReleaseInv
<1> SUFFICES ASSUME Upstream!ReleaseInit PROVE ReleaseInv
  OBVIOUS
<1>1. offered \in Seq(Tags) /\ Upstream!IsInjective(offered)
  <2>1. PICK m \in 0 .. 3 : offered \in [1 .. m -> Tags]
    BY DEF Upstream!ReleaseInit, Upstream!SeqOf
  <2> QED
    BY <2>1 DEF Upstream!ReleaseInit
<1>2. /\ news \in 0 .. MaxNews /\ copy \in [Tags -> Sums]
      /\ \A t \in Tags : copy[t] <= news + 1
  BY ReleaseFacts DEF Upstream!ReleaseInit, Sums
<1>3. PICK tool \in Upstream!Tool, r \in Requests :
        download = [step |-> "resolve", tool |-> tool, request |-> r, page |-> 1, tries |-> 1,
                    got |-> <<>>, version |-> r, sum |-> 0, archive |-> Upstream!NoArchive,
                    lasting |-> {}, steady |-> TRUE]
  BY DEF Upstream!ReleaseInit
<1>4. 1 \in 1 .. MaxTries /\ <<>> \in Seq(Entry)
  BY ReleaseFacts
<1>5. download \in Downloading
  BY <1>3, <1>4, ReleaseFacts DEF Downloading, ReleaseSteps
<1>6. download.step = "resolve" /\ download.page = 1 /\ download.archive = Upstream!NoArchive
  BY <1>3
<1> QED
  BY <1>1, <1>2, <1>5, <1>6, ReleaseFacts
  DEF ReleaseInv, ReleaseTypes, Covered, Resolvedly, Summed, Checked

-----------------------------------------------------------------------------
(* Upstream changes. *)

LEMMA UpstreamSteps ==
  ASSUME ReleaseInv, NEW t \in Tags,
         \/ Upstream!PublishRelease(t)
         \/ Upstream!ReplaceArchive(t)
         \/ Upstream!WithdrawRelease(t)
  PROVE  ReleaseInv'
<1>0. /\ offered \in Seq(Tags) /\ Upstream!IsInjective(offered) /\ news \in Nat
      /\ copy \in [Tags -> Sums] /\ \A u \in Tags : copy[u] <= news + 1
      /\ download \in Downloading
  BY ReleaseFacts DEF ReleaseInv, ReleaseTypes
<1>1. news' = news + 1 /\ news' \in 0 .. MaxNews
  BY <1>0, ReleaseFacts
  DEF Upstream!PublishRelease, Upstream!ReplaceArchive, Upstream!WithdrawRelease, Upstream!Change
<1>2. CASE Upstream!PublishRelease(t)
  <2>1. /\ offered' = <<t>> \o offered /\ t \notin Upstream!Range(offered)
        /\ UNCHANGED <<copy, download>>
    BY <1>2 DEF Upstream!PublishRelease
  <2>2. /\ offered' \in Seq(Tags) /\ DOMAIN offered' = 1 .. Len(offered) + 1
        /\ offered'[1] = t /\ \A i \in DOMAIN offered : offered'[i + 1] = offered[i]
    BY <1>0, <2>1, Preceded
  <2>3. Upstream!IsInjective(offered')
    <3> SUFFICES ASSUME NEW i \in DOMAIN offered', NEW j \in DOMAIN offered',
                        offered'[i] = offered'[j]
                 PROVE  i = j
      BY DEF Upstream!IsInjective
    <3>1. DOMAIN offered = 1 .. Len(offered) /\ Len(offered) \in Nat
      BY <1>0
    <3>2. ASSUME NEW k \in DOMAIN offered', k # 1
          PROVE  k - 1 \in DOMAIN offered /\ offered'[k] = offered[k - 1]
      <4>1. k - 1 \in DOMAIN offered /\ (k - 1) + 1 = k
        BY <2>2, <3>1, <3>2
      <4> QED
        BY <2>2, <4>1
    <3>3. \A k \in DOMAIN offered : offered[k] # t
      BY <2>1 DEF Upstream!Range
    <3>4. i \in Int /\ j \in Int
      BY <2>2
    <3> QED
      BY <1>0, <2>2, <3>2, <3>3, <3>4 DEF Upstream!IsInjective
  <2>4. ReleaseTypes'
    <3>1. \A u \in Tags : copy[u] <= news' + 1
      BY <1>0, <1>1 DEF Sums
    <3> QED
      BY <1>0, <1>1, <2>1, <2>2, <2>3, <3>1 DEF ReleaseTypes
  <2>5. Covered'
    <3> SUFFICES ASSUME download.step = "resolve", download.page > 1, download.steady,
                        NEW u \in download.lasting
                 PROVE  \/ \E j \in DOMAIN download.got : download.got[j].tag = u
                        \/ \E i \in DOMAIN offered' :
                              offered'[i] = u /\ i > (download.page - 1) * PageSize
      BY <2>1 DEF Covered
    <3>1. CASE \E j \in DOMAIN download.got : download.got[j].tag = u
      BY <3>1
    <3>2. CASE \E i \in DOMAIN offered :
                  offered[i] = u /\ i > (download.page - 1) * PageSize
      <4>1. PICK i \in DOMAIN offered :
                  offered[i] = u /\ i > (download.page - 1) * PageSize
        BY <3>2
      <4>2. (download.page - 1) * PageSize \in Int
        BY <1>0, ReleaseFacts DEF Downloading
      <4>3. i \in Nat /\ i + 1 \in DOMAIN offered'
        BY <1>0, <2>2
      <4>4. i + 1 > (download.page - 1) * PageSize
        BY <4>1, <4>2, <4>3
      <4> QED
        BY <2>2, <4>1, <4>3, <4>4
    <3> QED
      BY <3>1, <3>2 DEF ReleaseInv, Covered
  <2> QED
    BY <2>1, <2>4, <2>5
    DEF ReleaseInv, Resolvedly, Summed, Upstream!Matches, Upstream!Candidate
<1>3. CASE Upstream!ReplaceArchive(t)
  <2>1. copy' = [copy EXCEPT ![t] = @ + 1] /\ UNCHANGED <<offered, download>>
    BY <1>3 DEF Upstream!ReplaceArchive
  <2>2. copy' \in [Tags -> Sums] /\ \A u \in Tags : copy'[u] <= news' + 1
    BY <1>0, <1>1, <2>1, ReleaseFacts DEF Sums
  <2> QED
    BY <1>1, <2>1, <2>2 DEF ReleaseInv, ReleaseTypes, Covered, Resolvedly, Summed
<1>4. CASE Upstream!WithdrawRelease(t)
  <2>1. PICK i \in DOMAIN offered : offered' = Upstream!RemoveAt(offered, i)
    BY <1>4 DEF Upstream!WithdrawRelease
  <2>2. offered' \in Seq(Tags) /\ Upstream!IsInjective(offered')
    BY <1>0, <2>1, Removing
  <2>3. /\ download' = [download EXCEPT !.steady = @ /\ ~Upstream!Listing]
        /\ UNCHANGED copy
    BY <1>4 DEF Upstream!WithdrawRelease
  <2> DEFINE steady == download.steady /\ ~Upstream!Listing
  <2>4. /\ download' \in Downloading /\ download'.steady = steady
        /\ download'.step = download.step /\ download'.page = download.page
        /\ download'.version = download.version /\ download'.request = download.request
        /\ download'.tool = download.tool /\ download'.sum = download.sum
        /\ download'.archive = download.archive /\ download'.lasting = download.lasting
    <3>1. steady \in BOOLEAN
      BY <1>0 DEF Downloading
    <3>2. download' = [download EXCEPT !.steady = steady]
      BY <1>0, <2>3 DEF Downloading
    <3> HIDE DEF steady
    <3> QED
      BY <1>0, <3>1, <3>2 DEF Downloading
  <2>5. Covered'
    BY <2>4 DEF Covered, Upstream!Listing
  <2>6. Resolvedly' /\ Summed'
    BY <2>4 DEF ReleaseInv, Resolvedly, Summed
  <2>7. ReleaseTypes'
    BY <1>0, <1>1, <2>2, <2>3, <2>4 DEF ReleaseTypes, Sums
  <2> QED
    BY <2>5, <2>6, <2>7 DEF ReleaseInv
<1> QED
  BY <1>2, <1>3, <1>4

-----------------------------------------------------------------------------
(* The download goes on. *)

\* What the version is resolved to.
LEMMA Resolution ==
  ASSUME ReleaseInv, Upstream!Upstream, download.step = "resolve",
         NEW v \in Tags \cup Requests, NEW sum \in Sums \cup {0}, NEW lasting \in SUBSET Tags,
         Upstream!Resolved(v, sum, lasting),
         Upstream!Matches(v, download.request),
         download.tool.algorithm = "none" /\ download.tool.told # "nothing" => sum # 0,
         download.steady =>
           \A t \in lasting :
             Upstream!Candidate(t, download.request, download.tool.mode) => ~Upstream!Newer(t, v)
  PROVE  ReleaseInv'
<1>0. download \in Downloading /\ UNCHANGED <<offered, copy, news>>
  BY DEF ReleaseInv, ReleaseTypes, Upstream!Upstream
<1>1. CASE v \notin Tags
  <2>1. download' = [download EXCEPT !.step = "failed"]
    BY <1>1 DEF Upstream!Resolved, Upstream!Fail
  <2>2. download' \in Downloading /\ download'.step = "failed"
    BY <1>0, <2>1 DEF Downloading, ReleaseSteps
  <2>3. download'.archive = download.archive
    BY <1>0, <2>1 DEF Downloading
  <2> QED
    BY <1>0, <2>2, <2>3 DEF ReleaseInv, ReleaseTypes, Covered, Resolvedly, Summed, Checked
<1>2. CASE v \in Tags
  <2> DEFINE step == IF download.tool.algorithm = "commit" THEN "commit" ELSE "archive"
  <2>1. download' = [download EXCEPT !.step = step, !.version = v, !.sum = sum, !.got = <<>>,
                                     !.lasting = lasting, !.tries = 1, !.page = 1]
    BY <1>2 DEF Upstream!Resolved
  <2>2. step \in {"commit", "archive"}
    OBVIOUS
  <2>3. 1 \in 1 .. MaxTries /\ <<>> \in Seq(Entry)
    BY ReleaseFacts
  <2> HIDE DEF step
  <2>4. /\ download' \in Downloading /\ download'.step = step /\ download'.version = v
        /\ download'.sum = sum /\ download'.lasting = lasting
        /\ download'.tool = download.tool /\ download'.request = download.request
        /\ download'.steady = download.steady /\ download'.archive = download.archive
    <3>1. /\ download'.step = step /\ download'.version = v /\ download'.sum = sum
          /\ download'.lasting = lasting /\ download'.tool = download.tool
          /\ download'.request = download.request /\ download'.steady = download.steady
          /\ download'.archive = download.archive
      BY <1>0, <2>1 DEF Downloading
    <3>2. step \in ReleaseSteps /\ 1 \in Nat \ {0}
      BY <2>2 DEF ReleaseSteps
    <3>3. download' \in Downloading
      BY <1>0, <2>1, <2>3, <3>2 DEF Downloading
    <3> QED
      BY <3>1, <3>3
  <2>5. ReleaseTypes'
    BY <1>0, <2>4 DEF ReleaseInv, ReleaseTypes
  <2>6. Covered' /\ Resolvedly'
    BY <1>2, <2>2, <2>4 DEF Covered, Resolvedly
  <2>7. Summed'
    BY <2>2, <2>4 DEF ReleaseInv, Summed, Checked
  <2> QED
    BY <2>5, <2>6, <2>7 DEF ReleaseInv
<1> QED
  BY <1>1, <1>2

\* The best of a list is no older than any of them that answers the request.
LEMMA Selecting ==
  ASSUME NEW s, NEW r, NEW mode, NEW i \in Upstream!Selected(s, r, mode)
  PROVE  /\ i \in DOMAIN s /\ Upstream!Candidate(s[i], r, mode)
         /\ \A j \in DOMAIN s : Upstream!Candidate(s[j], r, mode) => ~Upstream!Newer(s[j], s[i])
BY DEF Upstream!Selected

LEMMA Answering ==
  \A v, r, mode : Upstream!Candidate(v, r, mode) => Upstream!Matches(v, r)
BY DEF Upstream!Candidate, Upstream!InReleases, Upstream!InHook, Upstream!InIndex

\* The version is the request, or the newest of a list that was read in one call.
LEMMA SingleCalls ==
  ASSUME ReleaseInv, Upstream!TakeRequest \/ Upstream!ReadIndex \/ Upstream!ResolveByHook
  PROVE  ReleaseInv'
<1>0. /\ download \in Downloading /\ download.step = "resolve" /\ Upstream!Upstream
      /\ offered \in Seq(Tags) /\ copy \in [Tags -> Sums]
      /\ download.tool \in Upstream!Tool /\ download.request \in Requests
  BY DEF ReleaseInv, ReleaseTypes, Downloading, Upstream!TakeRequest, Upstream!ReadIndex,
         Upstream!ResolveByHook, Upstream!At
<1>1. CASE Upstream!TakeRequest
  <2>1. Upstream!Resolved(download.request, 0, {}) /\ download.tool.mode \in {"fixed", "tag", "index"}
    BY <1>1 DEF Upstream!TakeRequest, Upstream!Immediate, Upstream!Mode
  <2>2. ~(download.tool.algorithm = "none" /\ download.tool.told # "nothing")
    BY <1>0, <2>1, ReleaseFacts
  <2>3. Upstream!Matches(download.request, download.request)
    BY DEF Upstream!Matches
  <2> QED
    <3>1. {} \in SUBSET Tags /\ 0 \in Sums \cup {0}
      OBVIOUS
    <3> QED
      BY <1>0, <2>1, <2>2, <2>3, <3>1, Resolution
<1>2. \A t \in Upstream!Range(offered) : \E j \in DOMAIN offered : offered[j] = t
  BY DEF Upstream!Range
<1>3. Upstream!Range(offered) \in SUBSET Tags
  BY <1>0, <1>2
<1>4. ASSUME Upstream!Fail, Upstream!Upstream
      PROVE  ReleaseInv'
  <2>1. /\ download' \in Downloading /\ download'.step = "failed"
        /\ download'.archive = download.archive
    BY <1>0, <1>4 DEF Upstream!Fail, Downloading, ReleaseSteps
  <2> QED
    BY <1>4, <2>1
    DEF ReleaseInv, ReleaseTypes, Covered, Resolvedly, Summed, Checked, Upstream!Upstream
<1>5. ASSUME NEW i \in Upstream!Selected(offered, download.request, download.tool.mode)
      PROVE  /\ offered[i] \in Tags /\ Upstream!Matches(offered[i], download.request)
             /\ \A t \in Upstream!Range(offered) :
                  Upstream!Candidate(t, download.request, download.tool.mode)
                    => ~Upstream!Newer(t, offered[i])
  BY <1>0, <1>2, <1>5, Selecting, Answering
<1>6. CASE Upstream!ReadIndex
  <2>1. download.tool.mode = "index"
    BY <1>6 DEF Upstream!ReadIndex, Upstream!Mode
  <2>2. ~(download.tool.algorithm = "none" /\ download.tool.told # "nothing")
    BY <1>0, <2>1, ReleaseFacts
  <2>3. ASSUME NEW i \in Upstream!Selected(offered, download.request, download.tool.mode),
               Upstream!Resolved(offered[i], 0, Upstream!Range(offered))
        PROVE  ReleaseInv'
    BY <1>0, <1>3, <1>5, <2>2, <2>3, Resolution
  <2> QED
    BY <1>0, <1>4, <1>6, <2>3 DEF Upstream!ReadIndex, Upstream!Mode
<1>7. CASE Upstream!ResolveByHook
  <2>1. ASSUME NEW i \in Upstream!Selected(offered, download.request, download.tool.mode),
               Upstream!Resolved(offered[i], Upstream!Digest(copy[offered[i]]), Upstream!Range(offered))
        PROVE  ReleaseInv'
    <3>2. copy[offered[i]] \in Sums /\ copy[offered[i]] # 0
      BY <1>0, <1>5, <2>1 DEF Sums
    <3>1. /\ Upstream!Digest(copy[offered[i]]) \in Sums \cup {0}
          /\ download.tool.algorithm = "none" /\ download.tool.told # "nothing"
               => Upstream!Digest(copy[offered[i]]) # 0
      BY <1>0, <3>2, ReleaseFacts DEF Upstream!Digest
    <3> QED
      BY <1>0, <1>3, <1>5, <2>1, <3>1, Resolution
  <2> QED
    BY <1>0, <1>4, <1>7, <2>1 DEF Upstream!ResolveByHook, Upstream!Mode
<1> QED
  BY <1>1, <1>6, <1>7

\* The list is read page by page.
LEMMA Paging ==
  ASSUME ReleaseInv, Upstream!FetchPage
  PROVE  ReleaseInv'
<1>0. /\ download \in Downloading /\ download.step = "resolve" /\ Upstream!Upstream
      /\ offered \in Seq(Tags) /\ copy \in [Tags -> Sums] /\ Len(offered) \in Nat
      /\ download.tool.mode = "releases" /\ download.tool \in Upstream!Tool
      /\ download.page \in Nat \ {0} /\ PageSize \in Nat \ {0} /\ download.got \in Seq(Entry)
      /\ download.lasting \in SUBSET Tags
  <2>1. /\ download \in Downloading /\ offered \in Seq(Tags) /\ copy \in [Tags -> Sums]
    BY DEF ReleaseInv, ReleaseTypes
  <2>2. /\ download.step = "resolve" /\ download.tool.mode = "releases" /\ Upstream!Upstream
    BY DEF Upstream!FetchPage, Upstream!At, Upstream!Mode
  <2>3. /\ download.tool \in Upstream!Tool /\ download.page \in Nat \ {0}
        /\ download.got \in Seq(Entry) /\ download.lasting \in SUBSET Tags
    BY <2>1 DEF Downloading
  <2> QED
    BY <2>1, <2>2, <2>3, ReleaseFacts
<1> DEFINE start == (download.page - 1) * PageSize
           end == IF download.page * PageSize < Len(offered)
                  THEN download.page * PageSize ELSE Len(offered)
           page == SubSeq(offered, (download.page - 1) * PageSize + 1, end)
           fresh == [i \in DOMAIN page |-> [tag |-> page[i], copy |-> copy[page[i]]]]
           got == download.got \o fresh
           tags == [i \in DOMAIN got |-> got[i].tag]
           lasting == IF download.page = 1 THEN Upstream!Range(offered) ELSE download.lasting
           best == Upstream!Selected(tags, download.request, "releases")
<1>1. IF Len(page) = PageSize
      THEN download' = [download EXCEPT !.got = got, !.page = @ + 1, !.tries = 1,
                                        !.lasting = lasting]
      ELSE IF best = {} THEN Upstream!Fail
      ELSE \E i \in best : Upstream!Resolved(got[i].tag, Upstream!Digest(got[i].copy), lasting)
  BY <1>0 DEF Upstream!FetchPage, Upstream!Mode
<1>2. /\ start \in Nat /\ download.page * PageSize = start + PageSize
      /\ end = IF start + PageSize < Len(offered) THEN start + PageSize ELSE Len(offered)
      /\ end \in Nat /\ end <= Len(offered) /\ (download.page = 1 => start = 0)
  <2>1. \A x \in Nat \ {0}, y \in Nat \ {0} :
          /\ (x - 1) * y \in Nat /\ x * y = (x - 1) * y + y
          /\ x = 1 => (x - 1) * y = 0
    OBVIOUS
  <2>2. /\ start \in Nat /\ download.page * PageSize = start + PageSize
        /\ download.page = 1 => start = 0
    BY <1>0, <2>1
  <2>3. end = IF start + PageSize < Len(offered) THEN start + PageSize ELSE Len(offered)
    BY <2>2
  <2> HIDE DEF start, end
  <2> QED
    BY <1>0, <2>2, <2>3
<1>3. /\ page \in Seq(Tags)
      /\ Len(page) = IF start + 1 <= end THEN end - start ELSE 0
      /\ \A i \in 1 .. end - start : page[i] = offered[start + i]
  <2>1. start + 1 \in Int /\ end \in Int
    BY <1>2
  <2>2. \A i \in start + 1 .. end : offered[i] \in Tags
    BY <1>0, <1>2
  <2> HIDE DEF start, end
  <2>3. /\ SubSeq(offered, start + 1, end) \in Seq(Tags)
        /\ Len(SubSeq(offered, start + 1, end)) =
             IF start + 1 <= end THEN end - (start + 1) + 1 ELSE 0
        /\ \A i \in 1 .. end - (start + 1) + 1 :
             SubSeq(offered, start + 1, end)[i] = offered[start + 1 + i - 1]
    BY <2>1, <2>2, SubSeqProperties
  <2>4. page = SubSeq(offered, start + 1, end)
    BY DEF start, end
  <2>5. /\ end - (start + 1) + 1 = end - start
        /\ \A i \in 1 .. end - start : start + 1 + i - 1 = start + i
    BY <2>1, <1>2
  <2> HIDE DEF page
  <2> QED
    BY <2>3, <2>4, <2>5
<1> HIDE DEF page, start, end
<1>4. /\ fresh \in Seq(Entry) /\ Len(fresh) = Len(page)
      /\ \A i \in 1 .. Len(page) : fresh[i].tag = page[i]
  <2>1. \A i \in DOMAIN page : [tag |-> page[i], copy |-> copy[page[i]]] \in Entry
    BY <1>0, <1>3 DEF Entry
  <2>2. DOMAIN page = 1 .. Len(page) /\ Len(page) \in Nat
    BY <1>3
  <2> QED
    BY <2>1, <2>2
<1> HIDE DEF fresh
<1>5. /\ got \in Seq(Entry) /\ Len(got) = Len(download.got) + Len(page)
      /\ \A i \in DOMAIN download.got : i \in DOMAIN got /\ got[i] = download.got[i]
      /\ \A i \in 1 .. Len(page) :
           Len(download.got) + i \in DOMAIN got /\ got[Len(download.got) + i] = fresh[i]
  <2>1. /\ got \in Seq(Entry) /\ Len(got) = Len(download.got) + Len(fresh)
        /\ \A i \in 1 .. Len(download.got) + Len(fresh) :
             got[i] = IF i <= Len(download.got) THEN download.got[i] ELSE fresh[i - Len(download.got)]
    <3>1. \A x, y \in Seq(Entry) :
            /\ x \o y \in Seq(Entry) /\ Len(x \o y) = Len(x) + Len(y)
            /\ \A i \in 1 .. Len(x) + Len(y) :
                 (x \o y)[i] = IF i <= Len(x) THEN x[i] ELSE y[i - Len(x)]
      BY ConcatProperties
    <3> QED
      BY <1>0, <1>4, <3>1
  <2>2. Len(download.got) \in Nat /\ Len(page) \in Nat /\ DOMAIN got = 1 .. Len(got)
        /\ DOMAIN download.got = 1 .. Len(download.got)
    BY <1>0, <1>3, <2>1
  <2> HIDE DEF got
  <2>3. ASSUME NEW i \in 1 .. Len(page)
        PROVE  /\ Len(download.got) + i \in DOMAIN got
               /\ got[Len(download.got) + i] = fresh[i]
    <3>1. /\ Len(download.got) + i \in 1 .. Len(download.got) + Len(fresh)
          /\ ~(Len(download.got) + i <= Len(download.got))
          /\ Len(download.got) + i - Len(download.got) = i
      BY <1>4, <2>2
    <3>2. got[Len(download.got) + i] = fresh[Len(download.got) + i - Len(download.got)]
      BY <2>1, <3>1
    <3> QED
      BY <2>1, <2>2, <3>1, <3>2
  <2>4. ASSUME NEW i \in DOMAIN download.got
        PROVE  i \in DOMAIN got /\ got[i] = download.got[i]
    BY <1>4, <2>1, <2>2
  <2> QED
    BY <1>4, <2>1, <2>3, <2>4
<1> HIDE DEF got
<1>6. ASSUME download.steady, NEW t \in lasting
      PROVE  \/ \E j \in DOMAIN got : got[j].tag = t
             \/ \E i \in DOMAIN offered :
                   offered[i] = t /\ i > end /\ end = start + PageSize
  <2>1. \/ \E j \in DOMAIN download.got : download.got[j].tag = t
        \/ \E i \in DOMAIN offered : offered[i] = t /\ i > start
    <3>1. CASE download.page = 1
      BY <1>0, <1>2, <1>6, <3>1 DEF Upstream!Range
    <3>2. CASE download.page # 1
      <4>1. download.page > 1
        BY <1>0, <3>2
      <4> QED
        BY <1>0, <1>6, <3>2, <4>1 DEF ReleaseInv, Covered, start
    <3> QED
      BY <3>1, <3>2
  <2>2. CASE \E j \in DOMAIN download.got : download.got[j].tag = t
    BY <1>5, <2>2
  <2>3. ASSUME NEW i \in DOMAIN offered, offered[i] = t, i > start
        PROVE  \/ \E j \in DOMAIN got : got[j].tag = t
               \/ i > end /\ end = start + PageSize
    <3>1. i \in Nat /\ i <= Len(offered)
      BY <1>0
    <3>2. CASE i <= end
      <4>1. i - start \in 1 .. end - start /\ start + (i - start) = i /\ start + 1 <= end
        BY <1>2, <2>3, <3>1, <3>2
      <4>2. i - start \in 1 .. Len(page) /\ page[i - start] = t
        BY <1>3, <2>3, <4>1
      <4>3. /\ Len(download.got) + (i - start) \in DOMAIN got
            /\ got[Len(download.got) + (i - start)].tag = t
        BY <1>4, <1>5, <4>2
      <4> QED
        BY <4>3
    <3>3. CASE ~(i <= end)
      BY <1>2, <3>1, <3>3
    <3> QED
      BY <3>2, <3>3
  <2> QED
    BY <2>1, <2>2, <2>3
<1>7. lasting \in SUBSET Tags
  BY <1>0 DEF Upstream!Range
<1> HIDE DEF lasting
<1>8. CASE Len(page) = PageSize
  <2>1. download' = [download EXCEPT !.got = got, !.page = @ + 1, !.tries = 1, !.lasting = lasting]
    BY <1>1, <1>8
  <2>2. download.page + 1 \in Nat \ {0} /\ 1 \in 1 .. MaxTries
    BY <1>0, ReleaseFacts
  <2>3. /\ download'.step = "resolve" /\ download'.page = download.page + 1
        /\ download'.got = got /\ download'.lasting = lasting
        /\ download'.steady = download.steady
    BY <1>0, <2>1 DEF Downloading
  <2>4. download' \in Downloading
    BY <1>0, <1>5, <1>7, <2>1, <2>2 DEF Downloading
  <2>5. ReleaseTypes'
    BY <1>0, <2>4 DEF ReleaseInv, ReleaseTypes, Upstream!Upstream
  <2>8. download'.archive = download.archive
    BY <1>0, <2>1 DEF Downloading
  <2>6. (download'.page - 1) * PageSize = start + PageSize
    BY <1>0, <1>2, <2>3
  <2>7. Covered'
    <3> SUFFICES ASSUME download.steady, NEW t \in lasting
                 PROVE  \/ \E j \in DOMAIN got : got[j].tag = t
                        \/ \E i \in DOMAIN offered :
                              offered[i] = t /\ i > start + PageSize
      BY <1>0, <2>3, <2>6 DEF Covered, Upstream!Upstream
    <3> QED
      BY <1>6
  <2> QED
    BY <2>3, <2>5, <2>7, <2>8 DEF ReleaseInv, Resolvedly, Summed, Checked
<1>9. CASE Len(page) # PageSize
  <2>1. ASSUME download.steady, NEW t \in lasting
        PROVE  \E j \in DOMAIN got : got[j].tag = t
    <3>1. end # start + PageSize
      BY <1>0, <1>2, <1>3, <1>9
    <3> QED
      BY <1>6, <2>1, <3>1
  <2>2. CASE Upstream!Fail
    <3>1. /\ download' \in Downloading /\ download'.step = "failed"
          /\ download'.archive = download.archive
      BY <1>0, <2>2 DEF Upstream!Fail, Downloading, ReleaseSteps
    <3> QED
      BY <1>0, <3>1
      DEF ReleaseInv, ReleaseTypes, Covered, Resolvedly, Summed, Checked, Upstream!Upstream
  <2>3. ASSUME NEW i \in best,
               Upstream!Resolved(got[i].tag, Upstream!Digest(got[i].copy), lasting)
        PROVE  ReleaseInv'
    <3>1. /\ i \in DOMAIN got /\ got[i] \in Entry /\ Upstream!Matches(got[i].tag, download.request)
          /\ \A j \in DOMAIN got :
               Upstream!Candidate(got[j].tag, download.request, "releases")
                 => ~Upstream!Newer(got[j].tag, got[i].tag)
      <4>1. /\ i \in DOMAIN tags /\ Upstream!Candidate(tags[i], download.request, "releases")
            /\ \A j \in DOMAIN tags :
                 Upstream!Candidate(tags[j], download.request, "releases")
                   => ~Upstream!Newer(tags[j], tags[i])
        BY Selecting
      <4>2. DOMAIN tags = DOMAIN got /\ \A j \in DOMAIN got : tags[j] = got[j].tag
        OBVIOUS
      <4> HIDE DEF tags
      <4> QED
        BY <1>5, <4>1, <4>2, Answering
    <3>2. got[i].tag \in Tags /\ got[i].copy \in Sums /\ got[i].copy # 0
      BY <3>1 DEF Entry, Sums
    <3>3. /\ Upstream!Digest(got[i].copy) \in Sums \cup {0}
          /\ download.tool.algorithm = "none" /\ download.tool.told # "nothing"
               => Upstream!Digest(got[i].copy) # 0
      BY <1>0, <3>2, ReleaseFacts DEF Upstream!Digest
    <3>4. download.steady =>
            \A t \in lasting :
              Upstream!Candidate(t, download.request, download.tool.mode)
                => ~Upstream!Newer(t, got[i].tag)
      BY <1>0, <2>1, <3>1
    <3> QED
      BY <1>0, <1>7, <2>3, <3>1, <3>2, <3>3, <3>4, Resolution
  <2> QED
    BY <1>1, <1>9, <2>2, <2>3
<1> QED
  BY <1>8, <1>9

\* A step of the download that finds no other version.
Fetched(step, sum, archive, tries) ==
  /\ step \in ReleaseSteps /\ sum \in Sums \cup {0} /\ archive \in Archives
  /\ tries \in 1 .. MaxTries
  /\ download' = [download EXCEPT !.step = step, !.sum = sum, !.archive = archive,
                                  !.tries = tries]
  /\ step = "failed" \/ download.step # "failed"
  /\ step = "failed" \/ (step = "resolve" <=> download.step = "resolve")
  /\ Checked(download.tool, step, sum, archive)

LEMMA Fetching ==
  ASSUME ReleaseInv, Upstream!Upstream, NEW step, NEW sum, NEW archive, NEW tries,
         Fetched(step, sum, archive, tries)
  PROVE  ReleaseInv'
<1>0. download \in Downloading /\ UNCHANGED <<offered, copy, news>>
  BY DEF ReleaseInv, ReleaseTypes, Upstream!Upstream
<1>1. /\ download'.step = step /\ download'.sum = sum /\ download'.archive = archive
      /\ download'.version = download.version /\ download'.request = download.request
      /\ download'.tool = download.tool /\ download'.lasting = download.lasting
      /\ download'.steady = download.steady /\ download'.page = download.page
      /\ download'.got = download.got
  BY <1>0 DEF Downloading, Fetched
<1>2. ReleaseTypes'
  <2>1. download' \in Downloading
    BY <1>0 DEF Downloading, Fetched
  <2> QED
    BY <1>0, <2>1 DEF ReleaseInv, ReleaseTypes
<1>3. Covered'
  BY <1>0, <1>1 DEF ReleaseInv, Covered, Fetched
<1>4. Resolvedly' /\ Summed'
  BY <1>0, <1>1 DEF ReleaseInv, Resolvedly, Summed, Fetched
<1> QED
  BY <1>2, <1>3, <1>4 DEF ReleaseInv

LEMMA Downloads ==
  ASSUME ReleaseInv,
         \/ Upstream!Refuse
         \/ Upstream!ResolveCommit
         \/ Upstream!FetchArchive
         \/ Upstream!FetchChecksum
         \/ Upstream!VerifyChecksum
         \/ Upstream!Unwrap
         \/ Upstream!VerifyCommit
         \/ Upstream!TryAgain
         \/ Upstream!GiveUp
  PROVE  ReleaseInv'
<1>0. /\ download \in Downloading /\ download.tool \in Upstream!Tool
      /\ download.sum \in Sums \cup {0} /\ download.archive \in Archives
      /\ download.tries \in 1 .. MaxTries /\ copy \in [Tags -> Sums]
      /\ download.step \in ReleaseSteps
      /\ Checked(download.tool, download.step, download.sum, download.archive)
      /\ download.step \notin {"resolve", "failed"} => download.version \in Tags
  <2>1. download \in Downloading /\ copy \in [Tags -> Sums]
    BY DEF ReleaseInv, ReleaseTypes
  <2>2. /\ Checked(download.tool, download.step, download.sum, download.archive)
        /\ download.step \notin {"resolve", "failed"} => download.version \in Tags
    BY DEF ReleaseInv, Summed, Resolvedly
  <2> QED
    BY <2>1, <2>2 DEF Downloading
<1>1. ASSUME Upstream!Fail, Upstream!Upstream
      PROVE  ReleaseInv'
  <2>1. download' = [download EXCEPT !.step = "failed", !.sum = download.sum,
                                     !.archive = download.archive, !.tries = download.tries]
    BY <1>0, <1>1 DEF Upstream!Fail, Downloading
  <2>2. "failed" \in ReleaseSteps
    BY DEF ReleaseSteps
  <2>3. Fetched("failed", download.sum, download.archive, download.tries)
    BY <1>0, <2>1, <2>2 DEF Fetched, Checked
  <2> QED
    BY <1>1, <2>3, Fetching
<1>2. CASE Upstream!TryAgain
  <2>1. download.tries + 1 \in 1 .. MaxTries /\ download.step # "failed"
    BY <1>0, <1>2, ReleaseFacts DEF Upstream!TryAgain, Upstream!Calling, Upstream!At
  <2>2. download' = [download EXCEPT !.step = download.step, !.sum = download.sum,
                               !.archive = download.archive, !.tries = download.tries + 1]
    BY <1>0, <1>2 DEF Upstream!TryAgain, Downloading
  <2>3. Fetched(download.step, download.sum, download.archive, download.tries + 1)
    BY <1>0, <2>1, <2>2 DEF Fetched
  <2> QED
    BY <1>2, <2>3, Fetching DEF Upstream!TryAgain
<1>3. CASE Upstream!ResolveCommit
  <2>1. download.step = "commit" /\ Upstream!Upstream
    BY <1>3 DEF Upstream!ResolveCommit, Upstream!At
  <2>2. /\ copy[download.version] \in Sums /\ copy[download.version] # 0
        /\ 1 \in 1 .. MaxTries /\ "archive" \in ReleaseSteps
    BY <1>0, <2>1, ReleaseFacts DEF Sums, ReleaseSteps
  <2>3. ASSUME download' = [download EXCEPT !.step = "archive", !.sum = copy[download.version],
                                            !.tries = 1]
        PROVE  ReleaseInv'
    <3>1. download' = [download EXCEPT !.step = "archive", !.sum = copy[download.version],
                                       !.archive = download.archive, !.tries = 1]
      BY <1>0, <2>3 DEF Downloading
    <3>2. Fetched("archive", copy[download.version], download.archive, 1)
      BY <1>0, <2>1, <2>2, <3>1 DEF Fetched, Checked
    <3> QED
      BY <2>1, <3>2, Fetching
  <2> QED
    BY <1>1, <1>3, <2>1, <2>3 DEF Upstream!ResolveCommit
<1>4. CASE Upstream!FetchArchive
  <2>1. /\ download.step = "archive" /\ Upstream!Upstream
    BY <1>4 DEF Upstream!FetchArchive, Upstream!At
  <2> DEFINE step == IF download.tool.url /\ download.sum = 0 THEN "sum" ELSE "verify"
  <2>2. PICK a \in Archives : /\ download' = [download EXCEPT !.archive = a, !.step = step]
                              /\ a.content \in {Damaged, a.comment}
    <3>1. copy[download.version] \in Sums
      BY <1>0, <2>1
    <3>2. \A a \in Upstream!Arriving(copy[download.version]) :
            a \in Archives /\ a.content \in {Damaged, a.comment}
      BY <3>1 DEF Upstream!Arriving, Archives
    <3> QED
      BY <1>4, <3>2 DEF Upstream!FetchArchive
  <2>3. download' = [download EXCEPT !.step = step, !.sum = download.sum, !.archive = a,
                                     !.tries = download.tries]
    BY <1>0, <2>2 DEF Downloading
  <2>4. step \in {"sum", "verify"} /\ step \in ReleaseSteps
    BY DEF ReleaseSteps
  <2> HIDE DEF step
  <2>5. Fetched(step, download.sum, a, download.tries)
    BY <1>0, <2>1, <2>2, <2>3, <2>4 DEF Fetched, Checked
  <2> QED
    BY <2>1, <2>5, Fetching
<1>5. CASE Upstream!FetchChecksum
  <2>1. download.step = "sum" /\ Upstream!Upstream
    BY <1>5 DEF Upstream!FetchChecksum, Upstream!At
  <2>2. /\ copy[download.version] \in Sums /\ copy[download.version] # 0
        /\ "verify" \in ReleaseSteps
    BY <1>0, <2>1 DEF Sums, ReleaseSteps
  <2>3. ASSUME download' = [download EXCEPT !.step = "verify", !.sum = copy[download.version]]
        PROVE  ReleaseInv'
    <3>1. download' = [download EXCEPT !.step = "verify", !.sum = copy[download.version],
                                       !.archive = download.archive, !.tries = download.tries]
      BY <1>0, <2>3 DEF Downloading
    <3>2. Fetched("verify", copy[download.version], download.archive, download.tries)
      BY <1>0, <2>1, <2>2, <3>1 DEF Fetched, Checked
    <3> QED
      BY <2>1, <3>2, Fetching
  <2> QED
    BY <1>1, <1>5, <2>1, <2>3 DEF Upstream!FetchChecksum
<1>6. ASSUME NEW step \in {"unwrap", "cached"}, download' = [download EXCEPT !.step = step],
             download.step \in {"verify", "unwrap"}, Upstream!Upstream,
             Checked(download.tool, step, download.sum, download.archive)
      PROVE  ReleaseInv'
  <2>1. download' = [download EXCEPT !.step = step, !.sum = download.sum,
                                     !.archive = download.archive, !.tries = download.tries]
    BY <1>0, <1>6 DEF Downloading
  <2>2. step \in ReleaseSteps
    BY <1>6 DEF ReleaseSteps
  <2>3. Fetched(step, download.sum, download.archive, download.tries)
    BY <1>0, <1>6, <2>1, <2>2 DEF Fetched
  <2> QED
    BY <1>6, <2>3, Fetching
<1>7. CASE Upstream!VerifyChecksum
  <2>1. download.step = "verify" /\ download.tool.algorithm # "commit" /\ Upstream!Upstream
    BY <1>7 DEF Upstream!VerifyChecksum, Upstream!At
  <2>2. ASSUME Upstream!Verified \/ (download.sum = 0 /\ download.tool.algorithm = "none")
        PROVE  Checked(download.tool, "unwrap", download.sum, download.archive)
    BY <1>0, <2>1, <2>2 DEF Checked, Upstream!Verified
  <2> QED
    BY <1>1, <1>6, <1>7, <2>1, <2>2 DEF Upstream!VerifyChecksum
<1>8. CASE Upstream!Unwrap
  <2>1. download.step = "unwrap" /\ Upstream!Upstream
    BY <1>8 DEF Upstream!Unwrap, Upstream!At
  <2>2. Checked(download.tool, "cached", download.sum, download.archive)
    BY <1>0, <2>1 DEF Checked
  <2> QED
    BY <1>1, <1>6, <1>8, <2>1, <2>2 DEF Upstream!Unwrap
<1>9. CASE Upstream!VerifyCommit
  <2>1. download.step = "verify" /\ download.tool.algorithm = "commit" /\ Upstream!Upstream
    BY <1>9 DEF Upstream!VerifyCommit, Upstream!At
  <2>2. ASSUME download.archive.comment = download.sum
        PROVE  Checked(download.tool, "cached", download.sum, download.archive)
    BY <1>0, <2>1, <2>2 DEF Checked
  <2> QED
    BY <1>1, <1>6, <1>9, <2>1, <2>2 DEF Upstream!VerifyCommit
<1>10. CASE Upstream!Refuse \/ Upstream!GiveUp
  BY <1>1, <1>10 DEF Upstream!Refuse, Upstream!GiveUp
<1> QED
  BY <1>2, <1>3, <1>4, <1>5, <1>7, <1>8, <1>9, <1>10

LEMMA ReleaseStep == ReleaseInv /\ [Upstream!ReleaseNext]_releaseVars => ReleaseInv'
<1>1. ASSUME ReleaseInv, UNCHANGED releaseVars
      PROVE  ReleaseInv'
  BY <1>1 DEF ReleaseInv, ReleaseTypes, Covered, Resolvedly, Summed, releaseVars
<1>2. ASSUME ReleaseInv, Upstream!Download
      PROVE  ReleaseInv'
  BY <1>2, SingleCalls, Paging, Downloads DEF Upstream!Download
<1>3. ASSUME ReleaseInv, Upstream!ReleaseNext
      PROVE  ReleaseInv'
  BY <1>2, <1>3, UpstreamSteps DEF Upstream!ReleaseNext
<1> QED
  BY <1>1, <1>3

LEMMA ReleaseFollows == ReleaseInv => Upstream!NewestAndVerified
<1> SUFFICES ASSUME ReleaseInv, download.step = "cached"
             PROVE  /\ Upstream!Matches(download.version, download.request)
                    /\ download.version \in Tags
                    /\ IF download.tool.algorithm = "commit"
                       THEN /\ download.archive.comment = download.sum
                            /\ download.archive.content \in {download.sum, Damaged}
                       ELSE \/ Upstream!Verified
                            \/ download.tool.algorithm = "none" /\ download.tool.told = "nothing"
                    /\ download.steady =>
                         \A t \in download.lasting :
                           Upstream!Candidate(t, download.request, download.tool.mode)
                             => ~Upstream!Newer(t, download.version)
  BY DEF Upstream!NewestAndVerified, Upstream!At, Upstream!Mode
<1>1. /\ Upstream!Matches(download.version, download.request) /\ download.version \in Tags
      /\ download.steady =>
           \A t \in download.lasting :
             Upstream!Candidate(t, download.request, download.tool.mode)
               => ~Upstream!Newer(t, download.version)
  BY DEF ReleaseInv, Resolvedly
<1>2. Checked(download.tool, "cached", download.sum, download.archive)
  BY DEF ReleaseInv, Summed
<1>3. /\ download.tool.algorithm = "commit" =>
           /\ download.archive.comment = download.sum
           /\ download.archive.content \in {download.sum, Damaged}
      /\ download.tool.algorithm # "commit" =>
           \/ Upstream!Verified
           \/ download.tool.algorithm = "none" /\ download.tool.told = "nothing"
  BY <1>2 DEF Checked, Upstream!Verified
<1> QED
  BY <1>1, <1>3

-----------------------------------------------------------------------------
(* The packages.  The record file, or what a command has read of it while it is away,     *)
(* says who brought what; a package that is not being worked on is in its place.          *)

PeclSteps ==
  {"idle", "module", "putmodule", "library", "putlibrary", "unlist", "list", "sweep",
   "next", "reread", "delete", "config", "sync"}
Releases == Release \cup {NoRelease}
Contents == {Pecl!Content(v) : v \in Release}
Contained == UNION {[D -> Contents] : D \in SUBSET Pecl!Artifact}
Listing == [version : Releases, files : Contained]
Extending ==
  [step : PeclSteps, kind : {"none", "install", "remove", "provision"},
   package : Pecl!Artifact, version : Releases, wanted : [Package -> Releases],
   seen : [Package -> Listing], modules : SUBSET Package, done : Contained,
   todo : SUBSET Pecl!Artifact, marred : BOOLEAN]

PeclTypes ==
  /\ configured \in [Package -> Releases]
  /\ folder \in [Pecl!Artifact -> {Pecl!Absent, Pecl!Foreign} \cup Contents]
  /\ records \in [Package -> Listing] /\ enabled \subseteq Package
  /\ extension \in Extending
  /\ events \in 0 .. MaxEvents /\ settled \in BOOLEAN

\* A record is of one version of its package, and lists its module.
ListsOwn(p, r) ==
  \/ r = Pecl!NoRecord
  \/ /\ r.version \in Release /\ p \in DOMAIN r.files /\ DOMAIN r.files \subseteq {p, Shared}
     /\ \A f \in DOMAIN r.files : r.files[f] = Pecl!Content(r.version)
ListsInv ==
  \A p \in Package : ListsOwn(p, records[p]) /\ ListsOwn(p, extension.seen[p])

Installing == {"module", "putmodule", "library", "putlibrary", "sweep"}
Listed == {"library", "putlibrary", "unlist", "list", "sweep"}
Working == Installing \cup {"reread", "unlist", "list", "delete", "config"}

\* What a command is at: what it has put into place, and what it has read.
WorkInv ==
  /\ extension.step = "idle" => extension = Pecl!NoExtension
  /\ extension.step # "idle" => extension.kind # "none"
  /\ extension.step \in Working =>
       /\ extension.package \in Package
       /\ extension.kind = "provision" => /\ extension.package \notin extension.todo
                                          /\ extension.version = extension.wanted[extension.package]
  /\ extension.step \in Installing => extension.kind # "remove"
  /\ extension.step \in {"next", "reread"} => extension.kind = "provision"
  /\ extension.step = "delete" =>
       extension.kind = "remove" /\ extension.todo \subseteq {extension.package, Shared}
  /\ extension.step = "config" => extension.kind # "provision"
  /\ extension.step \in Working /\ extension.kind # "remove" => extension.version \in Release
  /\ extension.kind = "remove" =>
       extension.version = NoRelease /\ DOMAIN extension.done = {}
  /\ extension.step \in {"next", "reread", "module", "putmodule"} => DOMAIN extension.done = {}
  /\ extension.step \in Listed /\ extension.kind # "remove" =>
       ListsOwn(extension.package, [version |-> extension.version, files |-> extension.done])
  /\ extension.kind = "provision" =>
       /\ extension.todo \subseteq {p \in Package : extension.wanted[p] # NoRelease}
       /\ extension.step = "sync" => extension.todo = {}
       /\ extension.step \in {"next", "reread", "sweep"} =>
            \A p \in extension.todo : extension.seen[p] = records[p]
SeenInv ==
  /\ extension.step \in {"module", "putmodule", "library", "putlibrary", "unlist", "delete"} =>
       extension.seen = records
  /\ extension.step = "sweep" =>
       records = [extension.seen EXCEPT ![extension.package] =
                    [version |-> extension.version, files |-> extension.done]]
  /\ extension.step = "config" /\ extension.kind = "install" =>
       records[extension.package] # Pecl!NoRecord

\* The records, of which the file is away for a moment.
Known == IF extension.step = "list" THEN extension.seen ELSE records

Pending ==
  (IF extension.step \in Working THEN {extension.package} ELSE {}) \cup
  (IF extension.kind = "provision" THEN extension.todo ELSE {})

InPlace(p) ==
  /\ Known[p] # Pecl!NoRecord /\ folder[p] = Pecl!Content(configured[p])
  /\ extension.step # "putlibrary" /\ Shared \in DOMAIN Known[p].files =>
       folder[Shared] # Pecl!Absent

\* What holds when no command was disturbed since the last polka install that was not.
PlaceInv ==
  (settled \/ extension.kind = "provision") /\ ~extension.marred =>
    /\ extension.kind = "provision" => extension.wanted = configured
    /\ \A p \in Package \ Pending : configured[p] # NoRelease => InPlace(p)
    /\ extension.step \in Listed /\ extension.kind # "remove" =>
         folder[extension.package] = Pecl!Content(extension.version)
    /\ extension.step \in {"unlist", "list", "sweep"} /\ Shared \in DOMAIN extension.done =>
         folder[Shared] # Pecl!Absent
    /\ extension.step = "config" /\ extension.kind = "install" =>
         /\ folder[extension.package] = Pecl!Content(extension.version)
         /\ Shared \in DOMAIN records[extension.package].files => folder[Shared] # Pecl!Absent
    /\ extension.step = "idle" => enabled = {p \in Package : configured[p] # NoRelease}

PeclInv == PeclTypes /\ ListsInv /\ WorkInv /\ SeenInv /\ PlaceInv

LEMMA PeclFacts ==
  /\ Shared \notin Package /\ NoRelease \notin Release /\ MaxEvents \in Nat
  /\ Pecl!Artifact = Package \cup {Shared}
  /\ \A v \in Release : Pecl!Content(v) \notin {Pecl!Absent, Pecl!Foreign}
  /\ \A v, w : Pecl!Content(v) = Pecl!Content(w) => v = w
  /\ Pecl!NoRecord.version = NoRelease /\ DOMAIN Pecl!NoRecord.files = {}
  /\ Pecl!NoRecord \in Listing /\ Pecl!NoRecord.files \in Contained
  /\ Pecl!NoRecords \in [Package -> Listing] /\ \A p \in Package : Pecl!NoRecords[p] = Pecl!NoRecord
<1>1. Shared \notin Package /\ NoRelease \notin Release /\ MaxEvents \in Nat
  BY PartsAssumption DEF Pecl!PeclAssumption
<1>2. \A v : Pecl!Content(v).by = "package" /\ Pecl!Content(v).release = v
  BY DEF Pecl!Content
<1>3. Pecl!Absent.by = "nobody" /\ Pecl!Foreign.by = "user"
  BY DEF Pecl!Absent, Pecl!Foreign
<1>4. \A v \in Release : Pecl!Content(v) \notin {Pecl!Absent, Pecl!Foreign}
  BY <1>2, <1>3
<1>5. \A v, w : Pecl!Content(v) = Pecl!Content(w) => v = w
  BY <1>2
<1>6. PICK none : none = [f \in {} |-> Pecl!Absent]
  OBVIOUS
<1>7. DOMAIN none = {} /\ none \in [{} -> Contents]
  BY <1>6
<1>8. none \in Contained
  BY <1>7 DEF Contained
<1>9. Pecl!NoRecord = [version |-> NoRelease, files |-> none]
  BY <1>6 DEF Pecl!NoRecord
<1>10. Pecl!NoRecord.version = NoRelease /\ Pecl!NoRecord.files = none
  BY <1>9
<1>11. Pecl!NoRecord \in Listing
  BY <1>8, <1>9 DEF Listing, Releases
<1>12. /\ Pecl!NoRecords \in [Package -> Listing]
       /\ \A p \in Package : Pecl!NoRecords[p] = Pecl!NoRecord
  BY <1>11 DEF Pecl!NoRecords
<1>13. Pecl!Artifact = Package \cup {Shared}
  BY DEF Pecl!Artifact
<1> QED
  BY <1>1, <1>4, <1>5, <1>7, <1>8, <1>10, <1>11, <1>12, <1>13

LEMMA NoExtensionFacts ==
  /\ Pecl!NoExtension \in Extending
  /\ Pecl!NoExtension.step = "idle" /\ Pecl!NoExtension.kind = "none"
  /\ Pecl!NoExtension.seen = Pecl!NoRecords /\ Pecl!NoExtension.todo = {}
  /\ Pecl!NoExtension.marred = FALSE /\ Pecl!NoExtension.done = Pecl!NoRecord.files
  /\ Pecl!NoExtension.version = NoRelease /\ Pecl!NoExtension.package = Shared
<1>1. PICK none : none = Pecl!NoRecord.files
  OBVIOUS
<1>2. PICK empty : empty = Pecl!NoRecords
  OBVIOUS
<1>3. PICK unwanted : unwanted = Pecl!Unconfigured
  OBVIOUS
<1>4. unwanted \in [Package -> Releases]
  BY <1>3 DEF Pecl!Unconfigured, Releases
<1>5. /\ none \in Contained /\ empty \in [Package -> Listing]
      /\ Shared \in Pecl!Artifact /\ NoRelease \in Releases
  BY <1>1, <1>2, PeclFacts DEF Releases
<1>6. Pecl!NoExtension = [step |-> "idle", kind |-> "none", package |-> Shared,
                          version |-> NoRelease, wanted |-> unwanted, seen |-> empty,
                          modules |-> {}, done |-> none, todo |-> {}, marred |-> FALSE]
  BY <1>1, <1>2, <1>3 DEF Pecl!NoExtension
<1>7. Pecl!NoExtension \in Extending
  BY <1>4, <1>5, <1>6 DEF Extending, PeclSteps
<1> QED
  BY <1>1, <1>2, <1>6, <1>7

LEMMA PeclStart == Pecl!PeclInit => PeclInv
<1> SUFFICES ASSUME Pecl!PeclInit PROVE PeclInv
  OBVIOUS
<1>1. /\ configured = Pecl!Unconfigured /\ folder = [f \in Pecl!Artifact |-> Pecl!Absent]
      /\ records = Pecl!NoRecords /\ enabled = {} /\ extension = Pecl!NoExtension
      /\ events = 0 /\ settled = FALSE
  BY DEF Pecl!PeclInit
<1>2. PeclTypes
  <2>1. configured \in [Package -> Releases]
    BY <1>1 DEF Pecl!Unconfigured, Releases
  <2>2. folder \in [Pecl!Artifact -> {Pecl!Absent, Pecl!Foreign} \cup Contents]
    BY <1>1
  <2>3. events \in 0 .. MaxEvents
    <3>1. events = 0 /\ MaxEvents \in Nat
      BY <1>1, PeclFacts
    <3> QED
      BY <3>1
  <2>4. settled \in BOOLEAN
    BY <1>1
  <2> QED
    BY <1>1, <2>1, <2>2, <2>3, <2>4, PeclFacts, NoExtensionFacts DEF PeclTypes
<1>3. ListsInv
  BY <1>1, PeclFacts, NoExtensionFacts DEF ListsInv, ListsOwn
<1>4. WorkInv
  BY <1>1, NoExtensionFacts DEF WorkInv, Working, Installing, Listed
<1>5. SeenInv /\ PlaceInv
  BY <1>1, NoExtensionFacts DEF SeenInv, PlaceInv
<1> QED
  BY <1>2, <1>3, <1>4, <1>5 DEF PeclInv

\* The command ends and is no longer what was settled.
LEMMA PeclFails ==
  ASSUME PeclInv, Pecl!Fail, UNCHANGED <<configured, records, enabled>>,
         folder' \in [Pecl!Artifact -> {Pecl!Absent, Pecl!Foreign} \cup Contents],
         events' \in 0 .. MaxEvents
  PROVE  PeclInv'
<1>1. extension' = Pecl!NoExtension /\ settled' = FALSE
  BY DEF Pecl!Fail
<1>2. PeclTypes'
  BY <1>1, NoExtensionFacts DEF PeclInv, PeclTypes
<1>3. ListsInv'
  BY <1>1, PeclFacts, NoExtensionFacts DEF PeclInv, ListsInv, ListsOwn
<1>4. WorkInv'
  BY <1>1, NoExtensionFacts DEF WorkInv, Working, Installing, Listed
<1>5. SeenInv' /\ PlaceInv'
  BY <1>1, NoExtensionFacts DEF SeenInv, PlaceInv
<1> QED
  BY <1>2, <1>3, <1>4, <1>5 DEF PeclInv

\* The command goes on.
LEMMA PeclGoes ==
  ASSUME PeclInv, NEW label \in PeclSteps, Pecl!Then(label)
  PROVE  /\ extension' \in Extending /\ extension'.step = label
         /\ extension'.kind = extension.kind /\ extension'.package = extension.package
         /\ extension'.version = extension.version /\ extension'.wanted = extension.wanted
         /\ extension'.seen = extension.seen /\ extension'.modules = extension.modules
         /\ extension'.done = extension.done /\ extension'.todo = extension.todo
         /\ extension'.marred = extension.marred
<1>1. extension \in Extending /\ extension' = [extension EXCEPT !.step = label]
  BY DEF PeclInv, PeclTypes, Pecl!Then
<1> QED
  BY <1>1 DEF Extending

\* A command begins.
LEMMA PeclBegins ==
  ASSUME PeclInv, NEW kind \in {"install", "remove", "provision"},
         NEW label \in {"module", "delete", "next"}, NEW p \in Pecl!Artifact, NEW v \in Releases,
         NEW todo \in SUBSET Pecl!Artifact, Pecl!Command(kind, label, p, v, todo)
  PROVE  /\ extension = Pecl!NoExtension /\ UNCHANGED <<configured, folder, records, enabled>>
         /\ UNCHANGED <<events, settled>>
         /\ extension' \in Extending /\ extension'.step = label /\ extension'.kind = kind
         /\ extension'.package = p /\ extension'.version = v /\ extension'.todo = todo
         /\ extension'.wanted = configured /\ extension'.seen = records
         /\ extension'.done = Pecl!NoRecord.files /\ extension'.marred = FALSE
         /\ PeclTypes' /\ ListsInv'
<1>1. extension = Pecl!NoExtension
  BY DEF Pecl!Command, Pecl!Doing, PeclInv, WorkInv
<1>2. UNCHANGED <<configured, folder, records, enabled, events, settled>>
  BY DEF Pecl!Command, Pecl!Storage, Pecl!Steady
<1>3. PICK loaded : loaded = Pecl!Loaded
  OBVIOUS
<1>4. loaded \subseteq Package /\ configured \in [Package -> Releases]
      /\ records \in [Package -> Listing] /\ label \in PeclSteps
  BY <1>3 DEF Pecl!Loaded, PeclInv, PeclTypes, PeclSteps
<1>5. extension' = [Pecl!NoExtension EXCEPT !.kind = kind, !.step = label, !.package = p,
                      !.version = v, !.wanted = configured, !.seen = records,
                      !.modules = loaded, !.todo = todo]
  BY <1>3 DEF Pecl!Command
<1>6. /\ extension' \in Extending /\ extension'.step = label /\ extension'.kind = kind
      /\ extension'.package = p /\ extension'.version = v /\ extension'.todo = todo
      /\ extension'.wanted = configured /\ extension'.seen = records
      /\ extension'.done = Pecl!NoExtension.done /\ extension'.marred = Pecl!NoExtension.marred
  BY <1>4, <1>5, NoExtensionFacts DEF Extending
<1>7. PeclTypes'
  BY <1>2, <1>6 DEF PeclInv, PeclTypes
<1>8. ListsInv'
  BY <1>2, <1>6 DEF PeclInv, ListsInv, ListsOwn
<1> QED
  BY <1>1, <1>2, <1>6, <1>7, <1>8, NoExtensionFacts

LEMMA InstallExtensionStep == PeclInv /\ Pecl!InstallExtension => PeclInv'
<1> SUFFICES ASSUME PeclInv, Pecl!InstallExtension PROVE PeclInv'
  OBVIOUS
<1>1. PICK p \in Package, v \in Release : Pecl!Command("install", "module", p, v, {})
  BY DEF Pecl!InstallExtension
<1>2. p \in Pecl!Artifact /\ v \in Releases /\ {} \in SUBSET Pecl!Artifact
  BY PeclFacts DEF Releases
<1>3. /\ extension = Pecl!NoExtension /\ UNCHANGED <<configured, folder, records, enabled>>
      /\ UNCHANGED <<events, settled>>
      /\ extension'.step = "module" /\ extension'.kind = "install"
      /\ extension'.package = p /\ extension'.version = v /\ extension'.todo = {}
      /\ extension'.seen = records
      /\ extension'.done = Pecl!NoRecord.files /\ extension'.marred = FALSE
      /\ PeclTypes' /\ ListsInv'
  BY <1>1, <1>2, PeclBegins
<1>4. WorkInv'
  BY <1>3, PeclFacts DEF WorkInv, Working, Installing, Listed
<1>5. SeenInv'
  BY <1>3 DEF SeenInv
<1>6. PlaceInv'
  BY <1>3, NoExtensionFacts
  DEF PeclInv, PlaceInv, Pending, InPlace, Known, Working, Installing, Listed
<1> QED
  BY <1>3, <1>4, <1>5, <1>6 DEF PeclInv

LEMMA RemoveExtensionStep == PeclInv /\ Pecl!RemoveExtension => PeclInv'
<1> SUFFICES ASSUME PeclInv, Pecl!RemoveExtension PROVE PeclInv'
  OBVIOUS
<1>1. PICK p \in Package :
        Pecl!Command("remove", "delete", p, NoRelease, DOMAIN records[p].files)
  BY DEF Pecl!RemoveExtension
<1>2. PICK todo : todo = DOMAIN records[p].files
  OBVIOUS
<1>3. todo \subseteq {p, Shared} /\ p \in Pecl!Artifact /\ NoRelease \in Releases
      /\ todo \in SUBSET Pecl!Artifact
  BY <1>2, PeclFacts DEF PeclInv, ListsInv, ListsOwn, Releases
<1>4. Pecl!Command("remove", "delete", p, NoRelease, todo)
  BY <1>1, <1>2
<1>5. /\ extension = Pecl!NoExtension /\ UNCHANGED <<configured, folder, records, enabled>>
      /\ UNCHANGED <<events, settled>>
      /\ extension'.step = "delete" /\ extension'.kind = "remove"
      /\ extension'.package = p /\ extension'.version = NoRelease /\ extension'.todo = todo
      /\ extension'.seen = records
      /\ extension'.done = Pecl!NoRecord.files /\ extension'.marred = FALSE
      /\ PeclTypes' /\ ListsInv'
  BY <1>3, <1>4, PeclBegins
<1>6. WorkInv'
  BY <1>3, <1>5, PeclFacts DEF WorkInv, Working, Installing, Listed
<1>7. SeenInv'
  BY <1>5 DEF SeenInv
<1>8. PlaceInv'
  BY <1>5, NoExtensionFacts
  DEF PeclInv, PlaceInv, Pending, InPlace, Known, Working, Installing, Listed
<1> QED
  BY <1>5, <1>6, <1>7, <1>8 DEF PeclInv

LEMMA ProvisionStep == PeclInv /\ Pecl!ProvisionPackages => PeclInv'
<1> SUFFICES ASSUME PeclInv, Pecl!ProvisionPackages PROVE PeclInv'
  OBVIOUS
<1>1. PICK todo : todo = {p \in Package : configured[p] # NoRelease}
  OBVIOUS
<1>2. Pecl!Command("provision", "next", Shared, NoRelease, todo)
  BY <1>1 DEF Pecl!ProvisionPackages
<1>3. Shared \in Pecl!Artifact /\ NoRelease \in Releases /\ todo \in SUBSET Pecl!Artifact
  BY <1>1, PeclFacts DEF Releases
<1>4. /\ extension = Pecl!NoExtension /\ UNCHANGED <<configured, folder, records, enabled>>
      /\ UNCHANGED <<events, settled>>
      /\ extension'.step = "next" /\ extension'.kind = "provision"
      /\ extension'.todo = todo /\ extension'.wanted = configured
      /\ extension'.seen = records /\ extension'.marred = FALSE
      /\ extension'.done = Pecl!NoRecord.files
      /\ PeclTypes' /\ ListsInv'
  BY <1>2, <1>3, PeclBegins
<1>5. WorkInv'
  BY <1>1, <1>4, PeclFacts DEF WorkInv, Working, Installing, Listed
<1>6. SeenInv'
  BY <1>4 DEF SeenInv
<1>7. PlaceInv'
  BY <1>1, <1>4 DEF PlaceInv, Pending, Working, Installing, Listed
<1> QED
  BY <1>4, <1>5, <1>6, <1>7 DEF PeclInv

\* A command that reads or turns to the next package, while nothing else changes.
LEMMA PeclTurns ==
  ASSUME PeclInv, extension' \in Extending,
         UNCHANGED <<configured, folder, records, enabled, events, settled>>,
         extension'.seen \in {extension.seen, records}
  PROVE  PeclTypes' /\ ListsInv'
<1>1. PeclTypes'
  BY DEF PeclInv, PeclTypes
<1>2. ListsInv'
  BY DEF PeclInv, ListsInv, ListsOwn
<1> QED
  BY <1>1, <1>2

LEMMA NextPackageStep == PeclInv /\ Pecl!NextPackage => PeclInv'
<1> SUFFICES ASSUME PeclInv, Pecl!NextPackage PROVE PeclInv'
  OBVIOUS
<1>1. /\ extension.step = "next" /\ extension \in Extending
      /\ UNCHANGED <<configured, folder, records, enabled, events, settled>>
  BY DEF Pecl!NextPackage, Pecl!Doing, Pecl!Storage, Pecl!Steady, PeclInv, PeclTypes
<1>2. extension.kind = "provision" /\ Known = records
  BY <1>1 DEF PeclInv, WorkInv, Known
<1>3. CASE extension.todo = {} /\ Pecl!Then("sync")
  <2>1. /\ extension' \in Extending /\ extension'.step = "sync"
        /\ extension'.kind = "provision" /\ extension'.seen = extension.seen
        /\ extension'.wanted = extension.wanted
        /\ extension'.todo = {} /\ extension'.marred = extension.marred
    BY <1>2, <1>3, PeclGoes DEF PeclSteps
  <2>2. PeclTypes' /\ ListsInv'
    BY <1>1, <2>1, PeclTurns
  <2>3. WorkInv' /\ SeenInv'
    BY <2>1 DEF WorkInv, SeenInv, Working, Installing, Listed
  <2>4. PlaceInv'
    BY <1>1, <1>2, <1>3, <2>1
    DEF PeclInv, PlaceInv, Pending, InPlace, Known, Working, Installing, Listed
  <2> QED
    BY <2>2, <2>3, <2>4 DEF PeclInv
<1>4. ASSUME NEW p \in extension.todo,
             extension.seen[p].version = extension.wanted[p],
             Pecl!RecordFilesValid(extension.seen[p]),
             extension' = [extension EXCEPT !.todo = @ \ {p}]
      PROVE  PeclInv'
  <2>1. /\ extension' \in Extending /\ extension'.step = "next"
        /\ extension'.kind = "provision" /\ extension'.seen = extension.seen
        /\ extension'.wanted = extension.wanted
        /\ extension'.todo = extension.todo \ {p} /\ extension'.marred = extension.marred
        /\ extension'.done = extension.done
    BY <1>1, <1>2, <1>4 DEF Extending
  <2>2. PeclTypes' /\ ListsInv'
    BY <1>1, <2>1, PeclTurns
  <2>3. WorkInv'
    BY <1>1, <1>2, <2>1 DEF PeclInv, WorkInv, Working, Installing, Listed
  <2>4. SeenInv'
    BY <2>1 DEF SeenInv
  <2>5. p \in Package /\ extension.wanted[p] # NoRelease /\ extension.seen[p] = records[p]
    BY <1>1, <1>2, <1>4 DEF PeclInv, WorkInv
  <2>6. records[p] # Pecl!NoRecord
    BY <1>4, <2>5, PeclFacts
  <2>7. /\ p \in DOMAIN records[p].files
        /\ \A f \in DOMAIN records[p].files :
             records[p].files[f] = Pecl!Content(extension.wanted[p])
    BY <1>4, <2>5, <2>6 DEF PeclInv, ListsInv, ListsOwn
  <2>8. \A f \in DOMAIN records[p].files : folder[f] = records[p].files[f]
    BY <1>4, <2>5 DEF Pecl!RecordFilesValid
  <2>9. extension.wanted[p] \in Release
    BY <2>5, <2>6, <1>4 DEF PeclInv, ListsInv, ListsOwn
  <2>10. /\ folder[p] = Pecl!Content(extension.wanted[p])
         /\ Shared \in DOMAIN records[p].files => folder[Shared] # Pecl!Absent
    BY <2>7, <2>8, <2>9, PeclFacts
  <2>11. ASSUME extension.wanted = configured PROVE InPlace(p)'
    BY <1>1, <2>1, <2>6, <2>10, <2>11 DEF InPlace, Known
  <2>12. PlaceInv'
    BY <1>1, <1>2, <2>1, <2>11
    DEF PeclInv, PlaceInv, Pending, InPlace, Known, Working, Installing, Listed
  <2> QED
    BY <2>2, <2>3, <2>4, <2>12 DEF PeclInv
<1>5. ASSUME NEW p \in extension.todo, NEW rest, rest = extension.todo \ {p},
             NEW v, v = extension.wanted[p],
             extension' = [extension EXCEPT !.todo = rest, !.step = "reread",
                                            !.package = p, !.version = v]
      PROVE  PeclInv'
  <2>1. p \in Package /\ extension.wanted[p] # NoRelease
    BY <1>1, <1>2, <1>5 DEF PeclInv, WorkInv
  <2>2. v \in Release /\ p \in Pecl!Artifact
    BY <1>1, <1>5, <2>1, PeclFacts DEF Extending, Releases
  <2>3. /\ extension' \in Extending /\ extension'.step = "reread"
        /\ extension'.kind = "provision" /\ extension'.seen = extension.seen
        /\ extension'.wanted = extension.wanted /\ extension'.package = p
        /\ extension'.version = v
        /\ extension'.todo = extension.todo \ {p} /\ extension'.marred = extension.marred
        /\ extension'.done = extension.done
    BY <1>1, <1>2, <1>5, <2>2 DEF Extending, PeclSteps, Releases
  <2>4. PeclTypes' /\ ListsInv'
    BY <1>1, <2>3, PeclTurns
  <2>5. WorkInv'
    BY <1>1, <1>2, <1>5, <2>1, <2>2, <2>3 DEF PeclInv, WorkInv, Working, Installing, Listed
  <2>6. SeenInv'
    BY <2>3 DEF SeenInv
  <2>7. PlaceInv'
    BY <1>1, <1>2, <2>1, <2>3
    DEF PeclInv, PlaceInv, Pending, InPlace, Known, Working, Installing, Listed
  <2> QED
    BY <2>4, <2>5, <2>6, <2>7 DEF PeclInv
<1>6. \/ extension.todo = {} /\ Pecl!Then("sync")
      \/ \E p \in extension.todo :
           \/ /\ extension.seen[p].version = extension.wanted[p]
              /\ Pecl!RecordFilesValid(extension.seen[p])
              /\ extension' = [extension EXCEPT !.todo = @ \ {p}]
           \/ extension' = [extension EXCEPT !.todo = extension.todo \ {p}, !.step = "reread",
                                             !.package = p, !.version = extension.wanted[p]]
  BY DEF Pecl!NextPackage
<1> QED
  BY <1>3, <1>4, <1>5, <1>6

LEMMA RereadStep == PeclInv /\ Pecl!Reread => PeclInv'
<1> SUFFICES ASSUME PeclInv, Pecl!Reread PROVE PeclInv'
  OBVIOUS
<1>1. /\ extension.step = "reread" /\ extension \in Extending
      /\ UNCHANGED <<configured, folder, records, enabled>>
      /\ records \in [Package -> Listing]
  BY DEF Pecl!Reread, Pecl!Doing, Pecl!Storage, PeclInv, PeclTypes
<1>2. CASE extension' = [extension EXCEPT !.step = "module", !.seen = records]
           /\ UNCHANGED <<events, settled>>
  <2>1. /\ extension' \in Extending /\ extension'.step = "module"
        /\ extension'.kind = extension.kind /\ extension'.seen = records
        /\ extension'.wanted = extension.wanted /\ extension'.package = extension.package
        /\ extension'.version = extension.version /\ extension'.done = extension.done
        /\ extension'.todo = extension.todo /\ extension'.marred = extension.marred
    BY <1>1, <1>2 DEF Extending, PeclSteps
  <2>2. PeclTypes' /\ ListsInv'
    BY <1>1, <1>2, <2>1, PeclTurns
  <2>3. WorkInv'
    BY <1>1, <1>2, <2>1 DEF PeclInv, WorkInv, Working, Installing, Listed
  <2>4. SeenInv'
    BY <1>1, <2>1 DEF SeenInv
  <2>5. PlaceInv'
    BY <1>1, <1>2, <2>1
    DEF PeclInv, PlaceInv, Pending, InPlace, Known, Working, Installing, Listed
  <2> QED
    BY <2>2, <2>3, <2>4, <2>5 DEF PeclInv
<1>3. CASE Pecl!Fail /\ UNCHANGED events
  BY <1>1, <1>3, PeclFails DEF PeclInv, PeclTypes
<1> QED
  BY <1>2, <1>3 DEF Pecl!Reread, Pecl!Steady

\* What a package that is in place needs, is kept.
LEMMA StaysInPlace ==
  ASSUME NEW p \in Package, InPlace(p), Known'[p] = Known[p], configured'[p] = configured[p],
         folder'[p] = folder[p],
         \/ extension'.step = "putlibrary"
         \/ Shared \in DOMAIN Known[p].files => folder'[Shared] # Pecl!Absent
  PROVE  InPlace(p)'
  BY DEF InPlace

\* Of a command that is at a package, the others stay in place.
LEMMA OthersStay ==
  ASSUME PeclInv, extension.step \in Working, extension'.step \in Working,
         extension'.package = extension.package, extension'.kind = extension.kind,
         extension'.todo = extension.todo, extension'.marred = extension.marred,
         extension'.wanted = extension.wanted,
         UNCHANGED <<configured, settled>>,
         \A q \in Package \ {extension.package} :
           /\ Known'[q] = Known[q] /\ folder'[q] = folder[q]
           /\ \/ extension'.step = "putlibrary"
              \/ folder'[Shared] # Pecl!Absent
              \/ Shared \in DOMAIN Known[q].files => folder'[Shared] = folder[Shared]
                                                     /\ extension.step # "putlibrary",
         (settled \/ extension.kind = "provision") /\ ~extension.marred
  PROVE  /\ extension.kind = "provision" => extension'.wanted = configured'
         /\ \A p \in Package \ Pending' : configured'[p] # NoRelease => InPlace(p)'
<1>1. extension.kind = "provision" => extension'.wanted = configured'
  BY DEF PeclInv, PlaceInv
<1>2. Pending' = Pending /\ extension.package \in Pending
  BY DEF Pending
<1>3. ASSUME NEW p \in Package \ Pending', configured'[p] # NoRelease
      PROVE  InPlace(p)'
  <2>1. InPlace(p) /\ p # extension.package
    BY <1>2, <1>3 DEF PeclInv, PlaceInv
  <2>2. \/ extension'.step = "putlibrary"
        \/ Shared \in DOMAIN Known[p].files => folder'[Shared] # Pecl!Absent
    BY <1>3, <2>1 DEF InPlace
  <2> QED
    BY <1>3, <2>1, <2>2, StaysInPlace
<1> QED
  BY <1>1, <1>3

LEMMA PlaceModuleStep ==
  PeclInv /\ Pecl!Place("module", extension.package, "putmodule") => PeclInv'
<1> SUFFICES ASSUME PeclInv, Pecl!Place("module", extension.package, "putmodule") PROVE PeclInv'
  OBVIOUS
<1>1. /\ extension.step = "module" /\ extension \in Extending
      /\ folder' = [folder EXCEPT ![extension.package] = Pecl!Absent]
      /\ UNCHANGED <<configured, records, enabled, events, settled>>
      /\ extension.package \in Package
  BY DEF Pecl!Place, Pecl!Doing, Pecl!Steady, PeclInv, PeclTypes, WorkInv, Working, Installing
<1>2. /\ extension' \in Extending /\ extension'.step = "putmodule"
      /\ extension'.kind = extension.kind /\ extension'.package = extension.package
      /\ extension'.version = extension.version /\ extension'.wanted = extension.wanted
      /\ extension'.seen = extension.seen
      /\ extension'.done = extension.done /\ extension'.todo = extension.todo
      /\ extension'.marred = extension.marred
  BY PeclGoes DEF Pecl!Place, PeclSteps
<1>3. PeclTypes'
  BY <1>1, <1>2 DEF PeclInv, PeclTypes
<1>4. ListsInv'
  BY <1>1, <1>2 DEF PeclInv, ListsInv, ListsOwn
<1>5. WorkInv' /\ SeenInv'
  BY <1>1, <1>2 DEF PeclInv, WorkInv, SeenInv, Working, Installing, Listed
<1>6. /\ \A q \in Pecl!Artifact \ {extension.package} : folder'[q] = folder[q]
      /\ Shared \in Pecl!Artifact /\ Shared # extension.package
      /\ Package \subseteq Pecl!Artifact
  BY <1>1, PeclFacts DEF PeclInv, PeclTypes
<1>7. Known' = Known
  BY <1>1, <1>2 DEF Known
<1>8. PlaceInv'
  <2> SUFFICES ASSUME (settled' \/ extension'.kind = "provision") /\ ~extension'.marred
               PROVE  /\ extension'.kind = "provision" => extension'.wanted = configured'
                      /\ \A p \in Package \ Pending' : configured'[p] # NoRelease => InPlace(p)'
    BY <1>2 DEF PlaceInv, Listed
  <2> QED
    BY <1>1, <1>2, <1>6, <1>7, OthersStay DEF Working, Installing
<1> QED
  BY <1>3, <1>4, <1>5, <1>8 DEF PeclInv

LEMMA PlaceLibraryStep ==
  PeclInv /\ Pecl!Place("library", Shared, "putlibrary") => PeclInv'
<1> SUFFICES ASSUME PeclInv, Pecl!Place("library", Shared, "putlibrary") PROVE PeclInv'
  OBVIOUS
<1>1. /\ extension.step = "library" /\ extension \in Extending
      /\ folder' = [folder EXCEPT ![Shared] = Pecl!Absent]
      /\ UNCHANGED <<configured, records, enabled, events, settled>>
      /\ extension.package \in Package
  BY DEF Pecl!Place, Pecl!Doing, Pecl!Steady, PeclInv, PeclTypes, WorkInv, Working, Installing
<1>2. /\ extension' \in Extending /\ extension'.step = "putlibrary"
      /\ extension'.kind = extension.kind /\ extension'.package = extension.package
      /\ extension'.version = extension.version /\ extension'.wanted = extension.wanted
      /\ extension'.seen = extension.seen
      /\ extension'.done = extension.done /\ extension'.todo = extension.todo
      /\ extension'.marred = extension.marred
  BY PeclGoes DEF Pecl!Place, PeclSteps
<1>3. PeclTypes'
  BY <1>1, <1>2 DEF PeclInv, PeclTypes
<1>4. ListsInv'
  BY <1>1, <1>2 DEF PeclInv, ListsInv, ListsOwn
<1>5. WorkInv'
  BY <1>1, <1>2 DEF PeclInv, WorkInv, ListsOwn, Working, Installing, Listed
<1>6. SeenInv'
  BY <1>1, <1>2 DEF PeclInv, SeenInv
<1>7. /\ \A q \in Package : folder'[q] = folder[q]
      /\ Shared # extension.package
  BY <1>1, PeclFacts DEF PeclInv, PeclTypes
<1>8. Known' = Known
  BY <1>1, <1>2 DEF Known
<1>9. PlaceInv'
  <2> SUFFICES ASSUME (settled' \/ extension'.kind = "provision") /\ ~extension'.marred
               PROVE  /\ extension'.kind = "provision" => extension'.wanted = configured'
                      /\ \A p \in Package \ Pending' : configured'[p] # NoRelease => InPlace(p)'
                      /\ folder'[extension.package] = Pecl!Content(extension.version)
    BY <1>2 DEF PlaceInv, Listed
  <2>1. folder'[extension.package] = Pecl!Content(extension.version)
    BY <1>1, <1>2, <1>7 DEF PeclInv, PlaceInv, WorkInv, Listed, Installing
  <2> QED
    BY <1>1, <1>2, <1>7, <1>8, <2>1, OthersStay DEF Working, Installing
<1> QED
  BY <1>3, <1>4, <1>5, <1>6, <1>9 DEF PeclInv

\* What a package has put into place is recorded as its.
Added(f, c) ==
  [g \in DOMAIN extension.done \cup {f} |-> IF g = f THEN c ELSE extension.done[g]]

Puttable(f) ==
  \/ f = extension.package /\ extension.step = "putmodule"
  \/ f = Shared /\ extension.step \in {"library", "putlibrary"}

LEMMA PutIsListed ==
  ASSUME PeclInv, NEW f \in Pecl!Artifact, Puttable(f),
         NEW c, c = Pecl!Content(extension.version), NEW done, done = Added(f, c)
  PROVE  /\ done \in Contained
         /\ ListsOwn(extension.package, [version |-> extension.version, files |-> done])
         /\ DOMAIN done = DOMAIN extension.done \cup {f}
         /\ extension.version \in Release /\ extension.package \in Package
         /\ extension.kind # "remove"
<1>1. /\ extension.version \in Release /\ extension.package \in Package
      /\ extension.kind # "remove"
  BY DEF PeclInv, WorkInv, Working, Installing, Puttable
<1>2. PICK own : own = extension.done
  OBVIOUS
<1>3. own \in Contained
  BY <1>2 DEF PeclInv, PeclTypes, Extending
<1>4. PICK D \in SUBSET Pecl!Artifact : own \in [D -> Contents]
  BY <1>3 DEF Contained
<1>5. DOMAIN own = D /\ \A g \in D : own[g] \in Contents
  BY <1>4
<1>6. Pecl!Content(extension.version) \in Contents
  BY <1>1 DEF Contents
<1>7. done \in [D \cup {f} -> Contents] /\ DOMAIN done = D \cup {f}
  BY <1>2, <1>5, <1>6 DEF Added
<1>8. done \in Contained
  BY <1>7 DEF Contained
<1>9. CASE extension.step = "putmodule"
  <2>1. D = {} /\ f = extension.package
    BY <1>2, <1>5, <1>9 DEF PeclInv, WorkInv, Puttable
  <2>2. DOMAIN done = {extension.package}
        /\ \A g \in DOMAIN done : done[g] = Pecl!Content(extension.version)
    BY <1>2, <1>5, <1>7, <2>1 DEF Added
  <2> QED
    BY <1>1, <1>2, <1>5, <1>7, <1>8, <2>2 DEF ListsOwn
<1>10. CASE extension.step \in {"putlibrary", "library"}
  <2>1. f = Shared
    BY <1>10 DEF Puttable
  <2>2. ListsOwn(extension.package, [version |-> extension.version, files |-> own])
    BY <1>1, <1>2, <1>10 DEF PeclInv, WorkInv, Listed
  <2>3. [version |-> extension.version, files |-> own] # Pecl!NoRecord
    BY <1>1, PeclFacts
  <2>4. /\ extension.package \in D /\ D \subseteq {extension.package, Shared}
        /\ \A g \in D : own[g] = Pecl!Content(extension.version)
    BY <1>5, <2>2, <2>3 DEF ListsOwn
  <2>5. /\ extension.package \in DOMAIN done /\ DOMAIN done \subseteq {extension.package, Shared}
        /\ \A g \in DOMAIN done : done[g] = Pecl!Content(extension.version)
    BY <1>2, <1>5, <1>7, <2>1, <2>4 DEF Added
  <2> QED
    BY <1>1, <1>2, <1>5, <1>7, <1>8, <2>5 DEF ListsOwn
<1> QED
  BY <1>9, <1>10 DEF Puttable

\* One file more is in place.
Puts(f, c, after) ==
  /\ folder' = [folder EXCEPT ![f] = c]
  /\ extension' = [extension EXCEPT !.step = after, !.done = Added(f, c)]
  /\ UNCHANGED <<configured, records, enabled, events, settled>>

LEMMA PeclPuts ==
  ASSUME PeclInv, NEW f \in Pecl!Artifact, NEW after \in PeclSteps, NEW c, NEW done \in Contained,
         c = Pecl!Content(extension.version), extension.version \in Release,
         done = Added(f, c), Puts(f, c, after)
  PROVE  /\ extension' \in Extending /\ extension'.step = after
         /\ extension'.kind = extension.kind /\ extension'.package = extension.package
         /\ extension'.version = extension.version /\ extension'.wanted = extension.wanted
         /\ extension'.seen = extension.seen
         /\ extension'.done = done /\ extension'.todo = extension.todo
         /\ extension'.marred = extension.marred
         /\ PeclTypes' /\ ListsInv'
<1>1. extension \in Extending /\ c \in Contents
  BY DEF PeclInv, PeclTypes, Contents
<1>2. extension' = [extension EXCEPT !.step = after, !.done = done]
  BY DEF Puts
<1>3. /\ extension' \in Extending /\ extension'.step = after
      /\ extension'.kind = extension.kind /\ extension'.package = extension.package
      /\ extension'.version = extension.version /\ extension'.wanted = extension.wanted
      /\ extension'.seen = extension.seen
      /\ extension'.done = done /\ extension'.todo = extension.todo
      /\ extension'.marred = extension.marred
  BY <1>1, <1>2 DEF Extending
<1>4. PeclTypes'
  BY <1>1, <1>3 DEF PeclInv, PeclTypes, Puts
<1>5. ListsInv'
  BY <1>3 DEF Puts, PeclInv, ListsInv, ListsOwn
<1> QED
  BY <1>3, <1>4, <1>5

\* It fails while it puts a file into place.
LEMMA PutFails ==
  ASSUME PeclInv, Pecl!Fail, UNCHANGED <<configured, folder, records, enabled, events>>
  PROVE  PeclInv'
  BY PeclFails DEF PeclInv, PeclTypes

LEMMA PutModuleStep ==
  PeclInv /\ Pecl!Put("putmodule", extension.package, Pecl!AfterModule) => PeclInv'
<1> SUFFICES ASSUME PeclInv, Pecl!Put("putmodule", extension.package, Pecl!AfterModule)
             PROVE  PeclInv'
  OBVIOUS
<1>1. extension.step = "putmodule" /\ UNCHANGED <<configured, records, enabled>>
  BY DEF Pecl!Put, Pecl!Doing
<1>2. PICK after : after = Pecl!AfterModule
  OBVIOUS
<1>3. after \in {"library", "unlist"}
  BY <1>2 DEF Pecl!AfterModule
<1>4. PICK c : c = Pecl!Content(extension.version)
  OBVIOUS
<1>5. PICK f : f = extension.package
  OBVIOUS
<1>6. CASE /\ folder' = [folder EXCEPT ![f] = c]
           /\ extension' = [extension EXCEPT !.step = after,
                !.done = [g \in DOMAIN @ \cup {f} |-> IF g = f THEN c ELSE @[g]]]
           /\ UNCHANGED <<events, settled>>
  <2>1. PICK done : done = Added(f, c)
    OBVIOUS
  <2>2. f \in Package /\ f \in Pecl!Artifact /\ f # Shared
    BY <1>1, <1>5, PeclFacts DEF PeclInv, WorkInv, Working, Installing
  <2>3. /\ done \in Contained
        /\ ListsOwn(extension.package, [version |-> extension.version, files |-> done])
        /\ DOMAIN done = DOMAIN extension.done \cup {f}
        /\ extension.version \in Release /\ extension.package \in Package
        /\ extension.kind # "remove"
    <3>1. Puttable(f)
      BY <1>1, <1>5 DEF Puttable
    <3> QED
      BY <1>4, <1>5, <2>1, <2>2, <3>1, PutIsListed
  <2>4. /\ extension'.step = after
        /\ extension'.kind = extension.kind /\ extension'.package = extension.package
        /\ extension'.version = extension.version /\ extension'.wanted = extension.wanted
        /\ extension'.seen = extension.seen
        /\ extension'.done = done /\ extension'.todo = extension.todo
        /\ extension'.marred = extension.marred
        /\ PeclTypes' /\ ListsInv'
    <3>1. Puts(f, c, after)
      <4>1. extension \in Extending
        BY DEF PeclInv, PeclTypes
      <4> QED
        BY <1>1, <1>6, <4>1 DEF Puts, Added, Extending
    <3>2. after \in PeclSteps
      BY <1>3 DEF PeclSteps
    <3> QED
      BY <1>4, <2>1, <2>2, <2>3, <3>1, <3>2, PeclPuts
  <2>5. WorkInv'
    <3>1. ListsOwn(extension.package, [version |-> extension.version, files |-> extension.done])'
      BY <2>3, <2>4 DEF ListsOwn
    <3> QED
      BY <1>1, <1>3, <2>3, <2>4, <3>1 DEF PeclInv, WorkInv, ListsOwn, Working, Installing, Listed
  <2>6. SeenInv'
    BY <1>1, <1>3, <2>4 DEF PeclInv, SeenInv
  <2>7. /\ folder'[f] = c /\ folder'[Shared] = folder[Shared]
        /\ \A q \in Package \ {f} : folder'[q] = folder[q]
    BY <1>6, <2>2, PeclFacts DEF PeclInv, PeclTypes
  <2>8. Shared \notin DOMAIN done
    BY <1>1, <2>2, <2>3 DEF PeclInv, WorkInv
  <2>9. Known' = Known
    BY <1>1, <1>3, <2>4 DEF Known
  <2>10. PlaceInv'
    <3> SUFFICES ASSUME (settled' \/ extension'.kind = "provision") /\ ~extension'.marred
                 PROVE  /\ extension'.kind = "provision" => extension'.wanted = configured'
                        /\ \A p \in Package \ Pending' : configured'[p] # NoRelease => InPlace(p)'
                        /\ folder'[extension'.package] = Pecl!Content(extension'.version)
      BY <1>3, <2>4, <2>8 DEF PlaceInv, Listed
    <3> QED
      BY <1>1, <1>3, <1>4, <1>5, <1>6, <2>4, <2>7, <2>9, OthersStay DEF Working, Installing
  <2> QED
    BY <2>4, <2>5, <2>6, <2>10 DEF PeclInv
<1>7. CASE Pecl!Fail /\ UNCHANGED <<folder, events>>
  BY <1>1, <1>7, PutFails
<1> QED
  BY <1>2, <1>4, <1>5, <1>6, <1>7 DEF Pecl!Put, Pecl!Steady

LEMMA PutLibraryStep == PeclInv /\ Pecl!Put("putlibrary", Shared, "unlist") => PeclInv'
<1> SUFFICES ASSUME PeclInv, Pecl!Put("putlibrary", Shared, "unlist") PROVE PeclInv'
  OBVIOUS
<1>1. extension.step = "putlibrary" /\ UNCHANGED <<configured, records, enabled>>
  BY DEF Pecl!Put, Pecl!Doing
<1>2. PICK c : c = Pecl!Content(extension.version)
  OBVIOUS
<1>3. CASE /\ folder' = [folder EXCEPT ![Shared] = c]
           /\ extension' = [extension EXCEPT !.step = "unlist",
                !.done = [g \in DOMAIN @ \cup {Shared} |-> IF g = Shared THEN c ELSE @[g]]]
           /\ UNCHANGED <<events, settled>>
  <2>1. PICK done : done = Added(Shared, c)
    OBVIOUS
  <2>2. Shared \in Pecl!Artifact /\ Shared \notin Package
    BY PeclFacts
  <2>3. /\ done \in Contained
        /\ ListsOwn(extension.package, [version |-> extension.version, files |-> done])
        /\ DOMAIN done = DOMAIN extension.done \cup {Shared}
        /\ extension.version \in Release /\ extension.package \in Package
        /\ extension.kind # "remove"
    <3>1. Puttable(Shared)
      BY <1>1 DEF Puttable
    <3> QED
      BY <1>2, <2>1, <2>2, <3>1, PutIsListed
  <2>4. /\ extension'.step = "unlist"
        /\ extension'.kind = extension.kind /\ extension'.package = extension.package
        /\ extension'.version = extension.version /\ extension'.wanted = extension.wanted
        /\ extension'.seen = extension.seen
        /\ extension'.done = done /\ extension'.todo = extension.todo
        /\ extension'.marred = extension.marred
        /\ PeclTypes' /\ ListsInv'
    <3>1. Puts(Shared, c, "unlist")
      <4>1. extension \in Extending
        BY DEF PeclInv, PeclTypes
      <4> QED
        BY <1>1, <1>3, <4>1 DEF Puts, Added, Extending
    <3>2. "unlist" \in PeclSteps
      BY DEF PeclSteps
    <3> QED
      BY <1>2, <2>1, <2>2, <2>3, <3>1, <3>2, PeclPuts
  <2>5. WorkInv'
    <3>1. ListsOwn(extension.package, [version |-> extension.version, files |-> extension.done])'
      BY <2>3, <2>4 DEF ListsOwn
    <3> QED
      BY <1>1, <2>3, <2>4, <3>1 DEF PeclInv, WorkInv, ListsOwn, Working, Installing, Listed
  <2>6. SeenInv'
    BY <1>1, <2>4 DEF PeclInv, SeenInv
  <2>7. /\ folder'[Shared] # Pecl!Absent
        /\ \A q \in Package : folder'[q] = folder[q]
    BY <1>2, <1>3, <2>2, <2>3, PeclFacts DEF PeclInv, PeclTypes
  <2>8. Known' = Known
    BY <1>1, <2>4 DEF Known
  <2>9. PlaceInv'
    <3> SUFFICES ASSUME (settled' \/ extension'.kind = "provision") /\ ~extension'.marred
                 PROVE  /\ extension'.kind = "provision" => extension'.wanted = configured'
                        /\ \A p \in Package \ Pending' : configured'[p] # NoRelease => InPlace(p)'
                        /\ folder'[extension'.package] = Pecl!Content(extension'.version)
      BY <2>4, <2>7 DEF PlaceInv, Listed
    <3>1. folder[extension.package] = Pecl!Content(extension.version)
      BY <1>1, <1>3, <2>3, <2>4 DEF PeclInv, PlaceInv, Listed
    <3> QED
      BY <1>1, <1>3, <2>3, <2>4, <2>7, <2>8, <3>1, OthersStay DEF Working, Installing
  <2> QED
    BY <2>4, <2>5, <2>6, <2>9 DEF PeclInv
<1>4. CASE Pecl!Fail /\ UNCHANGED <<folder, events>>
  BY <1>1, <1>4, PutFails
<1> QED
  BY <1>2, <1>3, <1>4 DEF Pecl!Put, Pecl!Steady

LEMMA RefuseModuleStep == PeclInv /\ Pecl!RefuseModule => PeclInv'
  BY PutFails DEF Pecl!RefuseModule, Pecl!Storage

LEMMA MeetLibraryStep == PeclInv /\ Pecl!MeetLibrary => PeclInv'
<1> SUFFICES ASSUME PeclInv, Pecl!MeetLibrary PROVE PeclInv'
  OBVIOUS
<1>1. /\ extension.step = "library" /\ folder[Shared] # Pecl!Absent
      /\ UNCHANGED <<configured, folder, records, enabled>> /\ extension \in Extending
  BY DEF Pecl!MeetLibrary, Pecl!Doing, Pecl!Storage, PeclInv, PeclTypes
<1>2. /\ extension.version \in Release /\ extension.package \in Package
      /\ extension.kind # "remove" /\ Shared \in Pecl!Artifact
      /\ ListsOwn(extension.package, [version |-> extension.version, files |-> extension.done])
  BY <1>1, PeclFacts DEF PeclInv, WorkInv, Working, Installing, Listed
<1>3. ASSUME UNCHANGED <<events, settled>>, NEW done \in Contained,
             ListsOwn(extension.package, [version |-> extension.version, files |-> done]),
             extension' = [extension EXCEPT !.step = "unlist", !.done = done]
      PROVE  PeclInv'
  <2>1. /\ extension' \in Extending /\ extension'.step = "unlist"
        /\ extension'.kind = extension.kind /\ extension'.package = extension.package
        /\ extension'.version = extension.version /\ extension'.wanted = extension.wanted
        /\ extension'.seen = extension.seen
        /\ extension'.done = done /\ extension'.todo = extension.todo
        /\ extension'.marred = extension.marred
    BY <1>1, <1>3 DEF Extending, PeclSteps
  <2>2. PeclTypes' /\ ListsInv'
    BY <1>1, <1>3, <2>1, PeclTurns
  <2>3. WorkInv'
    <3>1. ListsOwn(extension.package, [version |-> extension.version, files |-> extension.done])'
      BY <1>3, <2>1 DEF ListsOwn
    <3> QED
      BY <1>1, <1>2, <2>1, <3>1 DEF PeclInv, WorkInv, ListsOwn, Working, Installing, Listed
  <2>4. SeenInv'
    BY <1>1, <2>1 DEF PeclInv, SeenInv
  <2>5. Known' = Known
    BY <1>1, <2>1 DEF Known
  <2>6. PlaceInv'
    <3> SUFFICES ASSUME (settled' \/ extension'.kind = "provision") /\ ~extension'.marred
                 PROVE  /\ extension'.kind = "provision" => extension'.wanted = configured'
                        /\ \A p \in Package \ Pending' : configured'[p] # NoRelease => InPlace(p)'
                        /\ folder'[extension'.package] = Pecl!Content(extension'.version)
      BY <1>1, <2>1 DEF PlaceInv, Listed
    <3>1. folder[extension.package] = Pecl!Content(extension.version)
      BY <1>1, <1>2, <1>3, <2>1 DEF PeclInv, PlaceInv, Listed
    <3> QED
      BY <1>1, <1>3, <2>1, <2>5, <3>1, OthersStay DEF Working, Installing
  <2> QED
    BY <2>2, <2>3, <2>4, <2>6 DEF PeclInv
<1>4. ASSUME folder[Shared] = Pecl!Content(extension.version), UNCHANGED <<events, settled>>,
             extension' = [extension EXCEPT !.step = "unlist",
               !.done = [g \in DOMAIN @ \cup {Shared} |-> IF g = Shared THEN folder[Shared] ELSE @[g]]]
      PROVE  PeclInv'
  <2>1. PICK c, done : c = Pecl!Content(extension.version) /\ done = Added(Shared, c)
    OBVIOUS
  <2>2. /\ done \in Contained
        /\ ListsOwn(extension.package, [version |-> extension.version, files |-> done])
    <3>1. Puttable(Shared)
      BY <1>1 DEF Puttable
    <3> QED
      BY <1>2, <2>1, <3>1, PutIsListed
  <2>3. extension' = [extension EXCEPT !.step = "unlist", !.done = done]
    BY <1>1, <1>4, <2>1 DEF Extending, Added
  <2> QED
    BY <1>3, <1>4, <2>2, <2>3
<1>5. ASSUME UNCHANGED <<events, settled>>,
             extension' = [extension EXCEPT !.step = "unlist", !.done = @]
      PROVE  PeclInv'
  <2>1. PICK done : done = extension.done
    OBVIOUS
  <2>2. extension' = [extension EXCEPT !.step = "unlist", !.done = done] /\ done \in Contained
    BY <1>1, <1>5, <2>1 DEF Extending
  <2>3. ListsOwn(extension.package, [version |-> extension.version, files |-> done])
    BY <1>2, <2>1
  <2> QED
    BY <1>3, <1>5, <2>2, <2>3
<1>6. CASE Pecl!Fail /\ UNCHANGED events
  BY <1>1, <1>6, PutFails
<1> QED
  BY <1>4, <1>5, <1>6 DEF Pecl!MeetLibrary, Pecl!Steady

LEMMA UnlistStep == PeclInv /\ Pecl!Unlist => PeclInv'
<1> SUFFICES ASSUME PeclInv, Pecl!Unlist PROVE PeclInv'
  OBVIOUS
<1>1. /\ extension.step = "unlist" /\ records' = Pecl!NoRecords
      /\ UNCHANGED <<configured, folder, enabled, events, settled>>
      /\ extension.package \in Package /\ extension.seen = records
  BY DEF Pecl!Unlist, Pecl!Doing, Pecl!Steady, PeclInv, WorkInv, SeenInv, Working
<1>2. /\ extension' \in Extending /\ extension'.step = "list"
      /\ extension'.kind = extension.kind /\ extension'.package = extension.package
      /\ extension'.version = extension.version /\ extension'.wanted = extension.wanted
      /\ extension'.seen = extension.seen
      /\ extension'.done = extension.done /\ extension'.todo = extension.todo
      /\ extension'.marred = extension.marred
  BY PeclGoes DEF Pecl!Unlist, PeclSteps
<1>3. PeclTypes'
  BY <1>1, <1>2, PeclFacts DEF PeclInv, PeclTypes
<1>4. ListsInv'
  BY <1>1, <1>2, PeclFacts DEF PeclInv, ListsInv, ListsOwn
<1>5. WorkInv'
  BY <1>1, <1>2 DEF PeclInv, WorkInv, ListsOwn, Working, Installing, Listed
<1>6. SeenInv'
  BY <1>2 DEF SeenInv
<1>7. Known' = Known
  BY <1>1, <1>2 DEF Known
<1>8. PlaceInv'
  <2> SUFFICES ASSUME (settled' \/ extension'.kind = "provision") /\ ~extension'.marred
               PROVE  /\ extension'.kind = "provision" => extension'.wanted = configured'
                      /\ \A p \in Package \ Pending' : configured'[p] # NoRelease => InPlace(p)'
                      /\ extension'.kind # "remove" =>
                           folder'[extension'.package] = Pecl!Content(extension'.version)
                      /\ Shared \in DOMAIN extension'.done => folder'[Shared] # Pecl!Absent
    BY <1>2 DEF PlaceInv, Listed
  <2>1. /\ extension.kind # "remove" =>
             folder[extension.package] = Pecl!Content(extension.version)
        /\ Shared \in DOMAIN extension.done => folder[Shared] # Pecl!Absent
    BY <1>1, <1>2 DEF PeclInv, PlaceInv, Listed
  <2> QED
    BY <1>1, <1>2, <1>7, <2>1, OthersStay DEF Working, Installing
<1> QED
  BY <1>3, <1>4, <1>5, <1>6, <1>8 DEF PeclInv

LEMMA ListStep == PeclInv /\ Pecl!List => PeclInv'
<1> SUFFICES ASSUME PeclInv, Pecl!List PROVE PeclInv'
  OBVIOUS
<1>1. /\ extension.step = "list" /\ extension \in Extending
      /\ UNCHANGED <<configured, folder, enabled, events, settled>>
      /\ extension.package \in Package /\ extension.kind # "none"
      /\ extension.seen \in [Package -> Listing]
      /\ \A q \in Package : ListsOwn(q, extension.seen[q])
  BY DEF Pecl!List, Pecl!Doing, Pecl!Steady, PeclInv, PeclTypes, WorkInv, ListsInv, Working,
         Extending
<1>2. PICK new : new = IF extension.kind = "remove" THEN Pecl!NoRecord
                       ELSE [version |-> extension.version, files |-> extension.done]
  OBVIOUS
<1>3. PICK label : label = IF extension.kind = "remove" THEN "config" ELSE "sweep"
  OBVIOUS
<1>4. /\ records' = [extension.seen EXCEPT ![extension.package] = new]
      /\ extension' = [extension EXCEPT !.step = label]
  BY <1>2, <1>3 DEF Pecl!List
<1>5. /\ extension' \in Extending /\ extension'.step = label
      /\ extension'.kind = extension.kind /\ extension'.package = extension.package
      /\ extension'.version = extension.version /\ extension'.wanted = extension.wanted
      /\ extension'.seen = extension.seen
      /\ extension'.done = extension.done /\ extension'.todo = extension.todo
      /\ extension'.marred = extension.marred
  BY <1>1, <1>3, <1>4 DEF Extending, PeclSteps
<1>6. /\ new \in Listing /\ ListsOwn(extension.package, new)
      /\ extension.kind # "remove" =>
           /\ new = [version |-> extension.version, files |-> extension.done]
           /\ extension.version \in Release
  <2>1. CASE extension.kind = "remove"
    BY <1>2, <2>1, PeclFacts DEF ListsOwn
  <2>2. CASE extension.kind # "remove"
    <3>1. /\ new = [version |-> extension.version, files |-> extension.done]
          /\ extension.version \in Release /\ extension.done \in Contained
      BY <1>1, <1>2, <2>2 DEF PeclInv, WorkInv, Working, Extending
    <3>2. ListsOwn(extension.package, new)
      BY <1>1, <2>2, <3>1 DEF PeclInv, WorkInv, Listed
    <3> QED
      BY <3>1, <3>2, <2>2 DEF Listing, Releases
  <2> QED
    BY <2>1, <2>2
<1>7. /\ records' \in [Package -> Listing]
      /\ records'[extension.package] = new
      /\ \A q \in Package \ {extension.package} : records'[q] = extension.seen[q]
  BY <1>1, <1>4, <1>6
<1>8. PeclTypes'
  BY <1>1, <1>5, <1>7 DEF PeclInv, PeclTypes
<1>9. ListsInv'
  <2>1. \A q \in Package : ListsOwn(q, records'[q]) /\ ListsOwn(q, extension'.seen[q])
    BY <1>1, <1>5, <1>6, <1>7
  <2> QED
    BY <2>1 DEF ListsInv, ListsOwn
<1>10. WorkInv'
  <2>1. extension.kind = "provision" => \A p \in extension.todo : extension.seen[p] = records'[p]
    BY <1>1, <1>7 DEF PeclInv, WorkInv, Working
  <2> QED
    BY <1>1, <1>3, <1>5, <2>1 DEF PeclInv, WorkInv, ListsOwn, Working, Installing, Listed
<1>11. SeenInv'
  <2>1. extension.kind = "install" => new # Pecl!NoRecord
    BY <1>6, PeclFacts
  <2> QED
    BY <1>3, <1>4, <1>5, <1>6, <1>7, <2>1 DEF SeenInv
<1>12. \A q \in Package \ {extension.package} : Known'[q] = Known[q]
  BY <1>1, <1>3, <1>5, <1>7 DEF Known
<1>13. PlaceInv'
  <2> SUFFICES ASSUME (settled' \/ extension'.kind = "provision") /\ ~extension'.marred
               PROVE  /\ extension'.kind = "provision" => extension'.wanted = configured'
                      /\ \A p \in Package \ Pending' : configured'[p] # NoRelease => InPlace(p)'
                      /\ extension'.kind # "remove" =>
                           folder'[extension'.package] = Pecl!Content(extension'.version)
                      /\ Shared \in DOMAIN extension'.done => folder'[Shared] # Pecl!Absent
    BY <1>3, <1>5 DEF PlaceInv, Listed
  <2>1. /\ extension.kind # "remove" =>
             folder[extension.package] = Pecl!Content(extension.version)
        /\ Shared \in DOMAIN extension.done => folder[Shared] # Pecl!Absent
    BY <1>1, <1>5 DEF PeclInv, PlaceInv, Listed
  <2> QED
    BY <1>1, <1>3, <1>5, <1>12, <2>1, OthersStay DEF Working, Installing
<1> QED
  BY <1>8, <1>9, <1>10, <1>11, <1>13 DEF PeclInv

\* What a package no longer brings is not what another one has, nor what it has brought now.
LEMMA SupersededFacts ==
  ASSUME PeclInv, extension.step = "sweep", NEW r, r = extension.seen[extension.package],
         NEW f \in Pecl!Superseded(r)
  PROVE  /\ f = Shared
         /\ Shared \notin DOMAIN extension.done
         /\ \A q \in Package \ {extension.package} : Shared \notin DOMAIN records[q].files
<1>1. /\ extension.package \in Package /\ extension.kind # "remove"
      /\ extension.version \in Release /\ extension.seen \in [Package -> Listing]
  BY DEF PeclInv, PeclTypes, WorkInv, Working, Installing, Extending
<1>2. extension.package \in DOMAIN extension.done
  <2>1. ListsOwn(extension.package, [version |-> extension.version, files |-> extension.done])
    BY <1>1 DEF PeclInv, WorkInv, Listed
  <2> QED
    BY <1>1, <2>1, PeclFacts DEF ListsOwn
<1>3. /\ f \in DOMAIN r.files /\ f \notin DOMAIN extension.done
      /\ ~Pecl!OwnedByOther(extension.seen, extension.package, f)
  BY DEF Pecl!Superseded
<1>4. DOMAIN r.files \subseteq {extension.package, Shared}
  BY <1>1, PeclFacts DEF PeclInv, ListsInv, ListsOwn
<1>5. f = Shared
  BY <1>2, <1>3, <1>4
<1>6. \A q \in Package \ {extension.package} : records[q] = extension.seen[q]
  BY <1>1 DEF PeclInv, SeenInv
<1> QED
  BY <1>3, <1>5, <1>6 DEF Pecl!OwnedByOther, Pecl!OwnedBy

LEMMA SweepStep == PeclInv /\ Pecl!Sweep => PeclInv'
<1> SUFFICES ASSUME PeclInv, Pecl!Sweep PROVE PeclInv'
  OBVIOUS
<1>1. /\ extension.step = "sweep" /\ extension \in Extending
      /\ UNCHANGED <<configured, records, enabled, events, settled>>
      /\ extension.package \in Package /\ extension.kind \in {"install", "provision"}
      /\ extension.version \in Release
  BY DEF Pecl!Sweep, Pecl!Doing, Pecl!Steady, PeclInv, PeclTypes, WorkInv, Working, Installing,
         Extending
<1>2. PICK gone \in SUBSET Pecl!Superseded(extension.seen[extension.package]) :
        folder' = [f \in Pecl!Artifact |-> IF f \in gone THEN Pecl!Absent ELSE folder[f]]
  BY DEF Pecl!Sweep
<1>3. PICK label : label = IF extension.kind = "provision" THEN "next" ELSE "config"
  OBVIOUS
<1>4. PICK seen : seen = IF extension.kind = "provision" THEN extension.seen ELSE Pecl!NoRecords
  OBVIOUS
<1>5. seen \in [Package -> Listing] /\ Pecl!NoRecord.files \in Contained /\ label \in PeclSteps
  BY <1>1, <1>3, <1>4, PeclFacts DEF Extending, PeclSteps
<1>6. extension' = [extension EXCEPT !.step = label, !.seen = seen, !.done = Pecl!NoRecord.files]
  BY <1>1, <1>3, <1>4 DEF Pecl!Sweep, Extending
<1>7. /\ extension' \in Extending /\ extension'.step = label
      /\ extension'.kind = extension.kind /\ extension'.package = extension.package
      /\ extension'.version = extension.version /\ extension'.wanted = extension.wanted
      /\ extension'.seen = seen
      /\ extension'.done = Pecl!NoRecord.files /\ extension'.todo = extension.todo
      /\ extension'.marred = extension.marred
  BY <1>1, <1>5, <1>6 DEF Extending
<1>8. /\ \A q \in Package : folder'[q] = folder[q]
      /\ folder'[Shared] = folder[Shared] \/
           /\ Shared \notin DOMAIN extension.done
           /\ \A q \in Package \ {extension.package} : Shared \notin DOMAIN records[q].files
      /\ folder' \in [Pecl!Artifact -> {Pecl!Absent, Pecl!Foreign} \cup Contents]
  <2>1. \A f \in gone : /\ f = Shared
                        /\ Shared \notin DOMAIN extension.done
                        /\ \A q \in Package \ {extension.package} :
                             Shared \notin DOMAIN records[q].files
    BY <1>1, <1>2, SupersededFacts
  <2>2. folder \in [Pecl!Artifact -> {Pecl!Absent, Pecl!Foreign} \cup Contents]
    BY DEF PeclInv, PeclTypes
  <2> QED
    BY <1>2, <2>1, <2>2, PeclFacts
<1>9. PeclTypes'
  BY <1>1, <1>7, <1>8 DEF PeclInv, PeclTypes
<1>10. ListsInv'
  <2>1. \A q \in Package : ListsOwn(q, seen[q]) /\ ListsOwn(q, records[q])
    BY <1>4, PeclFacts DEF PeclInv, ListsInv, ListsOwn
  <2> QED
    BY <1>1, <1>7, <2>1 DEF ListsInv, ListsOwn
<1>11. WorkInv'
  BY <1>1, <1>3, <1>4, <1>7, PeclFacts DEF PeclInv, WorkInv, Working, Installing, Listed
<1>12. /\ records[extension.package] = [version |-> extension.version, files |-> extension.done]
       /\ records[extension.package] # Pecl!NoRecord
  <2>1. /\ records[extension.package] = [version |-> extension.version, files |-> extension.done]
    BY <1>1 DEF PeclInv, SeenInv, Extending
  <2> QED
    BY <1>1, <2>1, PeclFacts
<1>13. SeenInv'
  BY <1>1, <1>3, <1>7, <1>12 DEF SeenInv
<1>14. Known' = Known /\ Known = records
  BY <1>1, <1>3, <1>7 DEF Known
<1>15. PlaceInv'
  <2> SUFFICES ASSUME (settled \/ extension.kind = "provision") /\ ~extension.marred
               PROVE  PlaceInv'
    BY <1>1, <1>7 DEF PlaceInv
  <2>1. /\ folder[extension.package] = Pecl!Content(extension.version)
        /\ Shared \in DOMAIN extension.done => folder[Shared] # Pecl!Absent
        /\ extension.kind = "provision" => extension.wanted = configured
        /\ \A p \in Package \ Pending : configured[p] # NoRelease => InPlace(p)
    BY <1>1 DEF PeclInv, PlaceInv, Listed
  <2>2. \A p \in Package \ Pending : p # extension.package
    BY <1>1 DEF Pending, Working, Installing
  <2>3. \A p \in Package \ Pending : configured[p] # NoRelease => InPlace(p)'
    <3> TAKE p \in Package \ Pending
    <3> HAVE configured[p] # NoRelease
    <3>1. InPlace(p) /\ p # extension.package
      BY <2>1, <2>2
    <3>2. Shared \in DOMAIN Known[p].files => folder'[Shared] # Pecl!Absent
      BY <1>1, <1>8, <1>14, <3>1 DEF InPlace
    <3> QED
      BY <1>1, <1>8, <1>14, <3>1, <3>2, StaysInPlace
  <2>4. /\ folder'[extension.package] = Pecl!Content(extension.version)
        /\ Shared \in DOMAIN records[extension.package].files => folder'[Shared] # Pecl!Absent
    BY <1>1, <1>8, <1>12, <2>1
  <2>5. CASE extension.kind = "install"
    <3>1. Pending' = Pending
      BY <1>1, <1>3, <1>7, <2>5 DEF Pending, Working, Installing
    <3> QED
      BY <1>1, <1>3, <1>7, <2>1, <2>3, <2>4, <2>5, <3>1 DEF PlaceInv, Listed
  <2>6. CASE extension.kind = "provision"
    <3>1. Pending' = extension.todo /\ Pending = {extension.package} \cup extension.todo
      BY <1>1, <1>3, <1>7, <2>6 DEF Pending, Working, Installing
    <3>2. extension.version = configured[extension.package]
      BY <1>1, <2>1, <2>6 DEF PeclInv, WorkInv, Working, Installing
    <3>3. InPlace(extension.package)'
      BY <1>1, <1>7, <1>12, <1>14, <2>4, <3>2 DEF InPlace
    <3>4. \A p \in Package \ Pending' : configured[p] # NoRelease => InPlace(p)'
      BY <1>7, <2>3, <3>1, <3>3
    <3> QED
      BY <1>1, <1>3, <1>7, <2>1, <2>6, <3>4 DEF PlaceInv, Listed
  <2> QED
    BY <1>1, <2>5, <2>6
<1> QED
  BY <1>9, <1>10, <1>11, <1>13, <1>15 DEF PeclInv

LEMMA DeleteFileStep == PeclInv /\ Pecl!DeleteFile => PeclInv'
<1> SUFFICES ASSUME PeclInv, Pecl!DeleteFile PROVE PeclInv'
  OBVIOUS
<1>1. /\ extension.step = "delete" /\ extension \in Extending
      /\ UNCHANGED <<configured, records, enabled>>
      /\ extension.package \in Package /\ extension.kind = "remove"
      /\ extension.version = NoRelease /\ extension.seen = records
      /\ extension.todo \subseteq {extension.package, Shared}
  BY DEF Pecl!DeleteFile, Pecl!Doing, PeclInv, PeclTypes, WorkInv, SeenInv, Working
<1>2. PICK p : p = extension.package
  OBVIOUS
<1>3. ASSUME NEW label \in {"config", "unlist"}, Pecl!Then(label),
             UNCHANGED <<folder, events, settled>>
      PROVE  PeclInv'
  <2>1. /\ extension' \in Extending /\ extension'.step = label
        /\ extension'.kind = extension.kind /\ extension'.package = extension.package
        /\ extension'.version = extension.version /\ extension'.wanted = extension.wanted
        /\ extension'.seen = extension.seen
        /\ extension'.done = extension.done /\ extension'.todo = extension.todo
        /\ extension'.marred = extension.marred
    BY <1>3, PeclGoes DEF PeclSteps
  <2>2. PeclTypes' /\ ListsInv'
    BY <1>1, <1>3, <2>1, PeclTurns
  <2>3. WorkInv' /\ SeenInv'
    BY <1>1, <2>1 DEF PeclInv, WorkInv, SeenInv, Working, Installing, Listed
  <2>4. Known' = Known
    BY <1>1, <1>3, <2>1 DEF Known
  <2>5. PlaceInv'
    <3> SUFFICES ASSUME (settled' \/ extension'.kind = "provision") /\ ~extension'.marred
                 PROVE  /\ extension'.kind = "provision" => extension'.wanted = configured'
                        /\ \A q \in Package \ Pending' : configured'[q] # NoRelease => InPlace(q)'
                        /\ Shared \notin DOMAIN extension'.done
      BY <1>1, <2>1 DEF PlaceInv, Listed
    <3>1. \A q \in Package \ Pending' : configured'[q] # NoRelease => InPlace(q)'
      BY <1>1, <1>3, <2>1, <2>4, OthersStay DEF Working
    <3>2. Shared \notin DOMAIN extension.done
      BY <1>1 DEF PeclInv, WorkInv
    <3> QED
      BY <1>1, <2>1, <3>1, <3>2
  <2> QED
    BY <2>2, <2>3, <2>5 DEF PeclInv
<1>4. ASSUME NEW f \in extension.todo, UNCHANGED <<events, settled>>,
             folder' \in {folder, [folder EXCEPT ![f] = Pecl!Absent]},
             folder' = folder \/ ~Pecl!OwnedByOther(extension.seen, p, f),
             extension' = [extension EXCEPT !.todo = @ \ {f}]
      PROVE  PeclInv'
  <2>1. /\ extension' \in Extending /\ extension'.step = "delete"
        /\ extension'.kind = extension.kind /\ extension'.package = extension.package
        /\ extension'.version = extension.version /\ extension'.wanted = extension.wanted
        /\ extension'.seen = extension.seen
        /\ extension'.done = extension.done /\ extension'.todo = extension.todo \ {f}
        /\ extension'.marred = extension.marred
    BY <1>1, <1>4 DEF Extending
  <2>2. f \in {p, Shared}
    BY <1>1, <1>2
  <2>3. PeclTypes'
    BY <1>1, <1>4, <2>1 DEF PeclInv, PeclTypes
  <2>4. ListsInv'
    BY <1>1, <2>1 DEF PeclInv, ListsInv, ListsOwn
  <2>5. WorkInv' /\ SeenInv'
    BY <1>1, <2>1 DEF PeclInv, WorkInv, SeenInv, Working, Installing, Listed
  <2>6. /\ \A q \in Package \ {p} : folder'[q] = folder[q]
        /\ \A q \in Package \ {p} : Shared \in DOMAIN records[q].files =>
                                      folder'[Shared] = folder[Shared]
    BY <1>1, <1>2, <1>4, <2>2, PeclFacts
    DEF PeclInv, PeclTypes, Pecl!OwnedByOther, Pecl!OwnedBy
  <2>7. Known' = Known /\ Known = records
    BY <1>1, <1>4, <2>1 DEF Known
  <2>8. PlaceInv'
    <3> SUFFICES ASSUME settled, ~extension.marred
                 PROVE  \A q \in Package \ Pending' : configured'[q] # NoRelease => InPlace(q)'
      BY <1>1, <1>4, <2>1 DEF PlaceInv, Listed
    <3>1. Pending' = {p} /\ Pending = {p}
      BY <1>1, <1>2, <2>1 DEF Pending, Working
    <3>2. ASSUME NEW q \in Package \ {p}, configured[q] # NoRelease PROVE InPlace(q)'
      <4>1. InPlace(q)
        BY <1>1, <3>1, <3>2 DEF PeclInv, PlaceInv
      <4>2. Shared \in DOMAIN Known[q].files => folder'[Shared] # Pecl!Absent
        BY <1>1, <2>6, <2>7, <3>2, <4>1 DEF InPlace
      <4> QED
        BY <1>1, <2>6, <2>7, <3>2, <4>1, <4>2, StaysInPlace
    <3> QED
      BY <1>1, <3>1, <3>2
  <2> QED
    BY <2>3, <2>4, <2>5, <2>8 DEF PeclInv
<1>5. CASE Pecl!Fail /\ UNCHANGED <<folder, events>>
  BY <1>1, <1>5, PutFails
<1>6. \/ \E label \in {"config", "unlist"} :
           Pecl!Then(label) /\ UNCHANGED <<folder, events, settled>>
      \/ \E f \in extension.todo :
           /\ UNCHANGED <<events, settled>>
           /\ folder' \in {folder, [folder EXCEPT ![f] = Pecl!Absent]}
           /\ folder' = folder \/ ~Pecl!OwnedByOther(extension.seen, p, f)
           /\ extension' = [extension EXCEPT !.todo = @ \ {f}]
      \/ Pecl!Fail /\ UNCHANGED <<folder, events>>
  BY <1>2 DEF Pecl!DeleteFile, Pecl!Steady
<1> QED
  BY <1>3, <1>4, <1>5, <1>6

LEMMA WriteConfigStep == PeclInv /\ Pecl!WriteConfig => PeclInv'
<1> SUFFICES ASSUME PeclInv, Pecl!WriteConfig PROVE PeclInv'
  OBVIOUS
<1>1. /\ extension.step = "config" /\ extension \in Extending
      /\ configured' = [configured EXCEPT ![extension.package] = extension.version]
      /\ UNCHANGED <<folder, records, enabled, events, settled>>
      /\ extension.package \in Package /\ extension.kind \in {"install", "remove"}
      /\ extension.kind = "install" => extension.version \in Release
      /\ extension.kind = "remove" => extension.version = NoRelease
      /\ extension.version \in Releases /\ configured \in [Package -> Releases]
  BY DEF Pecl!WriteConfig, Pecl!Doing, Pecl!Steady, PeclInv, PeclTypes, WorkInv, Working, Extending
<1>2. /\ extension' \in Extending /\ extension'.step = "sync"
      /\ extension'.kind = extension.kind /\ extension'.package = extension.package
      /\ extension'.version = extension.version /\ extension'.wanted = extension.wanted
      /\ extension'.seen = extension.seen /\ extension'.done = extension.done
      /\ extension'.marred = extension.marred
  BY PeclGoes DEF Pecl!WriteConfig, PeclSteps
<1>3. PeclTypes'
  BY <1>1, <1>2 DEF PeclInv, PeclTypes
<1>4. ListsInv'
  BY <1>1, <1>2 DEF PeclInv, ListsInv, ListsOwn
<1>5. WorkInv' /\ SeenInv'
  BY <1>1, <1>2 DEF PeclInv, WorkInv, SeenInv, Working, Installing, Listed
<1>6. /\ configured'[extension.package] = extension.version
      /\ \A q \in Package \ {extension.package} : configured'[q] = configured[q]
  BY <1>1
<1>7. Known' = Known /\ Known = records
  BY <1>1, <1>2 DEF Known
<1>8. PlaceInv'
  <2> SUFFICES ASSUME settled, ~extension.marred
               PROVE  \A q \in Package : configured'[q] # NoRelease => InPlace(q)'
    BY <1>1, <1>2 DEF PlaceInv, Listed
  <2>1. Pending = {extension.package}
    BY <1>1 DEF Pending, Working
  <2>2. ASSUME NEW q \in Package \ {extension.package}, configured[q] # NoRelease
        PROVE  InPlace(q)'
    <3>1. InPlace(q)
      BY <2>1, <2>2 DEF PeclInv, PlaceInv
    <3>2. Shared \in DOMAIN Known[q].files => folder'[Shared] # Pecl!Absent
      BY <1>1, <3>1 DEF InPlace
    <3> QED
      BY <1>1, <1>6, <1>7, <3>1, <3>2, StaysInPlace
  <2>3. ASSUME extension.kind = "install" PROVE InPlace(extension.package)'
    <3>1. /\ folder[extension.package] = Pecl!Content(extension.version)
          /\ Shared \in DOMAIN records[extension.package].files => folder[Shared] # Pecl!Absent
          /\ records[extension.package] # Pecl!NoRecord
      BY <1>1, <2>3 DEF PeclInv, PlaceInv, SeenInv
    <3> QED
      BY <1>1, <1>2, <1>6, <1>7, <3>1 DEF InPlace
  <2> QED
    BY <1>1, <1>2, <1>6, <2>2, <2>3
<1> QED
  BY <1>3, <1>4, <1>5, <1>8 DEF PeclInv

LEMMA SyncPackagesStep == PeclInv /\ Pecl!SyncRuntimeConfig => PeclInv'
<1> SUFFICES ASSUME PeclInv, Pecl!SyncRuntimeConfig PROVE PeclInv'
  OBVIOUS
<1>1. /\ extension.step = "sync" /\ extension' = Pecl!NoExtension
      /\ settled' = ((settled \/ extension.kind = "provision") /\ ~extension.marred)
      /\ UNCHANGED <<configured, folder, records, events>>
  BY DEF Pecl!SyncRuntimeConfig, Pecl!Doing
<1>2. PICK config : config = IF extension.kind = "provision" THEN extension.wanted ELSE configured
  OBVIOUS
<1>3. enabled' = {p \in Package : config[p] # NoRelease /\ records[p] # Pecl!NoRecord}
  BY <1>2 DEF Pecl!SyncRuntimeConfig
<1>4. PeclTypes'
  <2>1. settled' \in BOOLEAN
    BY <1>1
  <2> QED
    BY <1>1, <1>3, <2>1, NoExtensionFacts DEF PeclInv, PeclTypes
<1>5. ListsInv'
  BY <1>1, PeclFacts, NoExtensionFacts DEF PeclInv, ListsInv, ListsOwn
<1>6. WorkInv' /\ SeenInv'
  BY <1>1, NoExtensionFacts DEF WorkInv, SeenInv, Working, Installing, Listed
<1>7. PlaceInv'
  <2> SUFFICES ASSUME settled' PROVE PlaceInv'
    BY <1>1, NoExtensionFacts DEF PlaceInv
  <2>1. /\ extension.kind = "provision" => extension.wanted = configured
        /\ \A p \in Package \ Pending : configured[p] # NoRelease => InPlace(p)
    BY <1>1 DEF PeclInv, PlaceInv
  <2>2. ASSUME extension.kind = "provision" PROVE extension.todo = {}
    BY <1>1, <2>2 DEF PeclInv, WorkInv
  <2>3. Pending = {} /\ Known = records /\ Known' = records /\ Pending' = {}
    BY <1>1, <2>2, NoExtensionFacts DEF Pending, Known, Working, Installing
  <2>4. config = configured
    BY <1>2, <2>1
  <2>5. \A p \in Package : configured[p] # NoRelease => InPlace(p) /\ records[p] # Pecl!NoRecord
    BY <2>1, <2>3 DEF InPlace
  <2>6. enabled' = {p \in Package : configured[p] # NoRelease}
    BY <1>3, <2>4, <2>5
  <2>7. \A p \in Package : configured[p] # NoRelease => InPlace(p)'
    BY <1>1, <2>3, <2>5 DEF InPlace
  <2> QED
    BY <1>1, <2>3, <2>6, <2>7, NoExtensionFacts DEF PlaceInv, Listed
<1> QED
  BY <1>4, <1>5, <1>6, <1>7 DEF PeclInv

\* A kill, and whatever a user does to the files.
LEMMA KillPeclStep == PeclInv /\ Pecl!KillExtension => PeclInv'
<1> SUFFICES ASSUME PeclInv, Pecl!KillExtension PROVE PeclInv'
  OBVIOUS
<1>1. events \in 0 .. MaxEvents /\ MaxEvents \in Nat
  BY PeclFacts DEF PeclInv, PeclTypes
<1>2. events' \in 0 .. MaxEvents
  BY <1>1 DEF Pecl!KillExtension, Pecl!Event
<1>3. folder' \in [Pecl!Artifact -> {Pecl!Absent, Pecl!Foreign} \cup Contents]
  BY DEF Pecl!KillExtension, Pecl!Storage, PeclInv, PeclTypes
<1> QED
  BY <1>2, <1>3, PeclFails DEF Pecl!KillExtension, Pecl!Storage

LEMMA ByHandStep ==
  ASSUME PeclInv, Pecl!ByHand, UNCHANGED <<records, enabled>>,
         configured' \in [Package -> Releases],
         folder' \in [Pecl!Artifact -> {Pecl!Absent, Pecl!Foreign} \cup Contents]
  PROVE  PeclInv'
<1>1. events \in 0 .. MaxEvents /\ MaxEvents \in Nat /\ extension \in Extending
  BY PeclFacts DEF PeclInv, PeclTypes
<1>2. PICK marred : marred = ~(extension.step = "idle")
  OBVIOUS
<1>3. /\ extension' = [extension EXCEPT !.marred = marred] /\ settled' = FALSE
      /\ marred \in BOOLEAN /\ events < MaxEvents /\ events' = events + 1
  BY <1>2 DEF Pecl!ByHand, Pecl!Event, Pecl!Doing
<1>4. /\ extension' \in Extending /\ extension'.step = extension.step
      /\ extension'.kind = extension.kind /\ extension'.package = extension.package
      /\ extension'.version = extension.version /\ extension'.wanted = extension.wanted
      /\ extension'.seen = extension.seen
      /\ extension'.done = extension.done /\ extension'.todo = extension.todo
      /\ extension'.marred = marred
  BY <1>1, <1>3 DEF Extending
<1>5. events' \in 0 .. MaxEvents
  BY <1>1, <1>3
<1>6. PeclTypes'
  BY <1>3, <1>4, <1>5 DEF PeclInv, PeclTypes
<1>7. ListsInv'
  BY <1>4 DEF PeclInv, ListsInv, ListsOwn
<1>8. WorkInv'
  <2>1. extension.step = "idle" => extension' = extension
    <3>1. extension.step = "idle" => extension.marred = FALSE
      BY NoExtensionFacts DEF PeclInv, WorkInv
    <3> QED
      BY <1>1, <1>2, <1>3, <3>1 DEF Extending
  <2>2. ListsOwn(extension.package, [version |-> extension.version, files |-> extension.done])'
        <=> ListsOwn(extension.package, [version |-> extension.version, files |-> extension.done])
    BY <1>4 DEF ListsOwn
  <2>3. extension'.step = "idle" => extension' = Pecl!NoExtension
    BY <1>4, <2>1 DEF PeclInv, WorkInv
  <2>4. extension'.step # "idle" => extension'.kind # "none"
    BY <1>4 DEF PeclInv, WorkInv
  <2> QED
    BY <1>4, <2>2, <2>3, <2>4 DEF PeclInv, WorkInv
<1>9. SeenInv'
  BY <1>4 DEF PeclInv, SeenInv
<1>10. PlaceInv'
  <2>1. extension.kind = "provision" => marred
    BY <1>2, NoExtensionFacts DEF PeclInv, WorkInv
  <2> QED
    BY <1>3, <1>4, <2>1 DEF PlaceInv
<1> QED
  BY <1>6, <1>7, <1>8, <1>9, <1>10 DEF PeclInv

LEMMA TouchFileStep == PeclInv /\ Pecl!TouchFile => PeclInv'
<1> SUFFICES ASSUME PeclInv, Pecl!TouchFile PROVE PeclInv'
  OBVIOUS
<1>1. PICK f \in Pecl!Artifact, c \in {Pecl!Absent, Pecl!Foreign} :
        folder' = [folder EXCEPT ![f] = c]
  BY DEF Pecl!TouchFile
<1>2. folder' \in [Pecl!Artifact -> {Pecl!Absent, Pecl!Foreign} \cup Contents]
  BY <1>1 DEF PeclInv, PeclTypes
<1>3. configured' \in [Package -> Releases]
  BY DEF Pecl!TouchFile, PeclInv, PeclTypes
<1> QED
  BY <1>2, <1>3, ByHandStep DEF Pecl!TouchFile

LEMMA EditConfigStep == PeclInv /\ Pecl!EditConfig => PeclInv'
<1> SUFFICES ASSUME PeclInv, Pecl!EditConfig PROVE PeclInv'
  OBVIOUS
<1>1. PICK p \in Package, v \in Release \cup {NoRelease} :
        configured' = [configured EXCEPT ![p] = v]
  BY DEF Pecl!EditConfig
<1>2. configured' \in [Package -> Releases]
  BY <1>1 DEF PeclInv, PeclTypes, Releases
<1>3. folder' \in [Pecl!Artifact -> {Pecl!Absent, Pecl!Foreign} \cup Contents]
  BY DEF Pecl!EditConfig, PeclInv, PeclTypes
<1> QED
  BY <1>2, <1>3, ByHandStep DEF Pecl!EditConfig

LEMMA ReplacePHPStep == PeclInv /\ Pecl!ReplacePHP => PeclInv'
<1> SUFFICES ASSUME PeclInv, Pecl!ReplacePHP PROVE PeclInv'
  OBVIOUS
<1>1. /\ extension = Pecl!NoExtension /\ settled' = FALSE
      /\ folder' = [f \in Pecl!Artifact |-> Pecl!Absent] /\ records' = Pecl!NoRecords
      /\ enabled' = {} /\ UNCHANGED <<configured, extension>>
      /\ events < MaxEvents /\ events' = events + 1
  BY DEF Pecl!ReplacePHP, Pecl!Doing, Pecl!Event, PeclInv, WorkInv
<1>2. events' \in 0 .. MaxEvents
  <2>1. events \in 0 .. MaxEvents /\ MaxEvents \in Nat
    BY PeclFacts DEF PeclInv, PeclTypes
  <2> QED
    BY <1>1, <2>1
<1>3. PeclTypes'
  <2>1. folder' \in [Pecl!Artifact -> {Pecl!Absent, Pecl!Foreign} \cup Contents]
    BY <1>1
  <2> QED
    BY <1>1, <1>2, <2>1, PeclFacts DEF PeclInv, PeclTypes
<1>4. ListsInv'
  BY <1>1, PeclFacts, NoExtensionFacts DEF ListsInv, ListsOwn
<1>5. WorkInv' /\ SeenInv'
  BY <1>1, NoExtensionFacts DEF WorkInv, SeenInv, Working, Installing, Listed
<1>6. PlaceInv'
  BY <1>1, NoExtensionFacts DEF PlaceInv
<1> QED
  BY <1>3, <1>4, <1>5, <1>6 DEF PeclInv

LEMMA PeclStep == PeclInv /\ [Pecl!PeclNext]_peclVars => PeclInv'
<1> SUFFICES ASSUME PeclInv, [Pecl!PeclNext]_peclVars PROVE PeclInv'
  OBVIOUS
<1>1. CASE UNCHANGED peclVars
  <2>1. PeclTypes' /\ ListsInv'
    BY <1>1 DEF peclVars, PeclInv, PeclTypes, ListsInv, ListsOwn
  <2>2. WorkInv' /\ SeenInv'
    BY <1>1 DEF peclVars, PeclInv, WorkInv, SeenInv, ListsOwn
  <2>3. PlaceInv'
    BY <1>1 DEF peclVars, PeclInv, PlaceInv, InPlace, Known, Pending
  <2> QED
    BY <2>1, <2>2, <2>3 DEF PeclInv
<1>2. CASE Pecl!PeclNext
  BY <1>2, InstallExtensionStep, RemoveExtensionStep, ProvisionStep, NextPackageStep, RereadStep,
     PlaceModuleStep, PutModuleStep, RefuseModuleStep, PlaceLibraryStep, PutLibraryStep,
     MeetLibraryStep, UnlistStep, ListStep, SweepStep, DeleteFileStep, WriteConfigStep,
     SyncPackagesStep, KillPeclStep, TouchFileStep, EditConfigStep, ReplacePHPStep
  DEF Pecl!PeclNext
<1> QED
  BY <1>1, <1>2

LEMMA PeclFollows == PeclInv => Pecl!ExtensionsLoad
<1> SUFFICES ASSUME PeclInv, settled, extension.step = "idle"
             PROVE  /\ enabled = {p \in Package : configured[p] # NoRelease}
                    /\ \A p \in enabled :
                          /\ folder[p] = Pecl!Content(configured[p])
                          /\ Pecl!OwnedBy(records, p, Shared) => folder[Shared] # Pecl!Absent
  BY DEF Pecl!ExtensionsLoad, Pecl!Doing
<1>1. ~extension.marred /\ Pending = {} /\ Known = records
  BY NoExtensionFacts DEF PeclInv, WorkInv, Pending, Known, Working, Installing
<1>2. /\ enabled = {p \in Package : configured[p] # NoRelease}
      /\ \A p \in Package : configured[p] # NoRelease => InPlace(p)
  BY <1>1 DEF PeclInv, PlaceInv
<1> QED
  BY <1>1, <1>2 DEF InPlace, Pecl!OwnedBy

-----------------------------------------------------------------------------
(* From what is invariant to the types of these parts. *)

LEMMA EnvironmentsTyped == EnvInv => Project!EnvironmentTypeOK
<1> SUFFICES ASSUME EnvInv PROVE Project!EnvironmentTypeOK
  OBVIOUS
<1>1. \A e \in Editor : editing[e].tools \subseteq Shim
  BY DEF EnvInv, EnvTypes, Edit
<1>2. files \in [Project!Name -> [form : {"absent", "good", "bad"}, tools : SUBSET Shim]]
  BY DEF EnvInv, EnvTypes, EnvFile
<1> QED
  BY <1>1, <1>2 DEF EnvInv, EnvTypes, Project!EnvironmentTypeOK

LEMMA PeclTyped == PeclInv => Pecl!PeclTypeOK
<1> SUFFICES ASSUME PeclInv PROVE Pecl!PeclTypeOK
  OBVIOUS
<1>1. ASSUME NEW p \in Package PROVE DOMAIN records[p].files \subseteq Pecl!Artifact
  <2>1. records[p].files \in Contained
    BY <1>1 DEF PeclInv, PeclTypes, Listing
  <2> QED
    BY <2>1 DEF Contained
<1>2. folder \in [Pecl!Artifact ->
                    {Pecl!Absent, Pecl!Foreign} \cup {Pecl!Content(v) : v \in Release}]
  BY DEF PeclInv, PeclTypes, Contents
<1> QED
  BY <1>1, <1>2 DEF PeclInv, PeclTypes, Releases, Pecl!PeclTypeOK

LEMMA ReleaseTyped == ReleaseInv => Upstream!ReleaseTypeOK
<1> SUFFICES ASSUME ReleaseInv PROVE Upstream!ReleaseTypeOK
  OBVIOUS
<1>1. /\ offered \in Seq(Tags) /\ Upstream!IsInjective(offered) /\ news \in 0 .. MaxNews
      /\ copy \in [Tags -> 1 .. MaxNews + 1] /\ download \in Downloading
  BY DEF ReleaseInv, ReleaseTypes, Sums
<1>2. Upstream!Range(offered) \subseteq Tags
  BY <1>1 DEF Upstream!Range
<1>3. download.got \in Seq(Entry)
  BY <1>1 DEF Downloading
<1>4. Upstream!Range(download.got) \subseteq [tag : Tags, copy : 1 .. MaxNews + 1]
  <2>1. ASSUME NEW s \in Seq(Entry) PROVE \A i \in DOMAIN s : s[i] \in Entry
    OBVIOUS
  <2>2. Upstream!Range(download.got) \subseteq Entry
    BY <1>3, <2>1 DEF Upstream!Range
  <2> QED
    BY <2>2 DEF Entry, Sums
<1>5. DOMAIN download = {"step", "tool", "request", "page", "tries", "got", "version", "sum",
                         "archive", "lasting", "steady"}
  BY <1>1 DEF Downloading
<1>6. /\ download.step \in ReleaseSteps /\ download.tool \in Upstream!Tool
      /\ download.request \in Requests /\ download.page \in Nat \ {0}
      /\ download.tries \in 1 .. MaxTries
  BY <1>1 DEF Downloading
<1>7. /\ download.version \in Tags \cup Requests /\ download.sum \in Sums \cup {0}
      /\ download.archive \in Archives /\ download.lasting \subseteq Tags
      /\ download.steady \in BOOLEAN
  BY <1>1 DEF Downloading
<1>9. download.archive \in [content : (1 .. MaxNews + 1) \cup {Damaged}, comment : 0 .. MaxNews + 1]
  <2>1. /\ DOMAIN download.archive = {"content", "comment"}
        /\ download.archive = [content |-> download.archive.content,
                               comment |-> download.archive.comment]
        /\ download.archive.content \in Sums \cup {Damaged}
        /\ download.archive.comment \in Sums \cup {0}
    BY <1>7 DEF Archives
  <2>2. Sums \cup {0} \subseteq 0 .. MaxNews + 1
    BY ReleaseFacts DEF Sums
  <2> QED
    BY <2>1, <2>2 DEF Sums
<1>8. download.sum \in 0 .. MaxNews + 1
  BY <1>7, ReleaseFacts DEF Sums
<1> QED
  BY <1>1, <1>2, <1>4, <1>5, <1>6, <1>7, <1>8, <1>9
  DEF ReleaseSteps, Upstream!ReleaseTypeOK

LEMMA ToolchainTyped == MSVCInv => Native!MSVCTypeOK
<1> SUFFICES ASSUME MSVCInv PROVE Native!MSVCTypeOK
  OBVIOUS
<1>1. MSVCTypes
  BY DEF MSVCInv
<1>2. level \in [Studios -> 0 .. MaxChanges + 1]
  <2>1. /\ level \in [Studios -> Nat] /\ \A s \in Studios : level[s] <= machine + 1
        /\ machine \in 0 .. MaxChanges /\ MaxChanges \in Nat
    BY <1>1, MSVCFacts DEF MSVCTypes
  <2>2. ASSUME NEW s \in Studios PROVE level[s] \in 0 .. MaxChanges + 1
    <3>1. level[s] \in Nat /\ level[s] <= machine + 1
      BY <2>1
    <3> QED
      BY <2>1, <3>1
  <2> QED
    BY <2>1, <2>2
<1>3. DOMAIN runtime = {"major", "toolset"} /\ runtime.toolset \in Toolset \cup {Unknown}
  BY <1>1 DEF MSVCTypes
<1>4. Native!Recorded => capture \in Native!Captured /\ capture.listed > 0
  BY <1>1 DEF MSVCInv, MSVCTypes, CaptureInv, Native!Recorded
<1>5. /\ DOMAIN sync = DOMAIN Native!NoSync /\ sync.step \in SyncSteps
      /\ sync.studio \in Studios \cup {Void} /\ sync.result \in Native!Environment \cup {Void}
  <2>1. sync \in Syncing
    BY <1>1 DEF MSVCTypes
  <2>2. DOMAIN sync = DOMAIN Native!NoSync
    BY <2>1 DEF Syncing, Native!NoSync
  <2> QED
    BY <2>1, <2>2 DEF Syncing
<1> QED
  BY <1>1, <1>2, <1>3, <1>4, <1>5 DEF MSVCTypes, SyncSteps, Native!MSVCTypeOK

LEMMA PHPTyped == PHPInv => Runtime!PHPTypeOK
<1> SUFFICES ASSUME PHPInv PROVE Runtime!PHPTypeOK
  OBVIOUS
<1>1. act.wants \in Runtime!Wants /\ act.todo \subseteq ByPIE
  BY DEF PHPInv, PHPTypes, PHPAct
<1>2. builtin \subseteq Module /\ suggested \subseteq Module
  BY DEF PHPInv, PHPTypes
<1> QED
  BY <1>1, <1>2 DEF PHPInv, PHPTypes, Lines, Runtime!PHPTypeOK

-----------------------------------------------------------------------------
(* The framework's files.  First what a sequence picked from another one is: *)
(* the items at some positions, in their order.                              *)

Rank(I, i) == Cardinality({j \in I : j <= i})

\* A set of positions, and what it means that g keeps their order.
Positions(I) == I \in SUBSET Nat /\ IsFiniteSet(I)
Rising(g, I, J) ==
  /\ g \in [I -> J] /\ \A j \in J : \E i \in I : g[i] = j
  /\ \A i, j \in I : i < j => g[i] < g[j]

LEMMA Counts == \A S : Hooks!Cardinality(S) = Cardinality(S)
BY DEF Cardinality, Hooks!Cardinality

LEMMA RankStep ==
  ASSUME NEW I, Positions(I), NEW i \in I, NEW j \in I, i < j
  PROVE  Rank(I, i) < Rank(I, j)
<1> DEFINE A == {k \in I : k <= i}
           B == {k \in I : k <= j}
<1>1. IsFiniteSet(B) /\ A \in SUBSET B /\ j \in B /\ j \notin A
  <2>1. i \in Nat /\ j \in Nat /\ \A k \in I : k \in Nat
    BY DEF Positions
  <2>2. B \in SUBSET I
    OBVIOUS
  <2>3. IsFiniteSet(B)
    BY <2>2, FS_Subset DEF Positions
  <2>4. \A k \in I : k <= i => k <= j
    BY <2>1
  <2>5. j <= j /\ ~(j <= i)
    BY <2>1
  <2> QED
    BY <2>3, <2>4, <2>5
<1>2. IsFiniteSet(A) /\ Cardinality(A) <= Cardinality(B) /\ Cardinality(A) # Cardinality(B)
  BY <1>1, FS_Subset
<1>3. Cardinality(A) \in Nat /\ Cardinality(B) \in Nat
  BY <1>1, <1>2, FS_CardinalityType
<1> QED
  BY <1>2, <1>3 DEF Rank

LEMMA RankType ==
  ASSUME NEW I, Positions(I), NEW i \in I
  PROVE  Rank(I, i) \in 1 .. Cardinality(I)
<1> DEFINE A == {k \in I : k <= i}
<1>1. A \in SUBSET I /\ i \in A
  BY DEF Positions
<1>2. IsFiniteSet(A) /\ Cardinality(A) <= Cardinality(I)
  BY <1>1, FS_Subset DEF Positions
<1>3. Cardinality(A) # 0
  BY <1>1, <1>2, FS_EmptySet
<1>4. Cardinality(A) \in Nat /\ Cardinality(I) \in Nat
  BY <1>2, FS_CardinalityType DEF Positions
<1> QED
  BY <1>2, <1>3, <1>4 DEF Rank

LEMMA RankInjective ==
  ASSUME NEW I, Positions(I), NEW i \in I, NEW j \in I, Rank(I, i) = Rank(I, j)
  PROVE  i = j
<1>1. i \in Nat /\ j \in Nat
  BY DEF Positions
<1>2. Rank(I, i) \in Int
  BY RankType
<1>3. ~(i < j) /\ ~(j < i)
  BY <1>2, RankStep
<1> QED
  BY <1>1, <1>3

\* The n-th position is one of I, and the only one of its rank.
LEMMA NthIs ==
  ASSUME NEW I, Positions(I)
  PROVE  /\ Cardinality(I) \in Nat
         /\ \A n \in 1 .. Cardinality(I) : Hooks!Nth(I, n) \in I /\ Rank(I, Hooks!Nth(I, n)) = n
         /\ \A i \in I : Rank(I, i) \in 1 .. Cardinality(I) /\ Hooks!Nth(I, Rank(I, i)) = i
<1> DEFINE N == 1 .. Cardinality(I)
           f == [i \in I |-> Rank(I, i)]
<1>1. Cardinality(I) \in Nat /\ IsFiniteSet(I)
  BY FS_CardinalityType DEF Positions
<1>2. IsFiniteSet(N) /\ Cardinality(N) = Cardinality(I)
  <2>1. IsFiniteSet(N) /\ Cardinality(N) = IF 1 > Cardinality(I) THEN 0 ELSE Cardinality(I) - 1 + 1
    BY <1>1, FS_Interval
  <2> QED
    BY <1>1, <2>1
<1>3. f \in Injection(I, N)
  <2>1. f \in [I -> N]
    BY RankType
  <2>2. \A i, j \in I : f[i] = f[j] => i = j
    BY RankInjective
  <2> QED
    BY <2>1, <2>2 DEF Injection, IsInjective
<1>4. f \in Surjection(I, N)
  BY <1>1, <1>2, <1>3, FS_Injection
<1>5. \A n \in N : \E i \in I : Rank(I, i) = n
  BY <1>4 DEF Surjection
<1>6. \A n \in N : Hooks!Nth(I, n) \in I /\ Rank(I, Hooks!Nth(I, n)) = n
  BY <1>5, Counts DEF Hooks!Nth, Rank
<1>7. \A i \in I : Rank(I, i) \in N
  BY RankType
<1>8. ASSUME NEW i \in I PROVE Hooks!Nth(I, Rank(I, i)) = i
  <2>1. Hooks!Nth(I, Rank(I, i)) \in I /\ Rank(I, Hooks!Nth(I, Rank(I, i))) = Rank(I, i)
    BY <1>6, <1>7
  <2> QED
    BY <2>1, RankInjective
<1> QED
  BY <1>1, <1>6, <1>7, <1>8

\* The first position.
LEMMA FirstPosition ==
  ASSUME NEW I, Positions(I), I # {}
  PROVE  \E i \in I : \A j \in I : i <= j
<1>1. Cardinality(I) \in Nat /\ Cardinality(I) # 0
  BY FS_EmptySet, FS_CardinalityType DEF Positions
<1>2. Hooks!Nth(I, 1) \in I /\ Rank(I, Hooks!Nth(I, 1)) = 1
  BY <1>1, NthIs
<1>3. ASSUME NEW j \in I PROVE Hooks!Nth(I, 1) <= j
  <2>1. j \in Nat /\ Hooks!Nth(I, 1) \in Nat
    BY <1>2 DEF Positions
  <2>2. ~(Rank(I, j) < 1)
    BY RankType
  <2>3. ~(j < Hooks!Nth(I, 1))
    BY <1>2, <2>2, RankStep
  <2> QED
    BY <2>1, <2>3
<1> QED
  BY <1>2, <1>3

LEMMA PickedIs ==
  ASSUME NEW s, NEW I
  PROVE  Hooks!Picked(s, I) = [n \in 1 .. Cardinality(I) |-> s[Hooks!Nth(I, n)]]
BY Counts DEF Hooks!Picked

\* A rising map keeps ranks, so what is picked is the same.
LEMMA RisingRank ==
  ASSUME NEW I, NEW J, Positions(I), Positions(J), NEW g, Rising(g, I, J), NEW i \in I
  PROVE  Rank(J, g[i]) = Rank(I, i)
<1> DEFINE A == {k \in I : k <= i}
           B == {k \in J : k <= g[i]}
           h == [k \in A |-> g[k]]
<1>1. g \in [I -> J] /\ \A k \in I : k \in Nat
  BY DEF Rising, Positions
<1>2. \A k \in J : k \in Nat
  BY DEF Positions
<1>3. \A k \in I : k <= i <=> g[k] <= g[i]
  <2> SUFFICES ASSUME NEW k \in I PROVE k <= i <=> g[k] <= g[i]
    OBVIOUS
  <2>1. k \in Nat /\ i \in Nat /\ g[k] \in Nat /\ g[i] \in Nat
    BY <1>1, <1>2
  <2>2. k < i => g[k] < g[i]
    BY DEF Rising
  <2>3. i < k => g[i] < g[k]
    BY DEF Rising
  <2> QED
    BY <2>1, <2>2, <2>3
<1>4. h \in Bijection(A, B)
  <2>1. h \in [A -> B]
    BY <1>1, <1>3
  <2>2. \A k, l \in A : h[k] = h[l] => k = l
    <3> SUFFICES ASSUME NEW k \in A, NEW l \in A, k # l PROVE h[k] # h[l]
      OBVIOUS
    <3>1. k \in Nat /\ l \in Nat /\ g[k] \in Nat /\ g[l] \in Nat
      BY <1>1, <1>2
    <3>2. g[k] < g[l] \/ g[l] < g[k]
      BY <3>1 DEF Rising
    <3> QED
      BY <3>1, <3>2
  <2>3. \A b \in B : \E a \in A : h[a] = b
    BY <1>3 DEF Rising
  <2> QED
    BY <2>1, <2>2, <2>3 DEF Bijection, Injection, IsInjective, Surjection
<1>5. IsFiniteSet(A)
  <2>1. A \in SUBSET I
    OBVIOUS
  <2> QED
    BY <2>1, FS_Subset DEF Positions
<1>6. Cardinality(B) = Cardinality(A)
  BY <1>4, <1>5, FS_Bijection DEF ExistsBijection
<1> QED
  BY <1>6 DEF Rank

LEMMA PickedSame ==
  ASSUME NEW s, NEW t, NEW I, NEW J, Positions(I), Positions(J), NEW g, Rising(g, I, J),
         \A i \in I : t[g[i]] = s[i]
  PROVE  Hooks!Picked(s, I) = Hooks!Picked(t, J)
<1>1. g \in Bijection(I, J)
  <2>1. g \in [I -> J] /\ \A k \in I : k \in Nat
    BY DEF Rising, Positions
  <2>2. \A k \in J : k \in Nat
    BY DEF Positions
  <2>3. \A k, l \in I : g[k] = g[l] => k = l
    <3> SUFFICES ASSUME NEW k \in I, NEW l \in I, k # l PROVE g[k] # g[l]
      OBVIOUS
    <3>1. k \in Nat /\ l \in Nat /\ g[k] \in Nat /\ g[l] \in Nat
      BY <2>1, <2>2
    <3>2. g[k] < g[l] \/ g[l] < g[k]
      BY <3>1 DEF Rising
    <3> QED
      BY <3>1, <3>2
  <2> QED
    BY <2>1, <2>3 DEF Bijection, Injection, IsInjective, Surjection, Rising
<1>2. Cardinality(J) = Cardinality(I)
  BY <1>1, FS_Bijection DEF ExistsBijection, Positions
<1>3. ASSUME NEW n \in 1 .. Cardinality(I) PROVE s[Hooks!Nth(I, n)] = t[Hooks!Nth(J, n)]
  <2>1. Hooks!Nth(I, n) \in I /\ Rank(I, Hooks!Nth(I, n)) = n
    BY NthIs
  <2>2. g[Hooks!Nth(I, n)] \in J
    BY <2>1 DEF Rising
  <2>3. Rank(J, g[Hooks!Nth(I, n)]) = n
    BY <2>1, RisingRank
  <2>4. Hooks!Nth(J, n) = g[Hooks!Nth(I, n)]
    BY <2>2, <2>3, NthIs
  <2> QED
    BY <2>1, <2>4
<1> QED
  BY <1>2, <1>3, PickedIs

\* What is picked is a sequence of what is at the positions, each once.
PickedFrom(s, I, S) ==
  LET p == Hooks!Picked(s, I)
  IN  /\ Positions(I) /\ p \in Seq(S) /\ Len(p) = Cardinality(I) /\ Cardinality(I) \in Nat
      /\ \A n \in 1 .. Cardinality(I) : Hooks!Nth(I, n) \in I /\ p[n] = s[Hooks!Nth(I, n)]
      /\ \A i \in I : \E n \in 1 .. Cardinality(I) : p[n] = s[i]

LEMMA PickedSeq ==
  ASSUME NEW S, NEW s \in Seq(S), NEW I, I \subseteq 1 .. Len(s)
  PROVE  PickedFrom(s, I, S)
<1>1. Positions(I)
  <2>1. IsFiniteSet(1 .. Len(s))
    BY FS_Interval
  <2>2. IsFiniteSet(I)
    BY <2>1, FS_Subset
  <2> QED
    BY <2>2 DEF Positions
<1>2. Cardinality(I) \in Nat
  BY <1>1, NthIs
<1>3. \A n \in 1 .. Cardinality(I) : Hooks!Nth(I, n) \in I
  BY <1>1, NthIs
<1>4. \A n \in 1 .. Cardinality(I) : s[Hooks!Nth(I, n)] \in S
  BY <1>3, ElementOfSeq
<1>5. Hooks!Picked(s, I) = [n \in 1 .. Cardinality(I) |-> s[Hooks!Nth(I, n)]]
  BY PickedIs
<1>6. Hooks!Picked(s, I) \in [1 .. Cardinality(I) -> S]
  BY <1>4, <1>5
<1>7. Hooks!Picked(s, I) \in Seq(S) /\ Len(Hooks!Picked(s, I)) = Cardinality(I)
  BY <1>2, <1>6
<1>8. \A i \in I : \E n \in 1 .. Cardinality(I) : Hooks!Picked(s, I)[n] = s[i]
  <2> SUFFICES ASSUME NEW i \in I
               PROVE  \E n \in 1 .. Cardinality(I) : Hooks!Picked(s, I)[n] = s[i]
    OBVIOUS
  <2>1. Rank(I, i) \in 1 .. Cardinality(I) /\ Hooks!Nth(I, Rank(I, i)) = i
    BY <1>1, NthIs
  <2> QED
    BY <1>5, <2>1
<1> QED
  BY <1>1, <1>2, <1>3, <1>5, <1>7, <1>8 DEF PickedFrom

LEMMA PickedAll ==
  ASSUME NEW S, NEW s \in Seq(S)
  PROVE  Hooks!Picked(s, 1 .. Len(s)) = s
<1> DEFINE I == 1 .. Len(s)
<1>1. ASSUME NEW i \in I PROVE Rank(I, i) = i
  <2>1. {j \in I : j <= i} = 1 .. i
    OBVIOUS
  <2>2. i \in Int /\ i >= 1
    OBVIOUS
  <2>3. Cardinality(1 .. i) = IF 1 > i THEN 0 ELSE i - 1 + 1
    BY <2>2, FS_Interval
  <2>4. Cardinality(1 .. i) = i
    BY <2>2, <2>3
  <2> HIDE DEF I
  <2>5. Rank(I, i) = Cardinality(1 .. i)
    BY <2>1 DEF Rank
  <2> QED
    BY <2>4, <2>5
<1>2. Positions(I) /\ Cardinality(I) = Len(s)
  <2>1. IsFiniteSet(I) /\ Cardinality(I) = IF 1 > Len(s) THEN 0 ELSE Len(s) - 1 + 1
    BY FS_Interval
  <2>2. Len(s) \in Nat
    OBVIOUS
  <2> QED
    BY <2>1, <2>2 DEF Positions
<1>3. \A n \in I : Hooks!Nth(I, n) = n
  <2> SUFFICES ASSUME NEW n \in I PROVE Hooks!Nth(I, n) = n
    OBVIOUS
  <2>1. Rank(I, n) = n
    BY <1>1
  <2>2. Hooks!Nth(I, Rank(I, n)) = n
    BY <1>2, NthIs
  <2> QED
    BY <2>1, <2>2
<1>4. Hooks!Picked(s, I) = [n \in I |-> s[n]]
  BY <1>2, <1>3, PickedIs
<1>5. s = [n \in I |-> s[n]]
  OBVIOUS
<1> QED
  BY <1>4, <1>5

\* One position more, behind the others.
LEMMA PickedMore ==
  ASSUME NEW S, NEW s \in Seq(S), NEW I, I \subseteq 1 .. Len(s), NEW m \in 1 .. Len(s),
         \A i \in I : i < m
  PROVE  Hooks!Picked(s, I \cup {m}) = Append(Hooks!Picked(s, I), s[m])
<1> DEFINE J == I \cup {m}
           p == Hooks!Picked(s, I)
           q == Hooks!Picked(s, J)
<1>1. Positions(I) /\ p \in Seq(S) /\ Len(p) = Cardinality(I) /\ Cardinality(I) \in Nat
  BY PickedSeq DEF PickedFrom
<1>2. J \subseteq 1 .. Len(s)
  OBVIOUS
<1>3. Positions(J) /\ q \in Seq(S) /\ Len(q) = Cardinality(J) /\ Cardinality(J) \in Nat
  BY <1>2, PickedSeq DEF PickedFrom
<1>4. Cardinality(J) = Cardinality(I) + 1
  <2>1. m \notin I
    OBVIOUS
  <2> QED
    BY <1>1, <2>1, FS_AddElement DEF Positions
<1>5. ASSUME NEW i \in I PROVE Rank(J, i) = Rank(I, i)
  <2>1. i \in Int /\ i < m /\ m \in Int
    OBVIOUS
  <2>2. {j \in J : j <= i} = {j \in I : j <= i}
    BY <2>1
  <2> QED
    BY <2>2 DEF Rank
<1>6. Rank(J, m) = Cardinality(J)
  <2>1. \A j \in J : j \in Int /\ m \in Int /\ (j < m \/ j = m)
    OBVIOUS
  <2>2. \A j \in J : j <= m
    BY <2>1
  <2> HIDE DEF J
  <2>3. {j \in J : j <= m} = J
    BY <2>2
  <2> QED
    BY <2>3 DEF Rank
<1>7. ASSUME NEW n \in 1 .. Cardinality(I) PROVE q[n] = p[n]
  <2>1. Hooks!Nth(I, n) \in I /\ Rank(I, Hooks!Nth(I, n)) = n
    BY <1>1, NthIs
  <2>2. Rank(J, Hooks!Nth(I, n)) = n /\ Hooks!Nth(I, n) \in J
    BY <1>5, <2>1
  <2>3. Hooks!Nth(J, n) = Hooks!Nth(I, n)
    BY <1>3, <2>2, NthIs
  <2>4. n \in 1 .. Cardinality(J)
    BY <1>1, <1>4
  <2> QED
    BY <2>3, <2>4, PickedIs
<1>8. q[Cardinality(J)] = s[m]
  <2>1. Hooks!Nth(J, Cardinality(J)) = m
    BY <1>3, <1>6, NthIs
  <2>2. Cardinality(J) \in 1 .. Cardinality(J)
    BY <1>1, <1>4
  <2> QED
    BY <2>1, <2>2, PickedIs
<1>9. s[m] \in S
  OBVIOUS
<1> HIDE DEF J, p, q
<1>10. Append(p, s[m]) \in Seq(S) /\ Len(Append(p, s[m])) = Cardinality(J)
  BY <1>1, <1>4, <1>9
<1>11. ASSUME NEW n \in 1 .. Cardinality(J) PROVE q[n] = Append(p, s[m])[n]
  <2>1. CASE n \in 1 .. Cardinality(I)
    BY <1>1, <1>7, <1>9, <2>1
  <2>2. CASE n = Cardinality(J)
    BY <1>1, <1>4, <1>8, <1>9, <2>2
  <2> QED
    BY <1>1, <1>4, <2>1, <2>2
<1>12. q = Append(p, s[m])
  BY <1>3, <1>10, <1>11, SeqEqual
<1> QED
  BY <1>12 DEF J, p, q

-----------------------------------------------------------------------------
(* What an edit does to the text: what is not polka's is still there, in its *)
(* order, and a second edit changes nothing.                                 *)

Texts == Seq(Hooks!Entry)
KeySet == Hooks!Range(Keys)

LEMMA KeyFacts ==
  /\ Keys \in Seq(KeySet) /\ Len(Keys) \in Nat /\ DOMAIN Keys = 1 .. Len(Keys)
  /\ 1 \in DOMAIN Keys /\ Keys[1] \in KeySet
  /\ \A i, j \in 1 .. Len(Keys) : Keys[i] = Keys[j] => i = j
  /\ \A k \in KeySet : \E i \in 1 .. Len(Keys) : Keys[i] = k
  /\ Anchor \notin KeySet /\ Void \notin Credential /\ Void \notin Texts
  /\ MaxHooks \in Nat /\ MaxEdits \in Nat
<1>1. Hooks!FrameworkAssumption
  BY PartsAssumption
<1>2. Keys \in Seq(KeySet) /\ Keys # <<>> /\ Hooks!IsInjective(Keys) /\ Anchor \notin KeySet
  BY <1>1 DEF Hooks!FrameworkAssumption, KeySet
<1>3. Void \notin Credential /\ Void \notin Texts /\ MaxHooks \in Nat /\ MaxEdits \in Nat
  BY <1>1 DEF Hooks!FrameworkAssumption, Texts
<1>4. Len(Keys) \in Nat /\ DOMAIN Keys = 1 .. Len(Keys) /\ Len(Keys) # 0
  BY <1>2
<1>5. 1 \in DOMAIN Keys /\ Keys[1] \in KeySet
  BY <1>2, <1>4
<1>6. \A k \in KeySet : \E i \in 1 .. Len(Keys) : Keys[i] = k
  BY <1>4 DEF KeySet, Hooks!Range
<1>7. \A i, j \in 1 .. Len(Keys) : Keys[i] = Keys[j] => i = j
  BY <1>2, <1>4 DEF Hooks!IsInjective
<1> QED
  BY <1>2, <1>3, <1>4, <1>5, <1>6, <1>7

\* The items.
LEMMA SetIs ==
  ASSUME NEW k \in KeySet, NEW v \in Credential \cup {Own}
  PROVE  /\ Hooks!Set(k, v) \in Hooks!Entry /\ ~Hooks!Foreign(Hooks!Set(k, v))
         /\ Hooks!Managed(Hooks!Set(k, v))
         /\ Hooks!Set(k, v).kind = "set" /\ Hooks!Set(k, v).key = k
         /\ Hooks!Set(k, v).value = v
<1>1. k # Anchor
  BY KeyFacts
<1> QED
  BY <1>1 DEF Hooks!Set, Hooks!Entry, Hooks!Foreign, Hooks!Managed, KeySet

LEMMA CommentIs ==
  ASSUME NEW k \in KeySet
  PROVE  /\ Hooks!Comment(k) \in Hooks!Entry /\ ~Hooks!Foreign(Hooks!Comment(k))
         /\ Hooks!Comment(k).kind = "comment"
BY DEF Hooks!Comment, Hooks!Entry, Hooks!Foreign, KeySet

LEMMA ItemIs ==
  ASSUME NEW kind \in {"block", "blank", "odd", "open", "require"}
  PROVE  /\ Hooks!Item(kind) \in Hooks!Entry
         /\ Hooks!Foreign(Hooks!Item(kind)) <=> kind = "require"
         /\ Hooks!Item(kind).kind = kind /\ Hooks!Item(kind).key = Anchor
         /\ ~Hooks!Managed(Hooks!Item(kind))
BY KeyFacts DEF Hooks!Item, Hooks!Entry, Hooks!Foreign, Hooks!Managed, KeySet

LEMMA TextIs ==
  ASSUME NEW n \in {0, 1}
  PROVE  /\ Hooks!Text(n) \in Hooks!Entry /\ Hooks!Foreign(Hooks!Text(n))
         /\ Hooks!Text(n).kind = "text"
BY DEF Hooks!Text, Hooks!Entry, Hooks!Foreign

\* An entry that is managed and set is not foreign.
LEMMA ManagedIs ==
  ASSUME NEW e \in Hooks!Entry, Hooks!Managed(e)
  PROVE  /\ e.key \in KeySet /\ (e.kind \in {"set", "comment"} => ~Hooks!Foreign(e))
         /\ \A v : e.kind = "set" /\ e.value = v => e = Hooks!Set(e.key, v)
<1>1. e.key \in KeySet /\ e.key # Anchor
  BY KeyFacts DEF Hooks!Managed, KeySet
<1>2. e.kind \in {"set", "comment"} => ~Hooks!Foreign(e)
  BY <1>1 DEF Hooks!Foreign
<1>3. \A v : e.kind = "set" /\ e.value = v => e = Hooks!Set(e.key, v)
  BY DEF Hooks!Set, Hooks!Entry
<1> QED
  BY <1>1, <1>2, <1>3

\* What is missing: the keys that are not set, each once.
LEMMA MissingIs ==
  ASSUME NEW s \in Texts
  PROVE  /\ Hooks!Missing(s) \in Seq(KeySet)
         /\ \A n \in 1 .. Len(Hooks!Missing(s)) : Hooks!Missing(s)[n] \notin Hooks!Active(s)
         /\ \A k \in KeySet \ Hooks!Active(s) :
              \E n \in 1 .. Len(Hooks!Missing(s)) : Hooks!Missing(s)[n] = k
         /\ \A m, n \in 1 .. Len(Hooks!Missing(s)) :
              Hooks!Missing(s)[m] = Hooks!Missing(s)[n] => m = n
         /\ KeySet \subseteq Hooks!Active(s) => Hooks!Missing(s) = <<>>
<1> DEFINE I == {i \in DOMAIN Keys : Keys[i] \notin Hooks!Active(s)}
           p == Hooks!Picked(Keys, I)
<1>1. Hooks!Missing(s) = p
  BY DEF Hooks!Missing
<1>2. Keys \in Seq(KeySet) /\ DOMAIN Keys = 1 .. Len(Keys) /\ I \subseteq 1 .. Len(Keys)
  BY KeyFacts
<1>3. /\ Positions(I) /\ p \in Seq(KeySet) /\ Len(p) = Cardinality(I) /\ Cardinality(I) \in Nat
      /\ \A n \in 1 .. Cardinality(I) : Hooks!Nth(I, n) \in I /\ p[n] = Keys[Hooks!Nth(I, n)]
      /\ \A i \in I : \E n \in 1 .. Cardinality(I) : p[n] = Keys[i]
  <2>1. PickedFrom(Keys, I, KeySet)
    BY <1>2, PickedSeq
  <2> QED
    BY <2>1 DEF PickedFrom
<1>4. \A n \in 1 .. Len(p) : p[n] \notin Hooks!Active(s)
  BY <1>3
<1>5. ASSUME NEW k \in KeySet, k \notin Hooks!Active(s) PROVE \E n \in 1 .. Len(p) : p[n] = k
  <2>1. PICK i \in 1 .. Len(Keys) : Keys[i] = k
    BY KeyFacts
  <2>2. i \in I
    BY <1>2, <1>5, <2>1
  <2> QED
    BY <1>3, <2>1, <2>2
<1>6. ASSUME NEW m \in 1 .. Len(p), NEW n \in 1 .. Len(p), p[m] = p[n] PROVE m = n
  <2>1. /\ Hooks!Nth(I, m) \in I /\ Hooks!Nth(I, n) \in I
        /\ Keys[Hooks!Nth(I, m)] = Keys[Hooks!Nth(I, n)]
    BY <1>3, <1>6
  <2>2. Hooks!Nth(I, m) = Hooks!Nth(I, n)
    BY <1>2, <2>1, KeyFacts
  <2>3. Rank(I, Hooks!Nth(I, m)) = m /\ Rank(I, Hooks!Nth(I, n)) = n
    BY <1>3, NthIs
  <2> QED
    BY <2>2, <2>3
<1>7. ASSUME KeySet \subseteq Hooks!Active(s) PROVE p = <<>>
  <2>1. I = {}
    BY <1>2, <1>7
  <2>2. Len(p) = 0
    BY <1>3, <2>1, FS_EmptySet
  <2> QED
    BY <1>3, <2>2
<1> QED
  BY <1>1, <1>3, <1>4, <1>5, <1>6, <1>7

LEMMA AssignmentsIs ==
  ASSUME NEW keys \in Seq(KeySet), NEW v \in Credential
  PROVE  /\ Hooks!Assignments(keys, v) \in Texts
         /\ Len(Hooks!Assignments(keys, v)) = Len(keys)
         /\ \A n \in 1 .. Len(keys) : Hooks!Assignments(keys, v)[n] = Hooks!Set(keys[n], v)
         /\ keys = <<>> => Hooks!Assignments(keys, v) = <<>>
<1> DEFINE a == Hooks!Assignments(keys, v)
<1>1. DOMAIN keys = 1 .. Len(keys) /\ Len(keys) \in Nat
  OBVIOUS
<1>2. a = [n \in 1 .. Len(keys) |-> Hooks!Set(keys[n], v)]
  BY <1>1 DEF Hooks!Assignments
<1>3. \A n \in 1 .. Len(keys) : Hooks!Set(keys[n], v) \in Hooks!Entry
  BY SetIs, ElementOfSeq
<1>4. a \in [1 .. Len(keys) -> Hooks!Entry]
  BY <1>2, <1>3
<1>5. a \in Texts /\ Len(a) = Len(keys)
  BY <1>1, <1>4 DEF Texts
<1>6. keys = <<>> => a = <<>>
  <2>1. keys = <<>> => Len(a) = 0
    BY <1>5
  <2> QED
    BY <1>5, <2>1 DEF Texts
<1> QED
  BY <1>2, <1>5, <1>6

\* What is foreign in a text that is changed in place, or extended, or has something put
\* into it.
LEMMA ForeignPositions ==
  ASSUME NEW s \in Texts
  PROVE  /\ {i \in DOMAIN s : Hooks!Foreign(s[i])} \subseteq 1 .. Len(s)
         /\ Positions({i \in DOMAIN s : Hooks!Foreign(s[i])})
         /\ Hooks!Foreigns(s) \in Texts
<1> DEFINE I == {i \in DOMAIN s : Hooks!Foreign(s[i])}
<1>1. I \subseteq 1 .. Len(s) /\ s \in Seq(Hooks!Entry)
  BY DEF Texts
<1> QED
  BY <1>1, PickedSeq DEF PickedFrom, Hooks!Foreigns, Texts

LEMMA ForeignsMapped ==
  ASSUME NEW s \in Texts, NEW t \in Texts, Len(t) = Len(s),
         \A i \in 1 .. Len(s) : \/ t[i] = s[i]
                                \/ ~Hooks!Foreign(t[i]) /\ ~Hooks!Foreign(s[i])
  PROVE  Hooks!Foreigns(t) = Hooks!Foreigns(s)
<1> DEFINE I == {i \in DOMAIN s : Hooks!Foreign(s[i])}
           J == {i \in DOMAIN t : Hooks!Foreign(t[i])}
           g == [i \in I |-> i]
<1>1. DOMAIN s = 1 .. Len(s) /\ DOMAIN t = 1 .. Len(s)
  BY DEF Texts
<1>2. I = J /\ \A i \in I : t[i] = s[i]
  BY <1>1
<1>3. Positions(I) /\ Positions(J)
  BY ForeignPositions
<1>4. Rising(g, I, J)
  BY <1>2 DEF Rising
<1>5. \A i \in I : t[g[i]] = s[i]
  BY <1>2
<1> QED
  BY <1>3, <1>4, <1>5, PickedSame DEF Hooks!Foreigns

LEMMA ForeignsInserted ==
  ASSUME NEW s \in Texts, NEW t \in Texts, NEW u \in Nat, NEW n \in 1 .. Len(s) + 1,
         Len(t) = Len(s) + u,
         \A i \in 1 .. Len(s) : IF i < n THEN t[i] = s[i] ELSE t[i + u] = s[i],
         \A i \in n .. n + u - 1 : ~Hooks!Foreign(t[i])
  PROVE  Hooks!Foreigns(t) = Hooks!Foreigns(s)
<1> DEFINE I == {i \in DOMAIN s : Hooks!Foreign(s[i])}
           J == {i \in DOMAIN t : Hooks!Foreign(t[i])}
           g == [i \in I |-> IF i < n THEN i ELSE i + u]
<1>1. DOMAIN s = 1 .. Len(s) /\ DOMAIN t = 1 .. Len(s) + u /\ Len(s) \in Nat
  BY DEF Texts
<1>2. Positions(I) /\ Positions(J)
  BY ForeignPositions
<1>3. \A i \in I : g[i] \in J /\ t[g[i]] = s[i]
  <2> SUFFICES ASSUME NEW i \in I PROVE g[i] \in J /\ t[g[i]] = s[i]
    OBVIOUS
  <2>1. i \in 1 .. Len(s) /\ Hooks!Foreign(s[i])
    BY <1>1
  <2>2. g[i] \in 1 .. Len(s) + u /\ t[g[i]] = s[i]
    BY <1>1, <2>1
  <2> QED
    BY <1>1, <2>1, <2>2
<1>4. \A j \in J : \E i \in I : g[i] = j
  <2> SUFFICES ASSUME NEW j \in J PROVE \E i \in I : g[i] = j
    OBVIOUS
  <2>1. j \in 1 .. Len(s) + u /\ Hooks!Foreign(t[j])
    BY <1>1
  <2>2. j \notin n .. n + u - 1
    BY <2>1
  <2>3. CASE j < n
    <3>1. j \in 1 .. Len(s)
      BY <1>1, <2>1, <2>3
    <3>2. t[j] = s[j]
      BY <2>3, <3>1
    <3>3. j \in I
      BY <1>1, <2>1, <3>1, <3>2
    <3> QED
      BY <2>3, <3>3
  <2>4. CASE j >= n + u
    <3>1. j - u \in 1 .. Len(s) /\ ~(j - u < n) /\ (j - u) + u = j
      BY <1>1, <2>1, <2>4
    <3>2. t[j] = s[j - u]
      BY <3>1
    <3>3. j - u \in I
      BY <1>1, <2>1, <3>1, <3>2
    <3> QED
      BY <3>1, <3>3
  <2> QED
    BY <1>1, <2>1, <2>2, <2>3, <2>4
<1>5. \A i, j \in I : i < j => g[i] < g[j]
  BY <1>1
<1>6. Rising(g, I, J)
  BY <1>3, <1>4, <1>5 DEF Rising
<1> QED
  BY <1>2, <1>3, <1>6, PickedSame DEF Hooks!Foreigns

LEMMA ForeignsExtended ==
  ASSUME NEW s \in Texts, NEW u \in Texts, \A i \in 1 .. Len(u) : ~Hooks!Foreign(u[i])
  PROVE  Hooks!Foreigns(s \o u) = Hooks!Foreigns(s)
<1> DEFINE t == s \o u
<1>1. /\ t \in Texts /\ Len(t) = Len(s) + Len(u) /\ Len(s) \in Nat /\ Len(u) \in Nat
      /\ \A i \in 1 .. Len(s) : t[i] = s[i]
      /\ \A i \in Len(s) + 1 .. Len(s) + Len(u) : t[i] = u[i - Len(s)]
  BY ConcatProperties DEF Texts
<1>2. \A i \in Len(s) + 1 .. Len(s) + 1 + Len(u) - 1 : ~Hooks!Foreign(t[i])
  <2> SUFFICES ASSUME NEW i \in Len(s) + 1 .. Len(s) + 1 + Len(u) - 1
               PROVE  ~Hooks!Foreign(t[i])
    OBVIOUS
  <2>1. i - Len(s) \in 1 .. Len(u) /\ i \in Len(s) + 1 .. Len(s) + Len(u)
    BY <1>1
  <2> QED
    BY <1>1, <2>1
<1>3. Len(s) + 1 \in 1 .. Len(s) + 1
  BY <1>1
<1>4. \A i \in 1 .. Len(s) : IF i < Len(s) + 1 THEN t[i] = s[i] ELSE t[i + Len(u)] = s[i]
  BY <1>1
<1> HIDE DEF t
<1>5. Hooks!Foreigns(t) = Hooks!Foreigns(s)
  BY <1>1, <1>2, <1>3, <1>4, ForeignsInserted
<1> QED
  BY <1>5 DEF t

LEMMA ForeignsMore ==
  ASSUME NEW s \in Texts, NEW e \in Hooks!Entry, Hooks!Foreign(e)
  PROVE  Hooks!Foreigns(Append(s, e)) = Append(Hooks!Foreigns(s), e)
<1> DEFINE t == Append(s, e)
           I == {i \in DOMAIN s : Hooks!Foreign(s[i])}
           J == {i \in DOMAIN t : Hooks!Foreign(t[i])}
           m == Len(s) + 1
<1>1. /\ t \in Texts /\ Len(t) = m /\ Len(s) \in Nat /\ t[m] = e
      /\ \A i \in 1 .. Len(s) : t[i] = s[i]
      /\ DOMAIN s = 1 .. Len(s) /\ DOMAIN t = 1 .. m
  BY DEF Texts
<1> HIDE DEF t
<1>2. J = I \cup {m} /\ I \subseteq 1 .. Len(t) /\ m \in 1 .. Len(t) /\ \A i \in I : i < m
  BY <1>1
<1>3. Hooks!Picked(t, I \cup {m}) = Append(Hooks!Picked(t, I), t[m])
  BY <1>1, <1>2, PickedMore DEF Texts
<1>4. Hooks!Picked(t, I) = Hooks!Picked(s, I)
  <2>1. Positions(I)
    BY ForeignPositions
  <2>2. \A n \in 1 .. Cardinality(I) : Hooks!Nth(I, n) \in I
    BY <2>1, NthIs
  <2>3. \A n \in 1 .. Cardinality(I) : t[Hooks!Nth(I, n)] = s[Hooks!Nth(I, n)]
    BY <1>1, <2>2
  <2> QED
    BY <2>3, PickedIs
<1> QED
  BY <1>1, <1>2, <1>3, <1>4 DEF Hooks!Foreigns, t

-----------------------------------------------------------------------------
(* One edit after the other.                                                 *)

\* What is true of a text that a hook has edited.
Settled(type, t, v) ==
  /\ t \in Texts /\ ~Hooks!Refused(type, t) /\ Hooks!Edited(type, t, v) = t
  /\ type # "php-include" =>
       \A k \in KeySet : Hooks!Values(t, k) = {v}
HasBlock(t) == \E i \in 1 .. Len(t) : t[i].kind = "block"
EditedFrom(type, s, t, v) ==
  /\ Settled(type, t, v)
  /\ Hooks!Foreigns(t) = Hooks!Foreigns(s)
  /\ HasBlock(t) => type = "php-include" \/ HasBlock(s)

LEMMA TextFacts ==
  ASSUME NEW t \in Texts
  PROVE  /\ DOMAIN t = 1 .. Len(t) /\ Len(t) \in Nat /\ \A i \in 1 .. Len(t) : t[i] \in Hooks!Entry
         /\ t = [i \in 1 .. Len(t) |-> t[i]]
BY DEF Texts

LEMMA ActiveIs ==
  ASSUME NEW t \in Texts
  PROVE  \A k : k \in Hooks!Active(t) <=> \E i \in 1 .. Len(t) : t[i].kind = "set" /\ t[i].key = k
BY TextFacts DEF Hooks!Active

\* Values, once there is one.
LEMMA ValuesAre ==
  ASSUME NEW t \in Texts, NEW k \in KeySet, NEW v, k \in Hooks!Active(t),
         \A i \in 1 .. Len(t) : t[i].kind = "set" /\ t[i].key = k => t[i].value = v
  PROVE  Hooks!Values(t, k) = {v}
<1>1. PICK i \in 1 .. Len(t) : t[i].kind = "set" /\ t[i].key = k
  BY ActiveIs
<1>2. DOMAIN t = 1 .. Len(t)
  BY TextFacts
<1>3. v \in Hooks!Values(t, k)
  BY <1>1, <1>2 DEF Hooks!Values
<1>4. \A x \in Hooks!Values(t, k) : x = v
  BY <1>2 DEF Hooks!Values
<1> QED
  BY <1>3, <1>4

\* A text in which all keys are set, to v only.
AllSet(t, v) ==
  /\ t \in Texts /\ KeySet \subseteq Hooks!Active(t)
  /\ \A i \in 1 .. Len(t) : t[i].kind = "set" /\ Hooks!Managed(t[i]) => t[i].value = v

LEMMA AllSetValues ==
  ASSUME NEW t, NEW v, AllSet(t, v)
  PROVE  \A k \in KeySet : Hooks!Values(t, k) = {v}
<1> SUFFICES ASSUME NEW k \in KeySet PROVE Hooks!Values(t, k) = {v}
  OBVIOUS
<1>1. \A i \in 1 .. Len(t) : t[i].kind = "set" /\ t[i].key = k => t[i].value = v
  BY DEF AllSet, Hooks!Managed, KeySet
<1> QED
  BY <1>1, ValuesAre DEF AllSet

\* Where an entry is not changed by being set again.
LEMMA SetAgain ==
  ASSUME NEW t, NEW v, AllSet(t, v), NEW i \in 1 .. Len(t), t[i].kind = "set",
         Hooks!Managed(t[i])
  PROVE  Hooks!Set(t[i].key, v) = t[i]
<1>1. t[i] \in Hooks!Entry /\ t[i].value = v
  BY TextFacts DEF AllSet
<1> QED
  BY <1>1, ManagedIs


-----------------------------------------------------------------------------
\* A text whose managed entries are set where they are.

LEMMA RewriteIs ==
  ASSUME NEW s \in Texts, NEW v \in Credential, NEW L,
         \A i \in L : Hooks!Managed(s[i]) /\ s[i].kind \in {"set", "comment"}
  PROVE  LET t == Hooks!Rewrite(s, L, v)
         IN  /\ t \in Texts /\ Len(t) = Len(s)
             /\ \A i \in 1 .. Len(s) : t[i] = IF i \in L THEN Hooks!Set(s[i].key, v) ELSE s[i]
             /\ \A i \in 1 .. Len(s) :
                  /\ i \in L => t[i].kind = "set" /\ t[i].key = s[i].key /\ t[i].value = v
                  /\ s[i].kind = "set" => t[i].kind = "set"
                  /\ t[i].key = s[i].key
             /\ Hooks!Foreigns(t) = Hooks!Foreigns(s) /\ (HasBlock(t) => HasBlock(s))
<1> DEFINE t == Hooks!Rewrite(s, L, v)
<1>1. DOMAIN s = 1 .. Len(s) /\ Len(s) \in Nat /\ \A i \in 1 .. Len(s) : s[i] \in Hooks!Entry
  BY TextFacts
<1>2. ASSUME NEW i \in 1 .. Len(s), i \in L
      PROVE  /\ s[i].key \in KeySet /\ ~Hooks!Foreign(s[i])
             /\ Hooks!Set(s[i].key, v) \in Hooks!Entry /\ ~Hooks!Foreign(Hooks!Set(s[i].key, v))
             /\ Hooks!Set(s[i].key, v).kind = "set" /\ Hooks!Set(s[i].key, v).key = s[i].key
             /\ Hooks!Set(s[i].key, v).value = v
  <2>1. s[i] \in Hooks!Entry /\ Hooks!Managed(s[i]) /\ s[i].kind \in {"set", "comment"}
    BY <1>1, <1>2
  <2>2. s[i].key \in KeySet /\ ~Hooks!Foreign(s[i])
    BY <2>1, ManagedIs
  <2> QED
    BY <2>2, SetIs
<1>3. t = [i \in 1 .. Len(s) |-> IF i \in L THEN Hooks!Set(s[i].key, v) ELSE s[i]]
  BY <1>1 DEF Hooks!Rewrite
<1>4. t \in [1 .. Len(s) -> Hooks!Entry]
  BY <1>1, <1>2, <1>3
<1>5. t \in Texts /\ Len(t) = Len(s)
  BY <1>1, <1>4 DEF Texts
<1>6. \A i \in 1 .. Len(s) : t[i] = IF i \in L THEN Hooks!Set(s[i].key, v) ELSE s[i]
  BY <1>3
<1> HIDE DEF t
<1>7. \A i \in 1 .. Len(s) :
        /\ i \in L => t[i].kind = "set" /\ t[i].key = s[i].key /\ t[i].value = v
        /\ s[i].kind = "set" => t[i].kind = "set"
        /\ t[i].key = s[i].key
  BY <1>2, <1>6
<1>8. \A i \in 1 .. Len(s) : t[i] = s[i] \/ (~Hooks!Foreign(t[i]) /\ ~Hooks!Foreign(s[i]))
  BY <1>2, <1>6
<1>9. Hooks!Foreigns(t) = Hooks!Foreigns(s)
  BY <1>5, <1>8, ForeignsMapped
<1>10. HasBlock(t) => HasBlock(s)
  <2> SUFFICES ASSUME NEW i \in 1 .. Len(s), t[i].kind = "block" PROVE s[i].kind = "block"
    BY <1>5 DEF HasBlock
  <2> QED
    BY <1>6, <1>7
<1> QED
  BY <1>5, <1>6, <1>7, <1>9, <1>10 DEF t

\* A text to which the keys that are missing are added at the end.
Ending(w, v) ==
  /\ w \in Texts
  /\ \A n \in 1 .. Len(w) : w[n] = Hooks!Item("blank") \/ \E k \in KeySet : w[n] = Hooks!Set(k, v)

LEMMA EndingIs ==
  ASSUME NEW w, NEW v \in Credential, Ending(w, v), NEW n \in 1 .. Len(w)
  PROVE  /\ w[n] \in Hooks!Entry /\ ~Hooks!Foreign(w[n]) /\ w[n].kind \in {"set", "blank"}
         /\ w[n].kind = "set" => w[n].key \in KeySet /\ w[n].value = v
<1>1. CASE w[n] = Hooks!Item("blank")
  BY <1>1, ItemIs
<1>2. CASE \E k \in KeySet : w[n] = Hooks!Set(k, v)
  BY <1>2, SetIs
<1> QED
  BY <1>1, <1>2 DEF Ending

ExtendedBy(s, w, t) ==
  /\ t \in Texts /\ Hooks!Foreigns(t) = Hooks!Foreigns(s)
  /\ HasBlock(t) => HasBlock(s)
  /\ Len(t) = Len(s) + Len(w) /\ Len(s) \in Nat /\ Len(w) \in Nat
  /\ \A i \in 1 .. Len(s) : i \in 1 .. Len(t) /\ t[i] = s[i]
  /\ \A i \in 1 .. Len(w) : Len(s) + i \in 1 .. Len(t) /\ t[Len(s) + i] = w[i]
  /\ \A i \in 1 .. Len(t) : \/ i \in 1 .. Len(s)
                            \/ i - Len(s) \in 1 .. Len(w) /\ t[i] = w[i - Len(s)]

LEMMA Extended ==
  ASSUME NEW s \in Texts, NEW v \in Credential, NEW w, Ending(w, v)
  PROVE  ExtendedBy(s, w, s \o w)
<1> DEFINE t == s \o w
<1>1. /\ t \in Texts /\ Len(t) = Len(s) + Len(w) /\ Len(s) \in Nat /\ Len(w) \in Nat
      /\ \A i \in 1 .. Len(s) + Len(w) : t[i] = IF i <= Len(s) THEN s[i] ELSE w[i - Len(s)]
  BY ConcatProperties DEF Texts, Ending
<1>2. \A n \in 1 .. Len(w) : ~Hooks!Foreign(w[n]) /\ w[n].kind # "block"
  BY EndingIs
<1>3. Hooks!Foreigns(t) = Hooks!Foreigns(s)
  BY <1>2, ForeignsExtended DEF Ending
<1> HIDE DEF t
<1>4. ASSUME NEW i \in 1 .. Len(t)
      PROVE  \/ i \in 1 .. Len(s) /\ t[i] = s[i]
             \/ i - Len(s) \in 1 .. Len(w) /\ t[i] = w[i - Len(s)]
  <2>1. CASE i <= Len(s)
    BY <1>1, <2>1
  <2>2. CASE ~(i <= Len(s))
    BY <1>1, <2>2
  <2> QED
    BY <2>1, <2>2
<1>5. ASSUME NEW i \in 1 .. Len(w) PROVE Len(s) + i \in 1 .. Len(t) /\ t[Len(s) + i] = w[i]
  <2>1. Len(s) + i \in 1 .. Len(s) + Len(w) /\ ~(Len(s) + i <= Len(s)) /\ Len(s) + i - Len(s) = i
    BY <1>1
  <2> QED
    BY <1>1, <2>1
<1>6. \A i \in 1 .. Len(s) : i \in 1 .. Len(t) /\ t[i] = s[i]
  BY <1>1
<1>7. HasBlock(t) => HasBlock(s)
  <2> SUFFICES ASSUME NEW i \in 1 .. Len(t), t[i].kind = "block" PROVE HasBlock(s)
    BY DEF HasBlock
  <2> QED
    BY <1>2, <1>4 DEF HasBlock
<1> QED
  BY <1>1, <1>3, <1>4, <1>5, <1>6, <1>7 DEF ExtendedBy, t

\* With all the missing keys, all are set.
LEMMA AllActive ==
  ASSUME NEW s \in Texts, NEW v \in Credential, NEW w, Ending(w, v),
         \A k \in KeySet : k \notin Hooks!Active(s) => \E n \in 1 .. Len(w) : w[n] = Hooks!Set(k, v)
  PROVE  KeySet \subseteq Hooks!Active(s \o w)
<1> DEFINE t == s \o w
<1>0. ExtendedBy(s, w, t)
  BY Extended
<1> HIDE DEF t
<1> SUFFICES ASSUME NEW k \in KeySet PROVE k \in Hooks!Active(t)
  BY DEF t
<1>1. /\ t \in Texts
      /\ \A i \in 1 .. Len(s) : i \in 1 .. Len(t) /\ t[i] = s[i]
      /\ \A i \in 1 .. Len(w) : Len(s) + i \in 1 .. Len(t) /\ t[Len(s) + i] = w[i]
  BY <1>0 DEF ExtendedBy
<1>2. CASE k \in Hooks!Active(s)
  <2>1. PICK i \in 1 .. Len(s) : s[i].kind = "set" /\ s[i].key = k
    BY <1>2, ActiveIs
  <2>2. i \in 1 .. Len(t) /\ t[i] = s[i]
    BY <1>1
  <2> QED
    BY <1>1, <2>1, <2>2, ActiveIs
<1>3. CASE k \notin Hooks!Active(s)
  <2>1. PICK n \in 1 .. Len(w) : w[n] = Hooks!Set(k, v)
    BY <1>3
  <2>2. Len(s) + n \in 1 .. Len(t) /\ t[Len(s) + n] = Hooks!Set(k, v)
    BY <1>1, <2>1
  <2>3. t[Len(s) + n].kind = "set" /\ t[Len(s) + n].key = k
    BY <2>2, SetIs
  <2> QED
    BY <1>1, <2>2, <2>3, ActiveIs
<1> QED
  BY <1>2, <1>3

\* The missing keys as entries.
LEMMA MissingEnding ==
  ASSUME NEW s \in Texts, NEW v \in Credential, NEW a, a = Hooks!Assignments(Hooks!Missing(s), v)
  PROVE  /\ a \in Texts /\ Ending(a, v) /\ Len(a) = Len(Hooks!Missing(s)) /\ Len(a) \in Nat
         /\ \A n \in 1 .. Len(a) : a[n] = Hooks!Set(Hooks!Missing(s)[n], v)
                                   /\ Hooks!Missing(s)[n] \in KeySet
         /\ \A k \in KeySet : k \notin Hooks!Active(s) => \E n \in 1 .. Len(a) : a[n] = Hooks!Set(k, v)
         /\ KeySet \subseteq Hooks!Active(s) => a = <<>>
<1>1. Hooks!Missing(s) \in Seq(KeySet)
  BY MissingIs
<1>2. /\ a \in Texts /\ Len(a) = Len(Hooks!Missing(s))
      /\ \A n \in 1 .. Len(a) : a[n] = Hooks!Set(Hooks!Missing(s)[n], v)
      /\ Hooks!Missing(s) = <<>> => a = <<>>
  BY <1>1, AssignmentsIs
<1>3. \A n \in 1 .. Len(a) : Hooks!Missing(s)[n] \in KeySet
  BY <1>1, <1>2, ElementOfSeq
<1>4. Ending(a, v)
  BY <1>2, <1>3 DEF Ending
<1>5. \A k \in KeySet : k \notin Hooks!Active(s) => \E n \in 1 .. Len(a) : a[n] = Hooks!Set(k, v)
  <2> SUFFICES ASSUME NEW k \in KeySet, k \notin Hooks!Active(s)
               PROVE  \E n \in 1 .. Len(a) : a[n] = Hooks!Set(k, v)
    OBVIOUS
  <2>1. PICK n \in 1 .. Len(Hooks!Missing(s)) : Hooks!Missing(s)[n] = k
    BY MissingIs
  <2> QED
    BY <1>2, <2>1
<1>6. KeySet \subseteq Hooks!Active(s) => a = <<>>
  BY <1>2, MissingIs
<1>7. Len(a) \in Nat
  BY <1>2, TextFacts
<1> QED
  BY <1>2, <1>3, <1>4, <1>5, <1>6, <1>7

\* Rewriting what is v already changes nothing.
LEMMA RewriteAgain ==
  ASSUME NEW t \in Texts, NEW v, NEW L,
         \A i \in L : Hooks!Managed(t[i]) /\ t[i].kind = "set" /\ t[i].value = v
  PROVE  Hooks!Rewrite(t, L, v) = t
<1>1. \A i \in 1 .. Len(t) : (IF i \in L THEN Hooks!Set(t[i].key, v) ELSE t[i]) = t[i]
  <2> SUFFICES ASSUME NEW i \in 1 .. Len(t), i \in L PROVE Hooks!Set(t[i].key, v) = t[i]
    OBVIOUS
  <2>1. t[i] \in Hooks!Entry
    BY TextFacts
  <2> QED
    BY <2>1, ManagedIs
<1> QED
  BY <1>1, TextFacts DEF Hooks!Rewrite

-----------------------------------------------------------------------------
\* upsertDotenvAssignments.

LEMMA UpsertAgain ==
  ASSUME NEW t, NEW v, AllSet(t, v)
  PROVE  Hooks!Upsert(t, v) = t
<1> DEFINE L == Hooks!Assigned(t) \cup Hooks!Commented(t)
<1>1. t \in Texts /\ DOMAIN t = 1 .. Len(t)
  BY TextFacts DEF AllSet
<1>2. ASSUME NEW i \in L
      PROVE  Hooks!Managed(t[i]) /\ t[i].kind = "set" /\ t[i].value = v
  <2>1. i \in 1 .. Len(t) /\ Hooks!Managed(t[i])
    BY <1>1 DEF Hooks!Assigned, Hooks!Commented
  <2>2. t[i].key \in Hooks!Active(t)
    BY <1>1, <2>1, TextFacts, ManagedIs DEF AllSet
  <2>3. t[i].kind = "set"
    BY <2>2 DEF Hooks!Assigned, Hooks!Commented
  <2> QED
    BY <2>1, <2>3 DEF AllSet
<1>3. Hooks!Rewrite(t, L, v) = t
  BY <1>1, <1>2, RewriteAgain
<1>4. Hooks!Missing(t) = <<>>
  BY MissingIs DEF AllSet
<1> QED
  BY <1>3, <1>4 DEF Hooks!Upsert

LEMMA UpsertEdits ==
  ASSUME NEW s \in Texts, NEW v \in Credential
  PROVE  EditedFrom("dotenv", s, Hooks!Upsert(s, v), v)
<1> DEFINE L == Hooks!Assigned(s) \cup Hooks!Commented(s)
           m == Hooks!Rewrite(s, L, v)
           b == IF m # <<>> /\ Hooks!Last(m).kind # "blank" THEN <<Hooks!Item("blank")>> ELSE <<>>
           a == Hooks!Assignments(Hooks!Missing(m), v)
           t == Hooks!Upsert(s, v)
<1>1. DOMAIN s = 1 .. Len(s) /\ Len(s) \in Nat /\ \A i \in 1 .. Len(s) : s[i] \in Hooks!Entry
  BY TextFacts
<1>2. \A i \in L : Hooks!Managed(s[i]) /\ s[i].kind \in {"set", "comment"}
  BY DEF Hooks!Assigned, Hooks!Commented
<1>3. /\ m \in Texts /\ Len(m) = Len(s)
      /\ \A i \in 1 .. Len(s) : m[i] = IF i \in L THEN Hooks!Set(s[i].key, v) ELSE s[i]
      /\ \A i \in 1 .. Len(s) :
           /\ i \in L => m[i].kind = "set" /\ m[i].key = s[i].key /\ m[i].value = v
           /\ s[i].kind = "set" => m[i].kind = "set"
           /\ m[i].key = s[i].key
      /\ Hooks!Foreigns(m) = Hooks!Foreigns(s) /\ (HasBlock(m) => HasBlock(s))
  BY <1>2, RewriteIs
<1>4. t = IF Hooks!Missing(m) = <<>> THEN m ELSE m \o (b \o a)
  BY DEF Hooks!Upsert
<1>5. \A i \in 1 .. Len(m) : m[i].kind = "set" /\ Hooks!Managed(m[i]) => m[i].value = v
  <2> SUFFICES ASSUME NEW i \in 1 .. Len(s), m[i].kind = "set", Hooks!Managed(m[i])
               PROVE  m[i].value = v
    BY <1>3
  <2>1. CASE i \in L
    BY <1>3, <2>1
  <2>2. CASE i \notin L
    <3>1. s[i].kind = "set" /\ Hooks!Managed(s[i])
      BY <1>3, <2>2
    <3> QED
      BY <1>1, <2>2, <3>1 DEF Hooks!Assigned
  <2> QED
    BY <2>1, <2>2
<1> HIDE DEF m, t, a, b, L
<1>6. /\ a \in Texts /\ Ending(a, v) /\ Len(a) \in Nat
      /\ \A k \in KeySet : k \notin Hooks!Active(m) => \E n \in 1 .. Len(a) : a[n] = Hooks!Set(k, v)
  BY <1>3, MissingEnding DEF a
<1>7. b \in Texts /\ Len(b) \in Nat /\ \A n \in 1 .. Len(b) : b[n] = Hooks!Item("blank")
  BY ItemIs DEF b, Texts
<1>8. ASSUME Hooks!Missing(m) # <<>> PROVE EditedFrom("dotenv", s, t, v)
  <2> DEFINE w == b \o a
  <2>1. /\ w \in Texts /\ Len(w) = Len(b) + Len(a)
        /\ \A i \in 1 .. Len(b) + Len(a) : w[i] = IF i <= Len(b) THEN b[i] ELSE a[i - Len(b)]
    BY <1>6, <1>7, ConcatProperties DEF Texts
  <2> HIDE DEF w
  <2>2. ASSUME NEW n \in 1 .. Len(w)
        PROVE  w[n] = Hooks!Item("blank") \/ \E k \in KeySet : w[n] = Hooks!Set(k, v)
    <3>1. CASE n <= Len(b)
      BY <1>6, <1>7, <2>1, <3>1
    <3>2. CASE ~(n <= Len(b))
      <4>1. n - Len(b) \in 1 .. Len(a) /\ w[n] = a[n - Len(b)]
        BY <1>6, <1>7, <2>1, <3>2
      <4> QED
        BY <1>6, <4>1 DEF Ending
    <3> QED
      BY <3>1, <3>2
  <2>3. Ending(w, v)
    BY <2>1, <2>2 DEF Ending
  <2>4. t = m \o w
    BY <1>4, <1>8 DEF w
  <2>5. ASSUME NEW k \in KeySet, k \notin Hooks!Active(m)
        PROVE  \E n \in 1 .. Len(w) : w[n] = Hooks!Set(k, v)
    <3>1. PICK n \in 1 .. Len(a) : a[n] = Hooks!Set(k, v)
      BY <1>6, <2>5
    <3>2. Len(b) + n \in 1 .. Len(b) + Len(a) /\ ~(Len(b) + n <= Len(b)) /\ Len(b) + n - Len(b) = n
      BY <1>6, <1>7
    <3>3. w[Len(b) + n] = a[n]
      BY <2>1, <3>2
    <3> QED
      BY <2>1, <3>1, <3>2, <3>3
  <2>6. KeySet \subseteq Hooks!Active(t)
    BY <1>3, <2>3, <2>4, <2>5, AllActive
  <2>7. /\ t \in Texts /\ Hooks!Foreigns(t) = Hooks!Foreigns(m) /\ (HasBlock(t) => HasBlock(m))
        /\ \A i \in 1 .. Len(m) : t[i] = m[i]
        /\ \A i \in 1 .. Len(t) : \/ i \in 1 .. Len(m)
                                  \/ i - Len(m) \in 1 .. Len(w) /\ t[i] = w[i - Len(m)]
    <3>1. ExtendedBy(m, w, t)
      BY <1>3, <2>3, <2>4, Extended
    <3> QED
      BY <3>1 DEF ExtendedBy
  <2>8. ASSUME NEW i \in 1 .. Len(t), t[i].kind = "set", Hooks!Managed(t[i])
        PROVE  t[i].value = v
    <3>1. CASE i \in 1 .. Len(m)
      BY <1>5, <2>7, <2>8, <3>1
    <3>2. CASE i - Len(m) \in 1 .. Len(w) /\ t[i] = w[i - Len(m)]
      BY <2>3, <2>8, <3>2, EndingIs
    <3> QED
      BY <2>7, <3>1, <3>2
  <2>9. AllSet(t, v)
    BY <2>6, <2>7, <2>8 DEF AllSet
  <2>10. Hooks!Upsert(t, v) = t /\ \A k \in KeySet : Hooks!Values(t, k) = {v}
    BY <2>9, UpsertAgain, AllSetValues
  <2>11. Settled("dotenv", t, v)
    BY <2>7, <2>10 DEF Settled, Hooks!Refused, Hooks!Edited
  <2> QED
    BY <1>3, <2>7, <2>11 DEF EditedFrom
<1>9. ASSUME Hooks!Missing(m) = <<>> PROVE EditedFrom("dotenv", s, t, v)
  <2>1. t = m
    BY <1>4, <1>9
  <2>2. ASSUME NEW k \in KeySet, k \notin Hooks!Active(m) PROVE FALSE
    <3>1. PICK n \in 1 .. Len(Hooks!Missing(m)) : Hooks!Missing(m)[n] = k
      BY <1>3, <2>2, MissingIs
    <3> QED
      BY <1>9, <3>1
  <2>3. AllSet(m, v)
    BY <1>3, <1>5, <2>2 DEF AllSet
  <2>4. Hooks!Upsert(m, v) = m /\ \A k \in KeySet : Hooks!Values(m, k) = {v}
    BY <2>3, UpsertAgain, AllSetValues
  <2>5. Settled("dotenv", m, v)
    BY <1>3, <2>4 DEF Settled, Hooks!Refused, Hooks!Edited
  <2> QED
    BY <1>3, <2>1, <2>5 DEF EditedFrom
<1>10. EditedFrom("dotenv", s, t, v)
  BY <1>8, <1>9
<1> QED
  BY <1>10 DEF t

-----------------------------------------------------------------------------
\* patchPHPArrayValue.

LEMMA ArrayEdits ==
  ASSUME NEW s \in Texts, NEW v \in Credential, ~Hooks!Refused("php-array", s)
  PROVE  EditedFrom("php-array", s, Hooks!PatchArray(s, v), v)
<1> DEFINE L == Hooks!Assigned(s)
           m == Hooks!Rewrite(s, L, v)
           a == Hooks!Assignments(Hooks!Missing(s), v)
           t == Hooks!PatchArray(s, v)
<1>1. DOMAIN s = 1 .. Len(s) /\ Len(s) \in Nat /\ \A i \in 1 .. Len(s) : s[i] \in Hooks!Entry
  BY TextFacts
<1>2. L \subseteq 1 .. Len(s) /\ \A i \in L : Hooks!Managed(s[i]) /\ s[i].kind = "set"
  BY <1>1 DEF Hooks!Assigned
<1>3. /\ m \in Texts /\ Len(m) = Len(s)
      /\ \A i \in 1 .. Len(s) : m[i] = IF i \in L THEN Hooks!Set(s[i].key, v) ELSE s[i]
      /\ \A i \in 1 .. Len(s) :
           /\ i \in L => m[i].kind = "set" /\ m[i].key = s[i].key /\ m[i].value = v
           /\ s[i].kind = "set" => m[i].kind = "set"
           /\ m[i].key = s[i].key
      /\ Hooks!Foreigns(m) = Hooks!Foreigns(s) /\ (HasBlock(m) => HasBlock(s))
  BY <1>2, RewriteIs
<1>4. \A i \in 1 .. Len(s) : m[i].kind = s[i].kind /\ m[i].key = s[i].key
  BY <1>2, <1>3
<1>5. t = m \o a
  BY DEF Hooks!PatchArray
<1>6. /\ a \in Texts /\ Ending(a, v) /\ Len(a) = Len(Hooks!Missing(s)) /\ Len(a) \in Nat
      /\ \A n \in 1 .. Len(a) : /\ a[n] = Hooks!Set(Hooks!Missing(s)[n], v)
                                /\ Hooks!Missing(s)[n] \in KeySet
      /\ \A k \in KeySet : k \notin Hooks!Active(s) => \E n \in 1 .. Len(a) : a[n] = Hooks!Set(k, v)
  BY MissingEnding
<1> HIDE DEF m, t, a, L
<1>7. ASSUME NEW k PROVE k \in Hooks!Active(m) <=> k \in Hooks!Active(s)
  <2>1. /\ k \in Hooks!Active(m) <=> \E i \in 1 .. Len(m) : m[i].kind = "set" /\ m[i].key = k
        /\ k \in Hooks!Active(s) <=> \E i \in 1 .. Len(s) : s[i].kind = "set" /\ s[i].key = k
    BY <1>3, ActiveIs
  <2> QED
    BY <1>3, <1>4, <2>1
<1>8. KeySet \subseteq Hooks!Active(t)
  BY <1>3, <1>5, <1>6, <1>7, AllActive
<1>9. /\ t \in Texts /\ Hooks!Foreigns(t) = Hooks!Foreigns(m) /\ (HasBlock(t) => HasBlock(m))
      /\ Len(t) = Len(m) + Len(a)
      /\ \A i \in 1 .. Len(m) : i \in 1 .. Len(t) /\ t[i] = m[i]
      /\ \A i \in 1 .. Len(t) : \/ i \in 1 .. Len(m)
                                \/ i - Len(m) \in 1 .. Len(a) /\ t[i] = a[i - Len(m)]
  <2>1. ExtendedBy(m, a, t)
    BY <1>3, <1>5, <1>6, Extended
  <2> QED
    BY <2>1 DEF ExtendedBy
<1>10. ASSUME NEW i \in 1 .. Len(a)
       PROVE  a[i].kind = "set" /\ a[i].value = v /\ a[i].key \in KeySet /\ a[i].key \notin Hooks!Active(s)
  <2>1. a[i] = Hooks!Set(Hooks!Missing(s)[i], v) /\ Hooks!Missing(s)[i] \in KeySet
    BY <1>6
  <2>2. Hooks!Missing(s)[i] \notin Hooks!Active(s)
    BY <1>6, MissingIs
  <2> QED
    BY <2>1, <2>2, SetIs
<1>11. ASSUME NEW i \in 1 .. Len(t), t[i].kind = "set", Hooks!Managed(t[i])
       PROVE  t[i].value = v
  <2>1. CASE i \in 1 .. Len(m)
    <3>1. t[i] = m[i] /\ i \in 1 .. Len(s) /\ i \in DOMAIN s
      BY <1>1, <1>3, <1>9, <2>1
    <3>2. s[i].kind = "set" /\ Hooks!Managed(s[i])
      BY <1>4, <1>11, <3>1 DEF Hooks!Managed
    <3>3. i \in L
      BY <3>1, <3>2 DEF L, Hooks!Assigned
    <3> QED
      BY <1>3, <3>1, <3>3
  <2>2. CASE i - Len(m) \in 1 .. Len(a) /\ t[i] = a[i - Len(m)]
    BY <1>10, <2>2
  <2> QED
    BY <1>9, <2>1, <2>2
<1>12. Hooks!Rewrite(t, Hooks!Assigned(t), v) = t
  <2>1. \A i \in Hooks!Assigned(t) : Hooks!Managed(t[i]) /\ t[i].kind = "set" /\ t[i].value = v
    BY <1>9, <1>11, TextFacts DEF Hooks!Assigned
  <2> QED
    BY <1>9, <2>1, RewriteAgain
<1>13. Hooks!PatchArray(t, v) = t
  <2> DEFINE n == Hooks!Assignments(Hooks!Missing(t), v)
  <2>1. n = <<>>
    BY <1>8, <1>9, MissingEnding
  <2>2. Hooks!PatchArray(t, v) = t \o n
    BY <1>12 DEF Hooks!PatchArray
  <2> QED
    BY <1>9, <2>1, <2>2, ConcatEmptySeq DEF Texts
<1>14. Hooks!Item("odd") \notin Hooks!Range(t)
  <2> SUFFICES ASSUME Hooks!Item("odd") \in Hooks!Range(t) PROVE FALSE
    OBVIOUS
  <2>1. PICK i \in 1 .. Len(t) : t[i] = Hooks!Item("odd")
    BY <1>9, TextFacts DEF Hooks!Range
  <2>2. t[i].kind = "odd"
    BY <2>1, ItemIs
  <2>3. CASE i \in 1 .. Len(m)
    <3>1. i \in 1 .. Len(s) /\ m[i] = Hooks!Item("odd") /\ m[i].kind = "odd"
      BY <1>3, <1>9, <2>1, <2>2, <2>3
    <3>2. s[i] = Hooks!Item("odd")
      BY <1>3, <3>1
    <3>3. Hooks!Item("odd") \in Hooks!Range(s)
      BY <1>1, <3>1, <3>2 DEF Hooks!Range
    <3> QED
      BY <3>3 DEF Hooks!Refused
  <2>4. CASE i - Len(m) \in 1 .. Len(a) /\ t[i] = a[i - Len(m)]
    BY <1>10, <2>2, <2>4
  <2> QED
    BY <1>9, <2>1, <2>3, <2>4
\* No key comes a second time: the entries are those of s, and one for each key without.
<1>15. ASSUME NEW k \in KeySet, NEW i \in 1 .. Len(t), NEW j \in 1 .. Len(t), i # j,
              t[i].kind = "set", t[i].key = k, t[j].kind = "set", t[j].key = k
       PROVE  FALSE
  <2>1. ASSUME i \in 1 .. Len(m), j \in 1 .. Len(m) PROVE FALSE
    <3>1. i \in DOMAIN s /\ j \in DOMAIN s /\ i \in 1 .. Len(s) /\ j \in 1 .. Len(s)
      BY <1>1, <1>3, <2>1
    <3>2. s[i].kind = "set" /\ s[i].key = k /\ s[j].kind = "set" /\ s[j].key = k
      BY <1>4, <1>9, <1>15, <2>1, <3>1
    <3>3. Hooks!Twice(s, "set", k)
      BY <1>15, <3>1, <3>2 DEF Hooks!Twice
    <3> QED
      BY <3>3 DEF Hooks!Refused, KeySet
  <2>2. ASSUME NEW x \in 1 .. Len(m), NEW y \in 1 .. Len(a), m[x].kind = "set", m[x].key = k,
               a[y].key = k
        PROVE  FALSE
    BY <1>3, <1>7, <1>10, <2>2, ActiveIs
  <2>3. ASSUME NEW x \in 1 .. Len(a), NEW y \in 1 .. Len(a), x # y, a[x].key = k, a[y].key = k
        PROVE  FALSE
    <3>1. a[x].key = Hooks!Missing(s)[x] /\ a[y].key = Hooks!Missing(s)[y]
      BY <1>6, <2>3, SetIs
    <3> QED
      BY <1>6, <2>3, <3>1, MissingIs
  <2>4. CASE i \in 1 .. Len(m)
    BY <1>9, <1>15, <2>1, <2>2, <2>4
  <2>5. CASE i - Len(m) \in 1 .. Len(a) /\ t[i] = a[i - Len(m)]
    <3>1. CASE j \in 1 .. Len(m)
      BY <1>9, <1>15, <2>2, <2>5, <3>1
    <3>2. CASE j - Len(m) \in 1 .. Len(a) /\ t[j] = a[j - Len(m)]
      <4>1. i - Len(m) # j - Len(m)
        BY <1>3, <1>15
      <4> QED
        BY <1>15, <2>3, <2>5, <3>2, <4>1
    <3> QED
      BY <1>9, <3>1, <3>2
  <2> QED
    BY <1>9, <2>4, <2>5
<1>16. ~Hooks!Refused("php-array", t)
  <2> SUFFICES ASSUME NEW k \in KeySet, Hooks!Twice(t, "set", k) PROVE FALSE
    BY <1>14 DEF Hooks!Refused, KeySet
  <2>1. PICK i \in 1 .. Len(t), j \in 1 .. Len(t) :
          i # j /\ \A n \in {i, j} : t[n].kind = "set" /\ t[n].key = k
    BY <1>9, TextFacts DEF Hooks!Twice
  <2> QED
    BY <1>15, <2>1
<1>17. \A k \in KeySet : Hooks!Values(t, k) = {v}
  <2>1. AllSet(t, v)
    BY <1>8, <1>9, <1>11 DEF AllSet
  <2> QED
    BY <2>1, AllSetValues
<1>18. EditedFrom("php-array", s, t, v)
  BY <1>3, <1>9, <1>13, <1>16, <1>17 DEF EditedFrom, Settled, Hooks!Edited
<1> QED
  BY <1>18 DEF t

-----------------------------------------------------------------------------
\* patchPHPConstants.

LEMMA PlaceIs ==
  ASSUME NEW s \in Texts
  PROVE  Hooks!Place(s) \in 1 .. Len(s) + 1
<1> DEFINE A == {i \in 1 .. Len(s) : s[i].kind = "set" /\ s[i].key = Anchor}
           B == {i \in 1 .. Len(s) : s[i].kind = "require"}
           a == IF A # {} THEN Hooks!Min(A) ELSE 0
           b == IF B # {} THEN Hooks!Min(B) ELSE 0
<1>1. ASSUME NEW I, I \subseteq 1 .. Len(s), I # {} PROVE Hooks!Min(I) \in 1 .. Len(s)
  <2>1. Positions(I)
    BY <1>1, PickedSeq DEF PickedFrom, Texts
  <2>2. \E i \in I : \A j \in I : i <= j
    BY <1>1, <2>1, FirstPosition
  <2> QED
    BY <1>1, <2>2 DEF Hooks!Min
<1>2. A \subseteq 1 .. Len(s) /\ B \subseteq 1 .. Len(s) /\ Len(s) \in Nat
  BY TextFacts
<1>3. Hooks!Place(s) = IF a # 0 THEN a ELSE IF b # 0 THEN b ELSE Len(s) + 1
  BY DEF Hooks!Place, Hooks!SelectInSeq
<1> HIDE DEF A, B
<1>4. (a # 0 => a \in 1 .. Len(s)) /\ (b # 0 => b \in 1 .. Len(s))
  BY <1>1, <1>2
<1> HIDE DEF a, b
<1> QED
  BY <1>2, <1>3, <1>4

\* A text between whose items others are put.
InsertedInto(s, u, n, t) ==
  /\ t \in Texts /\ Len(t) = Len(s) + Len(u) /\ Len(s) \in Nat /\ Len(u) \in Nat
  /\ \A i \in 1 .. Len(s) : IF i < n THEN t[i] = s[i] ELSE t[i + Len(u)] = s[i]
  /\ \A i \in 1 .. Len(u) : t[n - 1 + i] = u[i]
  /\ \A i \in 1 .. Len(t) :
       \/ i \in 1 .. Len(s) /\ i < n
       \/ i - (n - 1) \in 1 .. Len(u)
       \/ i - Len(u) \in 1 .. Len(s) /\ i - Len(u) >= n

LEMMA Inserted ==
  ASSUME NEW s \in Texts, NEW u \in Texts, NEW n \in 1 .. Len(s) + 1
  PROVE  InsertedInto(s, u, n, SubSeq(s, 1, n - 1) \o (u \o SubSeq(s, n, Len(s))))
<1> DEFINE p == SubSeq(s, 1, n - 1)
           q == SubSeq(s, n, Len(s))
           r == u \o q
           t == p \o r
<1>1. /\ Len(s) \in Nat /\ Len(u) \in Nat /\ \A i \in 1 .. Len(s) : s[i] \in Hooks!Entry
  BY TextFacts
<1>2. /\ p \in Texts /\ Len(p) = n - 1 /\ \A i \in 1 .. n - 1 : p[i] = s[i]
  <2>1. \A i \in 1 .. n - 1 : s[i] \in Hooks!Entry
    BY <1>1
  <2>2. 1 \in Int /\ n - 1 \in Int
    OBVIOUS
  <2>3. /\ p \in Texts /\ Len(p) = IF 1 <= n - 1 THEN n - 1 - 1 + 1 ELSE 0
        /\ \A i \in 1 .. n - 1 - 1 + 1 : p[i] = s[1 + i - 1]
    BY <2>1, <2>2, SubSeqProperties DEF Texts
  <2> QED
    BY <1>1, <2>3
<1>3. /\ q \in Texts /\ Len(q) = Len(s) - n + 1
      /\ \A i \in 1 .. Len(s) - n + 1 : q[i] = s[n + i - 1]
  <2>1. \A i \in n .. Len(s) : s[i] \in Hooks!Entry
    BY <1>1
  <2>2. n \in Int /\ Len(s) \in Int
    BY <1>1
  <2>3. /\ q \in Texts /\ Len(q) = IF n <= Len(s) THEN Len(s) - n + 1 ELSE 0
        /\ \A i \in 1 .. Len(s) - n + 1 : q[i] = s[n + i - 1]
    BY <2>1, <2>2, SubSeqProperties DEF Texts
  <2> QED
    BY <1>1, <2>3
<1> HIDE DEF p, q
<1>4. /\ r \in Texts /\ Len(r) = Len(u) + Len(q)
      /\ \A i \in 1 .. Len(u) + Len(q) : r[i] = IF i <= Len(u) THEN u[i] ELSE q[i - Len(u)]
  BY <1>3, ConcatProperties DEF Texts
<1> HIDE DEF r
<1>5. /\ t \in Texts /\ Len(t) = Len(p) + Len(r)
      /\ \A i \in 1 .. Len(p) + Len(r) : t[i] = IF i <= Len(p) THEN p[i] ELSE r[i - Len(p)]
  <2>1. p \in Seq(Hooks!Entry) /\ r \in Seq(Hooks!Entry)
    BY <1>2, <1>4 DEF Texts
  <2> QED
    BY <2>1, ConcatProperties DEF Texts
<1> HIDE DEF t
<1>6. Len(t) = Len(s) + Len(u)
  BY <1>1, <1>2, <1>3, <1>4, <1>5
<1>7. ASSUME NEW i \in 1 .. Len(s)
      PROVE  IF i < n THEN t[i] = s[i] ELSE t[i + Len(u)] = s[i]
  <2>1. CASE i < n
    <3>1. i \in 1 .. n - 1 /\ i \in 1 .. Len(p) + Len(r) /\ i <= Len(p)
      BY <1>1, <1>2, <1>3, <1>4, <2>1
    <3> QED
      BY <1>2, <1>5, <2>1, <3>1
  <2>2. CASE ~(i < n)
    <3>1. /\ i + Len(u) \in 1 .. Len(p) + Len(r) /\ ~(i + Len(u) <= Len(p))
          /\ i + Len(u) - Len(p) = i + Len(u) - (n - 1)
      BY <1>1, <1>2, <1>3, <1>4, <2>2
    <3>2. t[i + Len(u)] = r[i + Len(u) - (n - 1)]
      <4>1. t[i + Len(u)] = r[i + Len(u) - Len(p)]
        BY <1>5, <3>1
      <4> QED
        BY <3>1, <4>1
    <3>3. /\ i + Len(u) - (n - 1) \in 1 .. Len(u) + Len(q)
          /\ ~(i + Len(u) - (n - 1) <= Len(u))
          /\ i + Len(u) - (n - 1) - Len(u) = i - n + 1
      BY <1>1, <1>3, <2>2
    <3>4. r[i + Len(u) - (n - 1)] = q[i - n + 1]
      BY <1>4, <3>3
    <3>5. i - n + 1 \in 1 .. Len(s) - n + 1 /\ n + (i - n + 1) - 1 = i
      BY <1>1, <2>2
    <3>6. q[i - n + 1] = s[i]
      BY <1>3, <3>5
    <3> QED
      BY <2>2, <3>2, <3>4, <3>6
  <2> QED
    BY <2>1, <2>2
<1>8. ASSUME NEW i \in 1 .. Len(u) PROVE t[n - 1 + i] = u[i]
  <2>1. /\ n - 1 + i \in 1 .. Len(p) + Len(r) /\ ~(n - 1 + i <= Len(p)) /\ n - 1 + i - Len(p) = i
        /\ i \in 1 .. Len(u) + Len(q) /\ i <= Len(u)
    BY <1>1, <1>2, <1>3, <1>4
  <2> QED
    BY <1>4, <1>5, <2>1
<1>9. ASSUME NEW i \in 1 .. Len(t)
      PROVE  \/ i \in 1 .. Len(s) /\ i < n
             \/ i - (n - 1) \in 1 .. Len(u)
             \/ i - Len(u) \in 1 .. Len(s) /\ i - Len(u) >= n
  BY <1>1, <1>6
<1> QED
  BY <1>1, <1>5, <1>6, <1>7, <1>8, <1>9 DEF InsertedInto, t, r, p, q

LEMMA ConstantsAgain ==
  ASSUME NEW t, NEW v, AllSet(t, v)
  PROVE  Hooks!PatchConstants(t, v) = t
<1> DEFINE n == Hooks!Place(t)
           a == Hooks!Assignments(Hooks!Missing(t), v)
<1>1. t \in Texts /\ DOMAIN t = 1 .. Len(t) /\ Len(t) \in Nat
  BY TextFacts DEF AllSet
<1>2. \A i \in Hooks!Assigned(t) : Hooks!Managed(t[i]) /\ t[i].kind = "set" /\ t[i].value = v
  BY <1>1 DEF Hooks!Assigned, AllSet
<1>3. Hooks!Rewrite(t, Hooks!Assigned(t), v) = t
  BY <1>1, <1>2, RewriteAgain
<1>4. a = <<>>
  <2>1. Hooks!Missing(t) = <<>>
    BY MissingIs DEF AllSet
  <2>2. DOMAIN a = {}
    BY <2>1 DEF Hooks!Assignments
  <2>3. a = [i \in {} |-> Hooks!Set(Hooks!Missing(t)[i], v)]
    BY <2>1 DEF Hooks!Assignments
  <2> QED
    BY <2>3
<1>5. n \in 1 .. Len(t) + 1
  BY <1>1, PlaceIs
<1>6. Hooks!PatchConstants(t, v) = SubSeq(t, 1, n - 1) \o (<<>> \o SubSeq(t, n, Len(t)))
  BY <1>3, <1>4 DEF Hooks!PatchConstants
<1>7. <<>> \in Texts
  BY DEF Texts
<1> DEFINE r == SubSeq(t, 1, n - 1) \o (<<>> \o SubSeq(t, n, Len(t)))
<1>8. InsertedInto(t, <<>>, n, r)
  BY <1>1, <1>5, <1>7, Inserted
<1> HIDE DEF n, r
<1>9. r \in Texts /\ Len(r) = Len(t) + 0
  BY <1>1, <1>8 DEF InsertedInto
<1>10. ASSUME NEW i \in 1 .. Len(t) PROVE r[i] = t[i]
  <2>1. IF i < n THEN r[i] = t[i] ELSE r[i + 0] = t[i]
    BY <1>8, EmptySeq DEF InsertedInto
  <2> QED
    BY <1>1, <2>1
<1>11. r = t
  BY <1>1, <1>9, <1>10, SeqEqual DEF Texts
<1> QED
  BY <1>6, <1>11 DEF r

LEMMA ConstantsEdits ==
  ASSUME NEW s \in Texts, NEW v \in Credential, ~Hooks!Refused("php-constants", s)
  PROVE  EditedFrom("php-constants", s, Hooks!PatchConstants(s, v), v)
<1> DEFINE L == Hooks!Assigned(s)
           m == Hooks!Rewrite(s, L, v)
           n == Hooks!Place(m)
           a == Hooks!Assignments(Hooks!Missing(m), v)
           t == Hooks!PatchConstants(s, v)
<1>1. DOMAIN s = 1 .. Len(s) /\ Len(s) \in Nat /\ \A i \in 1 .. Len(s) : s[i] \in Hooks!Entry
  BY TextFacts
<1>2. L \subseteq 1 .. Len(s) /\ \A i \in L : Hooks!Managed(s[i]) /\ s[i].kind = "set"
  BY <1>1 DEF Hooks!Assigned
<1>3. /\ m \in Texts /\ Len(m) = Len(s)
      /\ \A i \in 1 .. Len(s) : m[i] = IF i \in L THEN Hooks!Set(s[i].key, v) ELSE s[i]
      /\ \A i \in 1 .. Len(s) :
           /\ i \in L => m[i].kind = "set" /\ m[i].key = s[i].key /\ m[i].value = v
           /\ s[i].kind = "set" => m[i].kind = "set"
           /\ m[i].key = s[i].key
      /\ Hooks!Foreigns(m) = Hooks!Foreigns(s) /\ (HasBlock(m) => HasBlock(s))
  BY <1>2, RewriteIs
<1>4. \A i \in 1 .. Len(s) : m[i].kind = s[i].kind /\ m[i].key = s[i].key
  BY <1>2, <1>3
<1>5. n \in 1 .. Len(m) + 1
  BY <1>3, PlaceIs
<1>6. t = SubSeq(m, 1, n - 1) \o (a \o SubSeq(m, n, Len(m)))
  BY DEF Hooks!PatchConstants
<1>7. ASSUME NEW i \in 1 .. Len(m), m[i].kind = "set", Hooks!Managed(m[i]) PROVE m[i].value = v
  <2>1. s[i].kind = "set" /\ Hooks!Managed(s[i]) /\ i \in DOMAIN s
    BY <1>1, <1>3, <1>4, <1>7 DEF Hooks!Managed
  <2>2. i \in L
    BY <2>1 DEF Hooks!Assigned
  <2> QED
    BY <1>1, <1>3, <2>1, <2>2
<1>8. /\ a \in Texts /\ Ending(a, v) /\ Len(a) = Len(Hooks!Missing(m)) /\ Len(a) \in Nat
      /\ \A i \in 1 .. Len(a) : /\ a[i] = Hooks!Set(Hooks!Missing(m)[i], v)
                                /\ Hooks!Missing(m)[i] \in KeySet
      /\ \A k \in KeySet : k \notin Hooks!Active(m) => \E i \in 1 .. Len(a) : a[i] = Hooks!Set(k, v)
  BY <1>3, MissingEnding
<1>9. /\ \A i \in 1 .. Len(a) : Hooks!Missing(m)[i] \notin Hooks!Active(m)
      /\ \A i, j \in 1 .. Len(a) : Hooks!Missing(m)[i] = Hooks!Missing(m)[j] => i = j
  BY <1>3, <1>8, MissingIs
<1>10. InsertedInto(m, a, n, t)
  BY <1>3, <1>5, <1>6, <1>8, Inserted
<1> HIDE DEF m, n, a, t, L
<1>11. ASSUME NEW i \in 1 .. Len(a)
       PROVE  /\ a[i].kind = "set" /\ a[i].value = v /\ a[i].key = Hooks!Missing(m)[i]
              /\ a[i].key \in KeySet /\ a[i].key \notin Hooks!Active(m) /\ ~Hooks!Foreign(a[i])
  BY <1>8, <1>9, SetIs
\* Where an item of the result is from.
<1>12. ASSUME NEW i \in 1 .. Len(t)
       PROVE  \/ i \in 1 .. Len(m) /\ i < n /\ t[i] = m[i]
              \/ i - (n - 1) \in 1 .. Len(a) /\ t[i] = a[i - (n - 1)]
              \/ i - Len(a) \in 1 .. Len(m) /\ i - Len(a) >= n /\ t[i] = m[i - Len(a)]
  <2>1. CASE i \in 1 .. Len(m) /\ i < n
    BY <1>10, <2>1 DEF InsertedInto
  <2>2. CASE i - (n - 1) \in 1 .. Len(a)
    <3>1. n - 1 + (i - (n - 1)) = i
      BY <1>5
    <3> QED
      BY <1>10, <2>2, <3>1 DEF InsertedInto
  <2>3. CASE i - Len(a) \in 1 .. Len(m) /\ i - Len(a) >= n
    <3>1. i - Len(a) + Len(a) = i /\ ~(i - Len(a) < n)
      BY <1>5, <1>8, <2>3
    <3> QED
      BY <1>10, <2>3, <3>1 DEF InsertedInto
  <2> QED
    BY <1>10, <2>1, <2>2, <2>3 DEF InsertedInto
<1>13. t \in Texts /\ Len(t) = Len(m) + Len(a) /\ Len(m) \in Nat
  BY <1>10 DEF InsertedInto
<1>14. Hooks!Foreigns(t) = Hooks!Foreigns(m)
  <2>1. \A i \in 1 .. Len(m) : IF i < n THEN t[i] = m[i] ELSE t[i + Len(a)] = m[i]
    BY <1>10 DEF InsertedInto
  <2>2. ASSUME NEW i \in n .. n + Len(a) - 1 PROVE ~Hooks!Foreign(t[i])
    <3>1. i - (n - 1) \in 1 .. Len(a) /\ n - 1 + (i - (n - 1)) = i
      BY <1>5, <1>8
    <3>2. t[i] = a[i - (n - 1)]
      BY <1>10, <3>1 DEF InsertedInto
    <3> QED
      BY <1>11, <3>1, <3>2
  <2> QED
    BY <1>3, <1>5, <1>8, <1>13, <2>1, <2>2, ForeignsInserted
<1>15. HasBlock(t) => HasBlock(m)
  <2> SUFFICES ASSUME NEW i \in 1 .. Len(t), t[i].kind = "block" PROVE HasBlock(m)
    BY DEF HasBlock
  <2> QED
    BY <1>11, <1>12 DEF HasBlock
<1>16. ASSUME NEW k \in KeySet PROVE k \in Hooks!Active(t)
  <2>1. CASE k \in Hooks!Active(m)
    <3>1. PICK i \in 1 .. Len(m) : m[i].kind = "set" /\ m[i].key = k
      BY <1>3, <2>1, ActiveIs
    <3>2. CASE i < n
      <4>1. t[i] = m[i] /\ i \in 1 .. Len(t)
        BY <1>8, <1>10, <1>13, <3>2 DEF InsertedInto
      <4> QED
        BY <1>13, <3>1, <4>1, ActiveIs
    <3>3. CASE ~(i < n)
      <4>1. t[i + Len(a)] = m[i] /\ i + Len(a) \in 1 .. Len(t)
        BY <1>8, <1>10, <1>13, <3>3 DEF InsertedInto
      <4> QED
        BY <1>13, <3>1, <4>1, ActiveIs
    <3> QED
      BY <3>2, <3>3
  <2>2. CASE k \notin Hooks!Active(m)
    <3>1. PICK i \in 1 .. Len(a) : a[i] = Hooks!Set(k, v)
      BY <1>8, <2>2
    <3>2. t[n - 1 + i] = a[i] /\ n - 1 + i \in 1 .. Len(t)
      BY <1>5, <1>8, <1>10, <1>13 DEF InsertedInto
    <3> QED
      BY <1>13, <3>1, <3>2, ActiveIs, SetIs
  <2> QED
    BY <2>1, <2>2
<1>17. ASSUME NEW i \in 1 .. Len(t), t[i].kind = "set", Hooks!Managed(t[i])
       PROVE  t[i].value = v
  BY <1>7, <1>11, <1>12, <1>17
<1>18. AllSet(t, v)
  BY <1>13, <1>16, <1>17 DEF AllSet
<1>19. ~Hooks!Refused("php-constants", t)
  <2> SUFFICES ASSUME NEW k \in KeySet, NEW i \in 1 .. Len(t), NEW j \in 1 .. Len(t), i # j,
                      t[i].kind = "set", t[i].key = k, t[j].kind = "set", t[j].key = k
               PROVE  FALSE
    BY <1>13, TextFacts DEF Hooks!Refused, Hooks!Twice, KeySet
  <2>1. ASSUME NEW x \in 1 .. Len(m), NEW y \in 1 .. Len(m), x # y,
               m[x].kind = "set", m[x].key = k, m[y].kind = "set", m[y].key = k
        PROVE  FALSE
    <3>1. /\ x \in DOMAIN s /\ y \in DOMAIN s /\ s[x].kind = "set" /\ s[x].key = k
          /\ s[y].kind = "set" /\ s[y].key = k
      BY <1>1, <1>3, <1>4, <2>1
    <3>2. Hooks!Twice(s, "set", k)
      BY <2>1, <3>1 DEF Hooks!Twice
    <3> QED
      BY <3>2 DEF Hooks!Refused, KeySet
  <2>2. ASSUME NEW x \in 1 .. Len(m), NEW y \in 1 .. Len(a), m[x].kind = "set", m[x].key = k,
               a[y].key = k
        PROVE  FALSE
    BY <1>3, <1>11, <2>2, ActiveIs
  <2>3. ASSUME NEW x \in 1 .. Len(a), NEW y \in 1 .. Len(a), x # y, a[x].key = k, a[y].key = k
        PROVE  FALSE
    BY <1>9, <1>11, <2>3
  <2>4. CASE i - (n - 1) \in 1 .. Len(a) /\ t[i] = a[i - (n - 1)]
    <3>1. CASE j - (n - 1) \in 1 .. Len(a) /\ t[j] = a[j - (n - 1)]
      <4>1. i - (n - 1) # j - (n - 1)
        BY <1>5
      <4> QED
        BY <2>3, <2>4, <3>1, <4>1
    <3> QED
      BY <1>12, <2>2, <2>4, <3>1
  <2>5. CASE j - (n - 1) \in 1 .. Len(a) /\ t[j] = a[j - (n - 1)]
    BY <1>12, <2>2, <2>4, <2>5
  <2>6. CASE /\ \/ i \in 1 .. Len(m) /\ i < n /\ t[i] = m[i]
                \/ i - Len(a) \in 1 .. Len(m) /\ i - Len(a) >= n /\ t[i] = m[i - Len(a)]
             /\ \/ j \in 1 .. Len(m) /\ j < n /\ t[j] = m[j]
                \/ j - Len(a) \in 1 .. Len(m) /\ j - Len(a) >= n /\ t[j] = m[j - Len(a)]
    <3> DEFINE x == IF i < n /\ i \in 1 .. Len(m) /\ t[i] = m[i] THEN i ELSE i - Len(a)
               y == IF j < n /\ j \in 1 .. Len(m) /\ t[j] = m[j] THEN j ELSE j - Len(a)
    <3>1. x \in 1 .. Len(m) /\ y \in 1 .. Len(m) /\ t[i] = m[x] /\ t[j] = m[y]
      BY <2>6
    <3>2. x # y
      BY <1>5, <1>8, <2>6
    <3> HIDE DEF x, y
    <3> QED
      BY <2>1, <3>1, <3>2
  <2> QED
    BY <1>12, <2>4, <2>5, <2>6
<1>20. Hooks!PatchConstants(t, v) = t /\ \A k \in KeySet : Hooks!Values(t, k) = {v}
  BY <1>18, ConstantsAgain, AllSetValues
<1>21. EditedFrom("php-constants", s, t, v)
  BY <1>3, <1>13, <1>14, <1>15, <1>19, <1>20 DEF EditedFrom, Settled, Hooks!Edited
<1> QED
  BY <1>21 DEF t

-----------------------------------------------------------------------------
\* patchPHPInclude.

LEMMA IncludeEdits ==
  ASSUME NEW s \in Texts, NEW v \in Credential, ~Hooks!Refused("php-include", s)
  PROVE  EditedFrom("php-include", s, Hooks!PatchInclude(s), v)
<1> DEFINE I == {i \in DOMAIN s : s[i].kind # "block"}
           x == Hooks!Picked(s, I)
           e == Hooks!Item("block")
           t == Append(x, e)
<1>1. DOMAIN s = 1 .. Len(s) /\ Len(s) \in Nat /\ s \in Seq(Hooks!Entry)
  BY TextFacts DEF Texts
<1>2. PickedFrom(s, I, Hooks!Entry)
  BY <1>1, PickedSeq
<1>3. /\ Positions(I) /\ x \in Texts /\ Len(x) = Cardinality(I) /\ Len(x) \in Nat
      /\ \A n \in 1 .. Len(x) : Hooks!Nth(I, n) \in I /\ x[n] = s[Hooks!Nth(I, n)]
  BY <1>2 DEF PickedFrom, Texts
<1>4. Hooks!PatchInclude(s) = t
  BY DEF Hooks!PatchInclude
<1>5. \A n \in 1 .. Len(x) : x[n].kind # "block"
  BY <1>3
<1>6. e \in Hooks!Entry /\ e.kind = "block" /\ e.key = Anchor /\ ~Hooks!Foreign(e)
  BY ItemIs
<1>7. /\ t \in Texts /\ Len(t) = Len(x) + 1 /\ t[Len(x) + 1] = e
      /\ \A n \in 1 .. Len(x) : t[n] = x[n]
  <2>1. x \in Seq(Hooks!Entry) /\ e \in Hooks!Entry /\ Len(x) \in Nat
    BY <1>3, <1>6 DEF Texts
  <2> HIDE DEF x, e
  <2> QED
    BY <2>1, AppendProperties DEF Texts
\* The foreign items of the picked ones.
<1>8. Hooks!Foreigns(x) = Hooks!Foreigns(s)
  <2> DEFINE A == {i \in DOMAIN s : Hooks!Foreign(s[i])}
             B == {i \in DOMAIN x : Hooks!Foreign(x[i])}
             g == [i \in A |-> Rank(I, i)]
  <2>1. A \subseteq I
    BY DEF Hooks!Foreign
  <2>2. DOMAIN x = 1 .. Len(x)
    BY <1>3, TextFacts
  <2>3. \A i \in I : Rank(I, i) \in 1 .. Len(x) /\ Hooks!Nth(I, Rank(I, i)) = i
    BY <1>3, NthIs
  <2>4. \A i \in I : x[Rank(I, i)] = s[i]
    BY <1>3, <2>3
  <2> HIDE DEF x
  <2>5. ASSUME NEW i \in A PROVE g[i] \in B /\ x[g[i]] = s[i]
    BY <2>1, <2>2, <2>3, <2>4
  <2>6. ASSUME NEW j \in B PROVE \E i \in A : g[i] = j
    <3>1. j \in 1 .. Len(x) /\ Hooks!Foreign(x[j])
      BY <2>2
    <3>2. Hooks!Nth(I, j) \in I /\ x[j] = s[Hooks!Nth(I, j)] /\ Rank(I, Hooks!Nth(I, j)) = j
      BY <1>3, <3>1, NthIs
    <3>3. Hooks!Nth(I, j) \in A
      BY <3>1, <3>2
    <3> QED
      BY <3>2, <3>3
  <2>7. \A i, j \in A : i < j => g[i] < g[j]
    BY <1>3, <2>1, RankStep
  <2>8. Rising(g, A, B)
    BY <2>5, <2>6, <2>7 DEF Rising
  <2>9. Positions(A) /\ Positions(B)
    BY <1>3, ForeignPositions
  <2>10. \A i \in A : x[g[i]] = s[i]
    BY <2>5
  <2> HIDE DEF g, A, B
  <2>11. Hooks!Picked(s, A) = Hooks!Picked(x, B)
    BY <2>8, <2>9, <2>10, PickedSame
  <2> QED
    BY <2>11 DEF Hooks!Foreigns, A, B
<1>9. Hooks!Foreigns(t) = Hooks!Foreigns(x)
  <2> HIDE DEF x, e
  <2>1. Len(x) + 1 \in 1 .. Len(x) + 1
    BY <1>3
  <2>2. \A i \in 1 .. Len(x) : IF i < Len(x) + 1 THEN t[i] = x[i] ELSE t[i + 1] = x[i]
    BY <1>3, <1>7
  <2>3. \A i \in Len(x) + 1 .. Len(x) + 1 + 1 - 1 : ~Hooks!Foreign(t[i])
    BY <1>3, <1>6, <1>7
  <2> HIDE DEF t
  <2> QED
    BY <1>3, <1>7, <2>1, <2>2, <2>3, ForeignsInserted
\* Once more: the same items without the block are picked.
<1>10. Hooks!PatchInclude(t) = t
  <2> DEFINE J == {i \in DOMAIN t : t[i].kind # "block"}
  <2>1. DOMAIN t = 1 .. Len(x) + 1
    BY <1>7, TextFacts
  <2>2. J = 1 .. Len(x)
    <3> HIDE DEF x, e, t
    <3>1. \A i \in 1 .. Len(x) + 1 : i \in 1 .. Len(x) \/ i = Len(x) + 1
      BY <1>3
    <3>2. \A i \in 1 .. Len(x) : i \in 1 .. Len(x) + 1 /\ i # Len(x) + 1
      BY <1>3
    <3> QED
      BY <1>5, <1>6, <1>7, <2>1, <3>1, <3>2
  <2>3. Hooks!Picked(t, 1 .. Len(x)) = Hooks!Picked(x, 1 .. Len(x))
    <3> HIDE DEF x, e, t
    <3>1. Positions(1 .. Len(x))
      <4>1. x \in Seq(Hooks!Entry) /\ 1 .. Len(x) \subseteq 1 .. Len(x)
        BY <1>3 DEF Texts
      <4> QED
        BY <4>1, PickedSeq DEF PickedFrom
    <3>2. \A n \in 1 .. Cardinality(1 .. Len(x)) : Hooks!Nth(1 .. Len(x), n) \in 1 .. Len(x)
      BY <3>1, NthIs
    <3> QED
      BY <1>7, <3>2, PickedIs
  <2>4. Hooks!Picked(x, 1 .. Len(x)) = x
    <3> HIDE DEF x
    <3> QED
      BY <1>3, PickedAll DEF Texts
  <2>5. Hooks!PatchInclude(t) = Append(Hooks!Picked(t, J), e)
    BY DEF Hooks!PatchInclude
  <2> QED
    BY <2>2, <2>3, <2>4, <2>5
<1>11. ~Hooks!Refused("php-include", t)
  <2> HIDE DEF x, e, t
  <2>1. DOMAIN t = 1 .. Len(x) + 1 /\ Len(x) \in Nat
    BY <1>3, <1>7, TextFacts
  <2>2. \A i \in 1 .. Len(x) + 1 : i \in 1 .. Len(x) \/ i = Len(x) + 1
    BY <2>1
  <2>3. ~Hooks!Twice(t, "block", Anchor)
    <3> SUFFICES ASSUME NEW i \in 1 .. Len(x) + 1, NEW j \in 1 .. Len(x) + 1, i # j,
                        t[i].kind = "block", t[j].kind = "block"
                 PROVE  FALSE
      BY <2>1 DEF Hooks!Twice
    <3> QED
      BY <1>5, <1>7, <2>2
  <2>4. Hooks!Item("open") \notin Hooks!Range(t)
    <3> SUFFICES ASSUME NEW i \in 1 .. Len(x) + 1, t[i] = Hooks!Item("open") PROVE FALSE
      BY <2>1 DEF Hooks!Range
    <3>1. t[i].kind = "open"
      BY ItemIs
    <3>2. i \in 1 .. Len(x)
      BY <1>6, <1>7, <2>2, <3>1
    <3>3. s[Hooks!Nth(I, i)] = Hooks!Item("open") /\ Hooks!Nth(I, i) \in I
      BY <1>3, <1>7, <3>2
    <3>4. Hooks!Item("open") \in Hooks!Range(s)
      BY <3>3 DEF Hooks!Range
    <3> QED
      BY <3>4 DEF Hooks!Refused
  <2> QED
    BY <2>3, <2>4 DEF Hooks!Refused
<1> HIDE DEF t
<1>12. EditedFrom("php-include", s, t, v)
  BY <1>7, <1>8, <1>9, <1>10, <1>11 DEF EditedFrom, Settled, Hooks!Edited
<1> QED
  BY <1>4, <1>12

-----------------------------------------------------------------------------
\* renderFrameworkFile, and all of them.

LEMMA WriteSettles ==
  ASSUME NEW s, NEW v \in Credential
  PROVE  Settled("write-file", Hooks!Edited("write-file", s, v), v)
<1> DEFINE t == Hooks!Assignments(Keys, v)
<1>1. Keys \in Seq(KeySet) /\ Len(Keys) \in Nat
  BY KeyFacts
<1>2. /\ t \in Texts /\ Len(t) = Len(Keys)
      /\ \A n \in 1 .. Len(Keys) : t[n] = Hooks!Set(Keys[n], v)
  BY <1>1, AssignmentsIs
<1>3. \A r : Hooks!Edited("write-file", r, v) = t
  BY DEF Hooks!Edited
<1> HIDE DEF t
<1>4. \A n \in 1 .. Len(t) : t[n].kind = "set" /\ t[n].key = Keys[n] /\ t[n].value = v
  <2> SUFFICES ASSUME NEW n \in 1 .. Len(t)
               PROVE  t[n].kind = "set" /\ t[n].key = Keys[n] /\ t[n].value = v
    OBVIOUS
  <2>1. Keys[n] \in KeySet
    BY <1>1, <1>2, ElementOfSeq
  <2> QED
    BY <1>2, <2>1, SetIs
<1>5. KeySet \subseteq Hooks!Active(t)
  <2> SUFFICES ASSUME NEW k \in KeySet PROVE k \in Hooks!Active(t)
    OBVIOUS
  <2>1. PICK n \in 1 .. Len(Keys) : Keys[n] = k
    BY KeyFacts
  <2> QED
    BY <1>2, <1>4, <2>1, ActiveIs
<1>6. AllSet(t, v)
  BY <1>2, <1>4, <1>5 DEF AllSet
<1>7. \A k \in KeySet : Hooks!Values(t, k) = {v}
  BY <1>6, AllSetValues
<1> QED
  BY <1>2, <1>3, <1>7 DEF Settled, Hooks!Refused

Types == {"dotenv", "php-array", "php-constants", "write-file", "php-include"}

LEMMA EditsAre ==
  ASSUME NEW type \in Types \ {"write-file"}, NEW s \in Texts, NEW v \in Credential,
         ~Hooks!Refused(type, s)
  PROVE  EditedFrom(type, s, Hooks!Edited(type, s, v), v)
<1>1. CASE type = "dotenv"
  BY <1>1, UpsertEdits DEF Hooks!Edited
<1>2. CASE type = "php-array"
  BY <1>2, ArrayEdits DEF Hooks!Edited
<1>3. CASE type = "php-constants"
  BY <1>3, ConstantsEdits DEF Hooks!Edited
<1>4. CASE type = "php-include"
  BY <1>4, IncludeEdits DEF Hooks!Edited
<1> QED
  BY <1>1, <1>2, <1>3, <1>4 DEF Types

-----------------------------------------------------------------------------
(* The five together, as the parts of one specification.                    *)

FilesInv ==
  /\ part = "msvc" => MSVCInv
  /\ part = "php" => PHPInv
  /\ part = "environments" => EnvInv
  /\ part = "release" => ReleaseInv
  /\ part = "pecl" => PeclInv

LEMMA FilesInit == Init => FilesInv
<1> SUFFICES ASSUME Init PROVE FilesInv
  OBVIOUS
<1>1. /\ part = "msvc" => Native!MSVCInit
      /\ part = "php" => Runtime!PHPInit
  BY DEF Init
<1>2. /\ part = "environments" => Project!EnvironmentInit
      /\ part = "release" => Upstream!ReleaseInit
      /\ part = "pecl" => Pecl!PeclInit
  BY DEF Init
<1> QED
  BY <1>1, <1>2, MSVCStart, PHPStart, EnvStart, ReleaseStart, PeclStart DEF FilesInv

LEMMA FileSteps ==
  ASSUME [Next]_projectPartVars
  PROVE  /\ UNCHANGED part
         /\ part = "msvc" => [Native!MSVCNext]_msvcVars
         /\ part = "php" => [Runtime!PHPNext]_phpVars
         /\ part = "environments" => [Project!EnvironmentNext]_projectVars
         /\ part = "release" => [Upstream!ReleaseNext]_releaseVars
         /\ part = "pecl" => [Pecl!PeclNext]_peclVars
<1>1. CASE Next
  BY <1>1 DEF Next
<1>2. CASE UNCHANGED projectPartVars
  BY <1>2 DEF projectPartVars
<1> QED
  BY <1>1, <1>2

LEMMA FilesStep == FilesInv /\ [Next]_projectPartVars => FilesInv'
<1> SUFFICES ASSUME FilesInv, [Next]_projectPartVars PROVE FilesInv'
  OBVIOUS
<1> QED
  BY FileSteps, MSVCStep, PHPStep, EnvStep, ReleaseStep, PeclStep DEF FilesInv

LEMMA FilesInvariant == Spec => []FilesInv
  BY FilesInit, FilesStep, PTL DEF Spec

\* The captured environment is that of the instance that builds are to use, and current as
\* long as the machine is not changed, however the syncs are cut short
\* (syncMSVCToolchain, captureMSVCEnvironment).
THEOREM ToolchainFollows == Spec => []ToolchainRight
<1>1. FilesInv => ToolchainRight
  BY DEF FilesInv, MSVCInv, ToolchainRight
<1> QED
  BY <1>1, FilesInvariant, PTL

\* Once an extension command or a sync is through, PHP loads what the config asks for,
\* whatever was edited and whichever commands were cut short before
\* (syncInstalledPHPRuntimeConfig, installPIEExtensions, runExtInstall, runExtRemove).
THEOREM PHPFollowsConfig == Spec => []PHPRight
<1>1. FilesInv => PHPRight
  BY PHPFollows DEF FilesInv, PHPRight
<1> QED
  BY <1>1, FilesInvariant, PTL

\* The shims are those of the active environment, for any number of commands that edit the
\* files at one time, as far as ShimsOfTheActive promises it (syncManagedBinaries).
THEOREM ShimsFollow == Spec => []ShimsRight
<1>1. FilesInv => ShimsRight
  BY DEF FilesInv, EnvInv, ShimsRight
<1> QED
  BY <1>1, FilesInvariant, PTL

\* What a download ends with is the newest release the request allows of those that were
\* listed, however the releases change and the calls fail.  If the manifest declares a
\* checksum or a digest was told, the bytes are those that the checksum is of; if it wants the
\* tag's commit, only the zip's comment is compared, and the bytes may be damaged; without any
\* of these nothing is checked (resolveManifestRequest,
\* downloadManifestAssetWithProgress, verifyFileChecksum, github_archive.go).
THEOREM ReleaseNewest == Spec => []ReleaseRight
<1>1. FilesInv => ReleaseRight
  BY ReleaseFollows DEF FilesInv, ReleaseRight
<1> QED
  BY <1>1, FilesInvariant, PTL

\* After a polka install that ended well, and commands that all did, php.ini loads the
\* packages of the config, each with the content that its version brought, and no library
\* that a record names is gone, however many packages share the one library
\* (installResolvedPECLExtension, RemovePECLExtension, syncPECLRuntimeConfig).
THEOREM ExtensionsStayLoaded == Spec => []PeclLoads
<1>1. FilesInv => PeclLoads
  BY PeclFollows DEF FilesInv, PeclLoads
<1> QED
  BY <1>1, FilesInvariant, PTL
=============================================================================
