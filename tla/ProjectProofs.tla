---------------------------- MODULE ProjectProofs ----------------------------
(***************************************************************************)
(* What polka keeps for a project and for the machine, for any number of   *)
(* commands, tools, versions, labels, builds and keys: the internal tools  *)
(* of InternalTools, the payloads of BuildEngine and the certificates of   *)
(* Certificates, as MCProject has them.                                    *)
(***************************************************************************)
EXTENDS MCProject, TLAPS

-----------------------------------------------------------------------------
(* Internal tools: the inductive invariant.  The lock of a tool serializes  *)
(* its installations as long as nothing is blurred, what is on record is    *)
(* whole, and so nobody takes it away to install it again.                  *)

\* Steps in which EnsureInternalTool has the lock of its tool.
Locked == {"again", "fetch", "remove", "rename", "configure", "read", "record"}
\* Those in which the tool was not on record.
Installs == Locked \ {"again"}
Steps == Locked \cup {"idle", "look", "write", "wait", "returned"}

Choice == [InternalTool -> Version \cup {Unset}]
Provision ==
  [step : Steps, tool : InternalTool \cup {Unset}, version : Version \cup {Unset},
   file : Choice, state : SUBSET Install]

InternalTypes ==
  /\ chosen \in Choice
  /\ recorded \in SUBSET Install
  /\ tree \in [Install -> {"absent", "bare", "whole"}]
  /\ lock \in [InternalTool -> Provisioner \cup {Unset}]
  /\ provision \in [Provisioner -> Provision]
  /\ \A p \in Provisioner : ~Stage(p, "idle") => Wanted(p) \in Install
  /\ mishaps \in 0 .. MaxMishaps /\ blurred \in BOOLEAN

LocksInv ==
  ~blurred => \A p \in Provisioner :
    provision[p].step \in Locked => lock[provision[p].tool] = p

RecordsInv ==
  ~blurred =>
    /\ \A i \in recorded : tree[i] = "whole"
    /\ \A p \in Provisioner :
         /\ Stage(p, "returned") => Wanted(p) \in recorded
         /\ provision[p].step \in Installs => Wanted(p) \notin recorded
         /\ Stage(p, "configure") => tree[Wanted(p)] # "absent"
         /\ provision[p].step \in {"read", "record"} => tree[Wanted(p)] = "whole"

InternalInv == InternalTypes /\ LocksInv /\ RecordsInv

LEMMA InternalInitInv == InternalInit => InternalInv
<1> SUFFICES ASSUME InternalInit PROVE InternalInv
  OBVIOUS
<1>1. NoProvision \in Provision /\ NoProvision.step = "idle"
  BY DEF NoProvision, Provision, Choice, Steps
<1>2. InternalTypes
  <2>1. chosen \in Choice /\ provision \in [Provisioner -> Provision] /\ mishaps \in 0 .. MaxMishaps
    BY <1>1, InternalAssumption DEF InternalInit, Choice
  <2> QED
    BY <1>1, <2>1 DEF InternalInit, InternalTypes, Stage
<1> QED
  BY <1>1, <1>2 DEF InternalInit, InternalInv, LocksInv, RecordsInv, NoProvision, Stage, Locked, Installs

\* A process that goes to another step with the rest of its provision.
LEMMA ProceedTypes ==
  ASSUME InternalTypes, NEW p \in Provisioner, NEW label \in Steps, ~Stage(p, "idle"), Proceed(p, label)
  PROVE  /\ provision' \in [Provisioner -> Provision]
         /\ \A q \in Provisioner : provision'[q].step # "idle" => Wanted(q)' \in Install
         /\ \A q \in Provisioner : q # p => provision'[q] = provision[q]
         /\ label # "idle" => provision'[p] = [provision[p] EXCEPT !.step = label]
         /\ provision'[p].step = label
<1>1. NoProvision \in Provision /\ NoProvision.step = "idle"
  BY DEF NoProvision, Provision, Choice, Steps
<1>2. \A r \in Provision : [r EXCEPT !.step = label] \in Provision
  BY DEF Provision
<1> QED
  BY <1>1, <1>2 DEF InternalTypes, Proceed, Stage, Wanted, Provision

LEMMA InternalTypesStep == InternalTypes /\ [InternalNext]_internalVars => InternalTypes'
<1> SUFFICES ASSUME InternalTypes, [InternalNext]_internalVars PROVE InternalTypes'
  OBVIOUS
<1> DEFINE Provisioned(f) == /\ f \in [Provisioner -> Provision]
                             /\ \A q \in Provisioner : f[q].step # "idle" => <<f[q].tool, f[q].version>> \in Install
<1>0. Provisioned(provision) /\ NoProvision \in Provision /\ NoProvision.step = "idle" /\ NoProvision.state = {}
      /\ NoProvision.file \in Choice /\ NoProvision.file = [t \in InternalTool |-> Unset]
  BY DEF NoProvision, Provision, Choice, Steps, InternalTypes, Stage, Wanted
<1>1. ASSUME Provisioned(provision'), chosen' \in Choice, recorded' \in SUBSET Install,
             tree' \in [Install -> {"absent", "bare", "whole"}],
             lock' \in [InternalTool -> Provisioner \cup {Unset}],
             mishaps' \in 0 .. MaxMishaps /\ blurred' \in BOOLEAN
      PROVE  InternalTypes'
  BY <1>1 DEF InternalTypes, Stage, Wanted
<1>2. ASSUME NEW p \in Provisioner, NEW label \in Steps, ~Stage(p, "idle"), Proceed(p, label)
      PROVE  Provisioned(provision')
  BY <1>2, ProceedTypes DEF Wanted
<1>3. ASSUME NEW p \in Provisioner PROVE Unlock(p) => lock' \in [InternalTool -> Provisioner \cup {Unset}]
  BY DEF Unlock, InternalTypes
<1>4. ASSUME NEW p \in Provisioner,
             ~Stage(p, "idle"), NEW label \in Steps, NEW choice \in Choice, NEW state \in SUBSET Install,
             provision' = [provision EXCEPT ![p] = [@ EXCEPT !.step = label, !.file = choice, !.state = state]]
      PROVE  Provisioned(provision')
  BY <1>0, <1>4 DEF Provision, Stage
<1>5. ASSUME NEW p \in Provisioner, provision' = [provision EXCEPT ![p] = NoProvision]
      PROVE  Provisioned(provision')
  BY <1>0, <1>5
<1>6. ASSUME NEW p \in Provisioner, ~Stage(p, "idle") PROVE Wanted(p) \in Install
  BY <1>6 DEF InternalTypes
<1> USE DEF Files, Rest, Mishap
<1>10. ASSUME NEW p \in Provisioner, NEW t \in InternalTool, Request(p, t) PROVE InternalTypes'
  <2>1. \E v \in Version, choice \in Choice, label \in {"look", "write"} :
          provision' = [provision EXCEPT ![p] =
             [NoProvision EXCEPT !.tool = t, !.version = v, !.step = label, !.file = choice]]
    <3> DEFINE v == IF chosen[t] = Unset THEN Default ELSE chosen[t]
    <3>1. v \in Version
      BY InternalAssumption DEF InternalTypes, Choice
    <3>2. [NoProvision EXCEPT !.tool = t, !.version = v, !.step = "look"] =
            [NoProvision EXCEPT !.tool = t, !.version = v, !.step = "look", !.file = NoProvision.file]
      BY DEF NoProvision
    <3>3. CASE chosen[t] = v
      <4>1. provision' = [provision EXCEPT ![p] =
               [NoProvision EXCEPT !.tool = t, !.version = v, !.step = "look"]]
        BY <1>10, <3>3 DEF Request
      <4>2. provision' = [provision EXCEPT ![p] =
               [NoProvision EXCEPT !.tool = t, !.version = v, !.step = "look", !.file = NoProvision.file]]
        BY <3>2, <4>1
      <4> HIDE DEF v
      <4>3. NoProvision.file \in Choice
        BY <1>0
      <4> QED
        BY <3>1, <4>2, <4>3
    <3>4. CASE chosen[t] # v
      <4>1. provision' = [provision EXCEPT ![p] =
               [NoProvision EXCEPT !.tool = t, !.version = v, !.step = "write", !.file = chosen]]
        BY <1>10, <3>4 DEF Request
      <4>2. chosen \in Choice
        BY DEF InternalTypes
      <4> HIDE DEF v
      <4> QED
        BY <3>1, <4>1, <4>2
    <3> QED
      BY <3>3, <3>4
  <2>2. Provisioned(provision')
    <3>1. PICK v \in Version, choice \in Choice, label \in {"look", "write"} :
            provision' = [provision EXCEPT ![p] =
               [NoProvision EXCEPT !.tool = t, !.version = v, !.step = label, !.file = choice]]
      BY <2>1
    <3> DEFINE r == [NoProvision EXCEPT !.tool = t, !.version = v, !.step = label, !.file = choice]
    <3>2. r \in Provision /\ r.tool = t /\ r.version = v
      BY <1>0 DEF NoProvision, Provision, Steps
    <3> HIDE DEF r
    <3> QED
      BY <1>0, <3>1, <3>2 DEF r, Install
  <2> QED
    BY <1>1, <1>10, <2>2 DEF Request, InternalTypes
<1>11. ASSUME NEW p \in Provisioner, WriteVersion(p) PROVE InternalTypes'
  <2>1. CASE provision' = [provision EXCEPT ![p].step = "look", ![p].file = NoProvision.file]
             /\ chosen' = [provision[p].file EXCEPT ![provision[p].tool] = provision[p].version]
    <3>1. Wanted(p) \in Install /\ ~Stage(p, "idle")
      BY <1>6, <1>11 DEF WriteVersion, Stage
    <3>2. provision' = [provision EXCEPT ![p] = [@ EXCEPT !.step = "look", !.file = NoProvision.file,
                                                         !.state = provision[p].state]]
      BY <1>0, <2>1 DEF Provision
    <3>3. Provisioned(provision')
      BY <1>0, <1>4, <3>1, <3>2 DEF Steps, Provision
    <3>4. chosen' \in Choice
      BY <2>1, <3>1, <1>0 DEF Provision, Choice, Wanted, Install
    <3> QED
      BY <1>1, <1>11, <3>3, <3>4 DEF WriteVersion, InternalTypes
  <2>2. CASE chosen' = NoProvision.file /\ provision' = [provision EXCEPT ![p] = NoProvision]
    BY <1>0, <1>1, <1>5, <1>11, <2>2 DEF WriteVersion, InternalTypes
  <2> QED
    BY <1>11, <2>1, <2>2 DEF WriteVersion
<1>12. ASSUME NEW p \in Provisioner,
              FastPath(p) \/ Acquire(p) \/ LookAgain(p) \/ Fetch(p) \/ RemoveTree(p) \/ RenameTree(p)
                \/ Configure(p)
       PROVE  InternalTypes'
  <2>1. ~Stage(p, "idle") /\ \E label \in Steps : Proceed(p, label)
    BY <1>12 DEF FastPath, Acquire, LookAgain, Fetch, RemoveTree, RenameTree, Configure, Stage, Steps, Locked
  <2>2. Provisioned(provision') /\ Wanted(p) \in Install
    BY <1>2, <1>6, <2>1
  <2>3. lock' \in [InternalTool -> Provisioner \cup {Unset}]
    BY <1>3, <1>12 DEF FastPath, Acquire, LookAgain, Fetch, RemoveTree, RenameTree, Configure, InternalTypes
  <2>4. tree' \in [Install -> {"absent", "bare", "whole"}]
    BY <1>12 DEF FastPath, Acquire, LookAgain, Fetch, RemoveTree, RenameTree, Configure, InternalTypes
  <2>5. UNCHANGED <<chosen, recorded, mishaps, blurred>>
    BY <1>12 DEF FastPath, Acquire, LookAgain, Fetch, RemoveTree, RenameTree, Configure
  <2> QED
    BY <1>1, <2>2, <2>3, <2>4, <2>5 DEF InternalTypes
<1>13. ASSUME NEW p \in Provisioner, ReadState(p) \/ RecordInstall(p) PROVE InternalTypes'
  <2>1. ~Stage(p, "idle") /\ provision[p].state \in SUBSET Install /\ Wanted(p) \in Install
        /\ provision[p].file \in Choice
    BY <1>0, <1>6, <1>13 DEF ReadState, RecordInstall, Stage, Provision
  <2>2. CASE provision' = [provision EXCEPT ![p] = NoProvision]
    BY <1>1, <1>3, <1>5, <1>13, <2>1, <2>2 DEF ReadState, RecordInstall, InternalTypes
  <2>3. ASSUME NEW label \in Steps, NEW state \in SUBSET Install,
               provision' = [provision EXCEPT ![p].step = label, ![p].state = state]
        PROVE  InternalTypes'
    <3>1. provision' = [provision EXCEPT ![p] = [@ EXCEPT !.step = label, !.file = provision[p].file,
                                                         !.state = state]]
      BY <1>0, <2>3 DEF Provision
    <3>2. Provisioned(provision')
      BY <1>4, <2>1, <3>1
    <3> QED
      BY <1>1, <1>3, <1>13, <2>1, <3>2 DEF ReadState, RecordInstall, InternalTypes
  <2>4. CASE ReadState(p)
    <3>1. "record" \in Steps /\ recorded \in SUBSET Install
      BY DEF Steps, Locked, InternalTypes
    <3> QED
      BY <2>3, <2>4, <3>1 DEF ReadState
  <2>5. CASE RecordInstall(p) /\ provision' = [provision EXCEPT ![p].step = "returned", ![p].state = {}]
    <3>1. "returned" \in Steps
      BY DEF Steps
    <3> QED
      BY <2>3, <2>5, <3>1
  <2> QED
    BY <1>13, <2>2, <2>4, <2>5 DEF RecordInstall
<1>14. CASE EditVersion \/ RemoveInstallation
  <2>1. mishaps' \in 0 .. MaxMishaps
    BY <1>14, InternalAssumption DEF EditVersion, RemoveInstallation, InternalTypes
  <2>2. chosen' \in Choice
    BY <1>14 DEF EditVersion, RemoveInstallation, InternalTypes, Choice
  <2>3. tree' \in [Install -> {"absent", "bare", "whole"}]
    BY <1>14 DEF EditVersion, RemoveInstallation, InternalTypes
  <2>4. blurred' \in BOOLEAN
    BY <1>14 DEF EditVersion, RemoveInstallation, InternalTypes
  <2>5. UNCHANGED <<recorded, lock, provision>>
    BY <1>14 DEF EditVersion, RemoveInstallation
  <2> QED
    BY <1>0, <1>1, <2>1, <2>2, <2>3, <2>4, <2>5 DEF InternalTypes
<1>15. ASSUME NEW t \in InternalTool, BreakLock(t) PROVE InternalTypes'
  <2>1. mishaps' \in 0 .. MaxMishaps
    BY <1>15, InternalAssumption DEF BreakLock, InternalTypes
  <2>2. blurred' \in BOOLEAN
    BY <1>15 DEF BreakLock, InternalTypes
  <2> QED
    BY <1>0, <1>1, <1>15, <2>1, <2>2 DEF BreakLock, InternalTypes
<1>16. ASSUME NEW p \in Provisioner, KillProvisioner(p) PROVE InternalTypes'
  <2>1. mishaps' \in 0 .. MaxMishaps
    BY <1>16, InternalAssumption DEF KillProvisioner, InternalTypes
  <2>2. chosen' \in Choice
    BY <1>16 DEF KillProvisioner, InternalTypes, Choice
  <2> QED
    BY <1>1, <1>5, <1>16, <2>1, <2>2 DEF KillProvisioner, InternalTypes
<1>17. CASE UNCHANGED internalVars
  BY <1>0, <1>1, <1>17 DEF internalVars, InternalTypes
<1> QED
  BY <1>10, <1>11, <1>12, <1>13, <1>14, <1>15, <1>16, <1>17 DEF InternalNext

\* What a step changes of the process that takes it.
LEMMA Stepped ==
  ASSUME InternalTypes, NEW p \in Provisioner, NEW label, label # "idle", Proceed(p, label)
  PROVE  /\ provision' = [provision EXCEPT ![p].step = label]
         /\ Wanted(p)' = Wanted(p)
BY DEF Proceed, InternalTypes, Provision, Wanted

LEMMA Ended ==
  ASSUME InternalTypes, NEW p \in Provisioner, Proceed(p, "idle")
  PROVE  provision' = [provision EXCEPT ![p] = NoProvision]
BY DEF Proceed

LEMMA LocksStep == InternalInv /\ [InternalNext]_internalVars => LocksInv'
<1> SUFFICES ASSUME InternalInv, [InternalNext]_internalVars, ~blurred'
             PROVE  \A p \in Provisioner : provision'[p].step \in Locked => lock'[provision'[p].tool] = p
  BY DEF LocksInv
<1> USE DEF Files, Rest
<1>0. InternalTypes /\ NoProvision.step = "idle"
  BY DEF InternalInv, NoProvision
<1>1. ~blurred
  BY <1>0 DEF InternalNext, EditVersion, RemoveInstallation, BreakLock, Request, WriteVersion, FastPath,
     Acquire, LookAgain, Fetch, RemoveTree, RenameTree, Configure, ReadState, RecordInstall,
     KillProvisioner, internalVars, InternalTypes
<1>2. \A p \in Provisioner : provision[p].step \in Locked =>
         lock[provision[p].tool] = p /\ provision[p].tool \in InternalTool
  BY <1>0, <1>1 DEF InternalInv, LocksInv, InternalTypes, Stage, Wanted, Locked, Install
\* A process that takes a step of its own and keeps, or gives back, what it holds.
<1>3. ASSUME NEW p \in Provisioner,
             \A q \in Provisioner : q # p => provision'[q] = provision[q],
             \/ provision'[p].step \notin Locked
             \/ provision[p].step \in Locked /\ provision'[p].tool = provision[p].tool /\ UNCHANGED lock,
             UNCHANGED lock \/ (provision[p].step \in Locked /\ Unlock(p))
      PROVE  \A q \in Provisioner : provision'[q].step \in Locked => lock'[provision'[q].tool] = q
  BY <1>0, <1>2, <1>3 DEF Unlock, InternalTypes
<1>4. ASSUME NEW p \in Provisioner, provision' = [provision EXCEPT ![p] = NoProvision],
             UNCHANGED lock \/ (provision[p].step \in Locked /\ Unlock(p))
      PROVE  \A q \in Provisioner : provision'[q].step \in Locked => lock'[provision'[q].tool] = q
  BY <1>0, <1>3, <1>4 DEF InternalTypes, Locked
<1>5. ASSUME NEW p \in Provisioner, NEW label, label # "idle", Proceed(p, label),
             \/ label \notin Locked
             \/ provision[p].step \in Locked /\ UNCHANGED lock,
             UNCHANGED lock \/ (provision[p].step \in Locked /\ Unlock(p))
      PROVE  \A q \in Provisioner : provision'[q].step \in Locked => lock'[provision'[q].tool] = q
  <2>1. provision' = [provision EXCEPT ![p].step = label]
    BY <1>0, <1>5, Stepped
  <2>2. provision'[p].step = label /\ provision'[p].tool = provision[p].tool
    BY <1>0, <2>1 DEF InternalTypes, Provision
  <2> QED
    BY <1>0, <1>3, <1>5, <2>1, <2>2 DEF InternalTypes
<1>10. ASSUME NEW p \in Provisioner, NEW t \in InternalTool, Request(p, t) PROVE
         \A q \in Provisioner : provision'[q].step \in Locked => lock'[provision'[q].tool] = q
  <2>1. provision'[p].step \in {"look", "write"} /\ \A q \in Provisioner : q # p => provision'[q] = provision[q]
    BY <1>0, <1>10 DEF Request, InternalTypes, NoProvision
  <2> QED
    BY <1>3, <1>10, <2>1 DEF Request, Locked
<1>11. ASSUME NEW p \in Provisioner, WriteVersion(p) PROVE
         \A q \in Provisioner : provision'[q].step \in Locked => lock'[provision'[q].tool] = q
  <2>1. provision'[p].step \in {"look", "idle"} /\ \A q \in Provisioner : q # p => provision'[q] = provision[q]
    BY <1>0, <1>11 DEF WriteVersion, InternalTypes, Provision
  <2> QED
    BY <1>3, <1>11, <2>1 DEF WriteVersion, Locked
<1>12. ASSUME NEW p \in Provisioner, Acquire(p) PROVE
         \A q \in Provisioner : provision'[q].step \in Locked => lock'[provision'[q].tool] = q
  <2>1. CASE lock[provision[p].tool] = Unset /\ lock' = [lock EXCEPT ![provision[p].tool] = p]
             /\ Proceed(p, "again")
    <3>1. provision' = [provision EXCEPT ![p].step = "again"] /\ provision[p].tool \in InternalTool
      BY <1>0, <1>12, <2>1, Stepped DEF Acquire, InternalTypes, Stage, Wanted, Install
    <3> QED
      BY <1>0, <1>2, <2>1, <3>1, InternalAssumption DEF InternalTypes, Provision
  <2>2. CASE UNCHANGED lock /\ Proceed(p, "idle")
    BY <1>0, <1>4, <2>2, Ended
  <2> QED
    BY <1>12, <2>1, <2>2 DEF Acquire
<1>13. ASSUME NEW p \in Provisioner, FastPath(p) PROVE
         \A q \in Provisioner : provision'[q].step \in Locked => lock'[provision'[q].tool] = q
  BY <1>5, <1>13 DEF FastPath, Locked
<1>14. ASSUME NEW p \in Provisioner,
              LookAgain(p) \/ Fetch(p) \/ RemoveTree(p) \/ RenameTree(p) \/ Configure(p) PROVE
         \A q \in Provisioner : provision'[q].step \in Locked => lock'[provision'[q].tool] = q
  <2>1. provision[p].step \in Locked
    BY <1>14 DEF LookAgain, Fetch, RemoveTree, RenameTree, Configure, Stage, Locked
  <2>2. CASE Proceed(p, "idle") /\ Unlock(p)
    BY <1>0, <1>4, <2>1, <2>2, Ended
  <2>3. CASE Proceed(p, "returned") /\ Unlock(p)
    BY <1>5, <2>1, <2>3 DEF Locked
  <2>4. CASE \E label \in Locked : Proceed(p, label) /\ UNCHANGED lock
    BY <1>5, <2>1, <2>4 DEF Locked
  <2> QED
    BY <1>14, <2>2, <2>3, <2>4 DEF LookAgain, Fetch, RemoveTree, RenameTree, Configure, Locked
<1>15. ASSUME NEW p \in Provisioner, ReadState(p) \/ RecordInstall(p) PROVE
         \A q \in Provisioner : provision'[q].step \in Locked => lock'[provision'[q].tool] = q
  <2>1. provision[p].step \in Locked
    BY <1>15 DEF ReadState, RecordInstall, Stage, Locked
  <2>2. CASE ReadState(p)
    <3>1. provision'[p].tool = provision[p].tool /\ \A q \in Provisioner : q # p => provision'[q] = provision[q]
      BY <1>0, <2>2 DEF ReadState, InternalTypes, Provision
    <3> QED
      BY <1>3, <2>1, <2>2, <3>1 DEF ReadState
  <2>3. CASE RecordInstall(p)
    <3>1. provision'[p].step \in {"returned", "idle"} /\ \A q \in Provisioner : q # p => provision'[q] = provision[q]
      BY <1>0, <2>3 DEF RecordInstall, InternalTypes, Provision
    <3> QED
      BY <1>3, <2>1, <2>3, <3>1 DEF RecordInstall, Locked
  <2> QED
    BY <1>15, <2>2, <2>3
<1>16. CASE EditVersion
  BY <1>2, <1>16 DEF EditVersion
<1>17. ASSUME NEW t \in InternalTool, BreakLock(t) PROVE
         \A q \in Provisioner : provision'[q].step \in Locked => lock'[provision'[q].tool] = q
  <2>1. ~(provision[lock[t]].tool = t /\ provision[lock[t]].step \notin {"idle", "look", "write", "wait", "returned"})
    BY <1>17 DEF BreakLock
  <2>2. \A q \in Provisioner : provision[q].step \in Locked => provision[q].tool # t
    BY <1>2, <2>1 DEF Locked
  <2> QED
    BY <1>0, <1>2, <1>17, <2>2 DEF BreakLock, InternalTypes
<1>18. ASSUME NEW p \in Provisioner, KillProvisioner(p) PROVE
         \A q \in Provisioner : provision'[q].step \in Locked => lock'[provision'[q].tool] = q
  BY <1>4, <1>18 DEF KillProvisioner
<1>19. CASE UNCHANGED internalVars
  BY <1>2, <1>19 DEF internalVars
<1>20. CASE RemoveInstallation
  BY <1>20 DEF RemoveInstallation
<1> QED
  BY <1>10, <1>11, <1>12, <1>13, <1>14, <1>15, <1>16, <1>17, <1>18, <1>19, <1>20 DEF InternalNext

\* A process whose step is none of those that RecordsInv speaks of.
Quiet == {"idle", "look", "write", "wait", "again"}

LEMMA RecordsStep == InternalInv /\ [InternalNext]_internalVars => RecordsInv'
<1> DEFINE Right(p) ==
             /\ Stage(p, "returned") => Wanted(p) \in recorded
             /\ provision[p].step \in Installs => Wanted(p) \notin recorded
             /\ Stage(p, "configure") => tree[Wanted(p)] # "absent"
             /\ provision[p].step \in {"read", "record"} => tree[Wanted(p)] = "whole"
           Goal == (\A i \in recorded : tree[i] = "whole") /\ \A p \in Provisioner : Right(p)
<1> SUFFICES ASSUME InternalInv, [InternalNext]_internalVars, ~blurred' PROVE Goal'
  BY DEF RecordsInv
<1> USE DEF Files, Rest
<1>0. InternalTypes /\ NoProvision.step = "idle"
  BY DEF InternalInv, NoProvision
<1>1. ~blurred
  BY <1>0 DEF InternalNext, EditVersion, RemoveInstallation, BreakLock, Request, WriteVersion, FastPath,
     Acquire, LookAgain, Fetch, RemoveTree, RenameTree, Configure, ReadState, RecordInstall,
     KillProvisioner, internalVars, InternalTypes
<1>2. Goal
  BY <1>1 DEF InternalInv, RecordsInv
\* Nobody else installs what p installs, and nobody runs it.
<1>3. ASSUME NEW p \in Provisioner, provision[p].step \in Installs
      PROVE  /\ Wanted(p) \in Install /\ Wanted(p) \notin recorded
             /\ \A q \in Provisioner : q # p /\ provision[q].step \in Installs => Wanted(q) # Wanted(p)
  <2>1. lock[provision[p].tool] = p /\ Wanted(p) \in Install
    BY <1>0, <1>1, <1>3 DEF InternalInv, LocksInv, Installs, InternalTypes, Stage, Locked
  <2>2. \A q \in Provisioner : provision[q].step \in Installs => lock[provision[q].tool] = q
    BY <1>1 DEF InternalInv, LocksInv, Installs
  <2> QED
    BY <1>2, <1>3, <2>1, <2>2 DEF Wanted
<1>4. ASSUME NEW p \in Provisioner, UNCHANGED <<recorded, tree>>,
             \A q \in Provisioner : q # p => provision'[q] = provision[q],
             provision'[p].step \in Quiet
      PROVE  Goal'
  <2>1. \A q \in Provisioner : q # p => Right(q)'
    BY <1>2, <1>4 DEF Stage, Wanted
  <2>2. Right(p)'
    BY <1>4 DEF Quiet, Installs, Locked, Stage
  <2> QED
    BY <1>2, <1>4, <2>1, <2>2
<1>5. ASSUME NEW p \in Provisioner, NEW label, label # "idle", Proceed(p, label), UNCHANGED <<recorded, tree>>,
             /\ label = "returned" => Wanted(p) \in recorded
             /\ label \in Installs => Wanted(p) \notin recorded
             /\ label = "configure" => tree[Wanted(p)] # "absent"
             /\ label \in {"read", "record"} => tree[Wanted(p)] = "whole"
      PROVE  Goal'
  <2>1. provision' = [provision EXCEPT ![p].step = label] /\ Wanted(p)' = Wanted(p)
    BY <1>0, <1>5, Stepped
  <2>2. provision'[p].step = label /\ \A q \in Provisioner : q # p => provision'[q] = provision[q]
    BY <1>0, <2>1 DEF InternalTypes, Provision
  <2>3. \A q \in Provisioner : q # p => Right(q)'
    BY <1>2, <1>5, <2>2 DEF Stage, Wanted
  <2>4. Right(p)'
    BY <1>5, <2>1, <2>2 DEF Stage
  <2> QED
    BY <1>2, <1>5, <2>3, <2>4
<1>6. ASSUME NEW p \in Provisioner, UNCHANGED <<recorded, tree>>, provision' = [provision EXCEPT ![p] = NoProvision]
      PROVE  Goal'
  BY <1>0, <1>4, <1>6 DEF InternalTypes, Quiet
\* Installing changes one installation.
<1>7. ASSUME NEW p \in Provisioner, provision[p].step \in Installs, NEW kind,
             tree' = [tree EXCEPT ![Wanted(p)] = kind], UNCHANGED recorded,
             NEW label \in Installs, Proceed(p, label),
             label = "configure" => kind # "absent",
             label \in {"read", "record"} => kind = "whole"
      PROVE  Goal'
  <2>1. provision' = [provision EXCEPT ![p].step = label] /\ Wanted(p)' = Wanted(p)
    BY <1>0, <1>7, Stepped DEF Installs, Locked
  <2>2. provision'[p].step = label /\ \A q \in Provisioner : q # p => provision'[q] = provision[q]
    BY <1>0, <2>1 DEF InternalTypes, Provision
  <2>3. tree'[Wanted(p)] = kind /\ \A i \in Install : i # Wanted(p) => tree'[i] = tree[i]
    BY <1>0, <1>3, <1>7 DEF InternalTypes
  <2>4. \A q \in Provisioner : ~Stage(q, "idle") => Wanted(q) \in Install
    BY <1>0 DEF InternalTypes
  <2>5. ASSUME NEW q \in Provisioner, q # p PROVE Right(q)'
    <3>1. Wanted(q)' = Wanted(q) /\ provision'[q].step = provision[q].step
      BY <2>2, <2>5 DEF Wanted
    <3>2. provision[q].step \in Installs => Wanted(q) # Wanted(p)
      BY <1>3, <1>7, <2>5
    <3>3. {"configure", "read", "record"} \subseteq Installs
      BY DEF Installs, Locked
    <3>4. tree'[Wanted(q)] = tree[Wanted(q)] \/ provision[q].step \notin Installs
      BY <2>3, <2>4, <3>2 DEF Stage, Installs, Locked
    <3> QED
      BY <1>2, <1>7, <3>1, <3>3, <3>4 DEF Stage
  <2>6. Right(p)'
    BY <1>3, <1>7, <2>1, <2>2, <2>3 DEF Stage, Installs, Locked
  <2>7. \A i \in recorded : i \in Install /\ i # Wanted(p)
    BY <1>0, <1>3, <1>7 DEF InternalTypes
  <2> QED
    BY <1>2, <1>7, <2>3, <2>5, <2>6, <2>7
<1> HIDE DEF Goal, Right
<1>10. ASSUME NEW p \in Provisioner, NEW t \in InternalTool, Request(p, t) PROVE Goal'
  <2>1. provision'[p].step \in {"look", "write"} /\ \A q \in Provisioner : q # p => provision'[q] = provision[q]
    BY <1>0, <1>10 DEF Request, InternalTypes, NoProvision
  <2> QED
    BY <1>4, <1>10, <2>1 DEF Request, Quiet
<1>11. ASSUME NEW p \in Provisioner, WriteVersion(p) PROVE Goal'
  <2>1. provision'[p].step \in {"look", "idle"} /\ \A q \in Provisioner : q # p => provision'[q] = provision[q]
    BY <1>0, <1>11 DEF WriteVersion, InternalTypes, Provision
  <2> QED
    BY <1>4, <1>11, <2>1 DEF WriteVersion, Quiet
<1>12. ASSUME NEW p \in Provisioner, FastPath(p) PROVE Goal'
  BY <1>5, <1>12 DEF FastPath, Resolved, Installs, Locked
<1>13. ASSUME NEW p \in Provisioner, Acquire(p) PROVE Goal'
  <2>1. CASE Proceed(p, "again")
    BY <1>5, <1>13, <2>1 DEF Acquire, Installs
  <2>2. CASE Proceed(p, "idle")
    BY <1>0, <1>6, <1>13, <2>2, Ended DEF Acquire
  <2> QED
    BY <1>13, <2>1, <2>2 DEF Acquire
<1>14. ASSUME NEW p \in Provisioner, LookAgain(p) PROVE Goal'
  <2>1. CASE Resolved(Wanted(p)) /\ Proceed(p, "returned")
    BY <1>5, <1>14, <2>1 DEF LookAgain, Resolved, Installs, Locked
  <2>2. CASE ~Resolved(Wanted(p)) /\ Proceed(p, "fetch")
    <3>1. Wanted(p) \notin recorded
      BY <1>2, <2>2 DEF Goal, Resolved
    <3> QED
      BY <1>5, <1>14, <2>2, <3>1 DEF LookAgain
  <2> QED
    BY <1>14, <2>1, <2>2 DEF LookAgain
<1>15. ASSUME NEW p \in Provisioner, Fetch(p) PROVE Goal'
  <2>1. provision[p].step \in Installs
    BY <1>15 DEF Fetch, Stage, Installs, Locked
  <2>2. CASE Proceed(p, "remove")
    BY <1>3, <1>5, <1>15, <2>1, <2>2 DEF Fetch
  <2>3. CASE Proceed(p, "idle")
    BY <1>0, <1>6, <1>15, <2>3, Ended DEF Fetch
  <2> QED
    BY <1>15, <2>2, <2>3 DEF Fetch
<1>16. ASSUME NEW p \in Provisioner, RemoveTree(p) PROVE Goal'
  <2>1. provision[p].step \in Installs /\ "rename" \in Installs
    BY <1>16 DEF RemoveTree, Stage, Installs, Locked
  <2> QED
    BY <1>7, <1>16, <2>1 DEF RemoveTree
<1>17. ASSUME NEW p \in Provisioner, RenameTree(p) PROVE Goal'
  <2>1. provision[p].step \in Installs /\ "configure" \in Installs
    BY <1>17 DEF RenameTree, Stage, Installs, Locked
  <2>2. CASE Proceed(p, "configure")
             /\ tree' = [tree EXCEPT ![Wanted(p)] =
                           IF provision[p].tool \in Configured THEN "bare" ELSE "whole"]
    <3> DEFINE kind == IF provision[p].tool \in Configured THEN "bare" ELSE "whole"
    <3>1. kind # "absent" /\ tree' = [tree EXCEPT ![Wanted(p)] = kind]
      BY <2>2
    <3> HIDE DEF kind
    <3> QED
      BY <1>7, <1>17, <2>1, <2>2, <3>1 DEF RenameTree
  <2>3. CASE UNCHANGED tree /\ Proceed(p, "idle")
    BY <1>0, <1>6, <1>17, <2>3, Ended DEF RenameTree
  <2> QED
    BY <1>17, <2>2, <2>3 DEF RenameTree
<1>18. ASSUME NEW p \in Provisioner, Configure(p) PROVE Goal'
  <2>1. provision[p].step \in Installs /\ "read" \in Installs
    BY <1>18 DEF Configure, Stage, Installs, Locked
  <2>2. CASE Proceed(p, "read") /\ tree' = [tree EXCEPT ![Wanted(p)] = IF @ = "absent" THEN @ ELSE "whole"]
    <3>1. tree[Wanted(p)] # "absent"
      BY <1>2, <1>18 DEF Goal, Right, Configure
    <3>2. tree' = [tree EXCEPT ![Wanted(p)] = "whole"]
      BY <2>2, <3>1
    <3> QED
      BY <1>7, <1>18, <2>1, <2>2, <3>2 DEF Configure
  <2>3. CASE UNCHANGED tree /\ Proceed(p, "idle")
    BY <1>0, <1>6, <1>18, <2>3, Ended DEF Configure
  <2> QED
    BY <1>18, <2>2, <2>3 DEF Configure
<1>19. ASSUME NEW p \in Provisioner, ReadState(p) PROVE Goal'
  <2>1. provision'[p].step = "record" /\ Wanted(p)' = Wanted(p)
        /\ \A q \in Provisioner : q # p => provision'[q] = provision[q]
    BY <1>0, <1>19 DEF ReadState, InternalTypes, Provision, Wanted
  <2>2. UNCHANGED <<recorded, tree>>
    BY <1>19 DEF ReadState
  <2>3. Right(p)'
    BY <1>2, <1>19, <2>1, <2>2 DEF ReadState, Goal, Right, Stage, Installs, Locked
  <2>4. \A q \in Provisioner : q # p => Right(q)'
    BY <1>2, <2>1, <2>2 DEF Goal, Right, Stage, Wanted
  <2> QED
    BY <1>2, <2>2, <2>3, <2>4 DEF Goal
<1>20. ASSUME NEW p \in Provisioner, RecordInstall(p) PROVE Goal'
  <2>1. provision[p].step \in Installs /\ tree[Wanted(p)] = "whole"
    BY <1>2, <1>20 DEF RecordInstall, Stage, Installs, Locked, Goal, Right
  <2>2. CASE UNCHANGED <<recorded, blurred>> /\ provision' = [provision EXCEPT ![p] = NoProvision]
    BY <1>6, <1>20, <2>2 DEF RecordInstall
  <2>3. CASE /\ recorded' = provision[p].state \cup {Wanted(p)}
             /\ blurred' = (blurred \/ recorded # provision[p].state)
             /\ provision' = [provision EXCEPT ![p].step = "returned", ![p].state = {}]
    <3>1. recorded' = recorded \cup {Wanted(p)} /\ UNCHANGED tree
      BY <1>20, <2>3 DEF RecordInstall
    <3>2. provision'[p].step = "returned" /\ Wanted(p)' = Wanted(p)
          /\ \A q \in Provisioner : q # p => provision'[q] = provision[q]
      BY <1>0, <2>3 DEF InternalTypes, Provision, Wanted
    <3>3. Right(p)'
      BY <3>1, <3>2 DEF Right, Stage, Installs, Locked
    <3>4. \A q \in Provisioner : q # p /\ provision[q].step \in Installs => Wanted(q) # Wanted(p)
      BY <1>3, <2>1
    <3>5. \A q \in Provisioner : q # p => Right(q)'
      BY <1>2, <3>1, <3>2, <3>4 DEF Goal, Right, Stage, Wanted
    <3> QED
      BY <1>2, <2>1, <3>1, <3>3, <3>5 DEF Goal
  <2> QED
    BY <1>20, <2>2, <2>3 DEF RecordInstall
<1>21. CASE UNCHANGED <<recorded, tree, provision>>
  BY <1>2, <1>21 DEF Goal, Right, Stage, Wanted
<1>22. ASSUME NEW p \in Provisioner, KillProvisioner(p) PROVE Goal'
  BY <1>6, <1>22 DEF KillProvisioner
<1>23. UNCHANGED internalVars \/ EditVersion \/ (\E t \in InternalTool : BreakLock(t))
       => UNCHANGED <<recorded, tree, provision>>
  BY DEF internalVars, EditVersion, BreakLock
<1>24. ~RemoveInstallation
  BY DEF RemoveInstallation
<1> QED
  BY <1>10, <1>11, <1>12, <1>13, <1>14, <1>15, <1>16, <1>17, <1>18, <1>19, <1>20, <1>21, <1>22, <1>23, <1>24
     DEF InternalNext

LEMMA InternalStep == InternalInv /\ [InternalNext]_internalVars => InternalInv'
  BY InternalTypesStep, LocksStep, RecordsStep DEF InternalInv

-----------------------------------------------------------------------------
(* Builds: the inductive invariant.  The build directory of a label holds   *)
(* the files of the build that has the lock, and what the look under the    *)
(* lock found stays so until the payload is published.                      *)

\* Steps in which a command has the lock of its label; from the reset on it knows the cache;
\* from the fetch on it has a number; and then its files are in the directory.
Decided == {"reset", "fetch", "compile", "install", "package", "publish"}
Numbered == Decided \ {"reset"}
Filling == Numbered \ {"publish"}
BuildSteps == Decided \cup {"idle", "look", "acquire", "recheck", "forget", "drop"}

Payload == [number : Nat, of : SUBSET Nat]
SomeLabel == Label \cup {Unlocked}
BuildRecord ==
  [step : BuildSteps, label : SomeLabel, force : BOOLEAN, replaced : BOOLEAN, number : Nat,
   archive : SUBSET Nat, copy : SUBSET Label]
InstallRecord == [step : {"idle", "put", "read", "record"}, payload : Payload, copy : SUBSET Label]

BuildTypes ==
  /\ cached \in [Label -> Payload]
  /\ buildRoot \in [Label -> SUBSET Nat]
  /\ buildLock \in [Label -> Builder \cup {Unlocked}]
  /\ compiler \in [Label -> SUBSET Nat]
  /\ internal \in [Label -> Payload] /\ named \in SUBSET Label
  /\ build \in [Builder -> BuildRecord]
  /\ \A b \in Builder : ~Built!Step(b, "idle") => build[b].label \in Label
  /\ installing \in [Label -> InstallRecord]
  /\ begun \in Nat

BuildLocks ==
  /\ \A b \in Builder : build[b].step \in Decided \cup {"recheck"} => buildLock[build[b].label] = b
  /\ \A b \in Builder : build[b].step \in Numbered => build[b].number \in 1 .. begun
  /\ \A n \in left : n \in 1 .. begun
  /\ \A l \in Label : cached[l].number <= begun

\* The files of a build: a compiler that goes on is not of this label, unless the build is marked.
BuildFiles ==
  /\ \A b \in Builder : build[b].step \in Filling /\ build[b].number \notin left =>
        compiler[build[b].label] = {} /\ buildRoot[build[b].label] \subseteq {build[b].number}
  /\ \A b \in Builder : Built!Step(b, "publish") /\ build[b].number \notin left =>
        build[b].archive \subseteq {build[b].number}
  /\ Built!PayloadOfOneBuild

\* What a build knows of the cache: without force, or without a replacement, there is nothing.
BuildKnows ==
  \A b \in Builder : build[b].step \in Decided =>
    /\ ~build[b].force => cached[build[b].label] = Built!NoPayload
    /\ ~build[b].replaced => cached[build[b].label] = Built!NoPayload

\* An internal install is made from a payload that was in the cache, and nothing is removed
\* there; so what installed.json or a copy of it names is in the cache.
Had == {l \in Label : cached[l] # Built!NoPayload}
InternalFollows ==
  /\ named \subseteq Had
  /\ \A b \in Builder : build[b].copy \subseteq Had
  /\ \A l \in Label :
       /\ installing[l].copy \subseteq Had
       /\ Built!Overlaps(l) =>
            l \in Had /\ (installing[l].payload = cached[l] \/ l \in missed)
       /\ installing[l].step \in {"read", "record"} => internal[l] = installing[l].payload
  /\ Built!InternalFollowsBuild

\* An internal install takes a step.
Internals ==
  \E l \in Label :
    \/ Built!TakePayload(l) \/ Built!PutInternal(l) \/ Built!CopyRecords(l)
    \/ Built!RecordInternal(l) \/ Built!FailInstall(l)

BuildInv == BuildTypes /\ BuildLocks /\ BuildFiles /\ BuildKnows /\ InternalFollows

LEMMA BuildRecords ==
  /\ Built!NoPayload \in Payload /\ Built!NoPayload.number = 0 /\ Built!NoPayload.of = {}
  /\ Built!NoBuild \in BuildRecord /\ Built!NoBuild.step = "idle"
  /\ Built!NoBuild.copy = {}
  /\ Built!NoInstalling \in InstallRecord
  /\ Built!NoInstalling.step = "idle" /\ Built!NoInstalling.copy = {}
  /\ Built!Downloaded \in Payload /\ Built!Downloaded.number = 0 /\ Built!Downloaded.of = {0}
BY DEF Built!NoPayload, Built!Downloaded, Built!NoBuild, Built!NoInstalling, Payload, BuildRecord,
       InstallRecord, BuildSteps, Decided, SomeLabel

LEMMA InternalsFrame ==
  Internals => UNCHANGED <<cached, buildRoot, buildLock, compiler, build, left, begun, killed>>
BY DEF Internals, Built!TakePayload, Built!PutInternal, Built!CopyRecords, Built!RecordInternal,
       Built!FailInstall, Built!InternalFrame, Built!Bounds

LEMMA BuildInitInv == Built!BuildInit => BuildInv
<1> SUFFICES ASSUME Built!BuildInit PROVE BuildInv
  OBVIOUS
<1> USE BuildRecords DEF Built!BuildInit
<1>1. BuildTypes
  BY DEF BuildTypes, Built!Step
<1>2. BuildLocks
  BY DEF BuildLocks, Decided, Numbered
<1>3. BuildFiles
  BY DEF BuildFiles, Filling, Numbered, Decided, Built!PayloadOfOneBuild, Built!Step
<1>4. BuildKnows
  BY DEF BuildKnows, Decided
<1>5. InternalFollows
  BY DEF InternalFollows, Built!InternalFollowsBuild, Built!Overlaps
<1> QED
  BY <1>1, <1>2, <1>3, <1>4, <1>5 DEF BuildInv

\* A command takes a step: what the others and their records are.
LEMMA BuildGoes ==
  ASSUME BuildTypes, NEW b \in Builder, ~Built!Step(b, "idle"), NEW label \in BuildSteps, NEW replaced \in BOOLEAN,
         NEW number \in Nat, NEW archive \in SUBSET Nat,
         build' = [build EXCEPT ![b] = [@ EXCEPT !.step = label, !.replaced = replaced, !.number = number,
                                               !.archive = archive]]
  PROVE  /\ build' \in [Builder -> BuildRecord]
         /\ \A c \in Builder : build'[c].step # "idle" => build'[c].label \in Label
<1> DEFINE r == [build[b] EXCEPT !.step = label, !.replaced = replaced, !.number = number, !.archive = archive]
<1>1. r \in BuildRecord /\ r.label = build[b].label
  BY DEF BuildTypes, BuildRecord
<1>2. build' = [build EXCEPT ![b] = r]
  OBVIOUS
<1> HIDE DEF r
<1> QED
  BY <1>1, <1>2 DEF BuildTypes, Built!Step

LEMMA BuildEnds ==
  ASSUME BuildTypes, NEW b \in Builder, build' = [build EXCEPT ![b] = Built!NoBuild]
  PROVE  /\ build' \in [Builder -> BuildRecord]
         /\ \A c \in Builder : build'[c].step # "idle" => build'[c].label \in Label
         /\ build'[b].step = "idle"
         /\ \A c \in Builder : c # b => build'[c] = build[c]
BY BuildRecords DEF BuildTypes, Built!Step

\* The step of a command that only goes on.
LEMMA BuildMoves ==
  ASSUME BuildTypes, NEW b \in Builder, ~Built!Step(b, "idle"), NEW label \in BuildSteps, Built!Goes(b, label)
  PROVE  /\ build' \in [Builder -> BuildRecord]
         /\ \A c \in Builder : build'[c].step # "idle" => build'[c].label \in Label
         /\ build'[b] = [build[b] EXCEPT !.step = label]
         /\ \A c \in Builder : c # b => build'[c] = build[c]
BY DEF BuildTypes, Built!Step, Built!Goes, BuildRecord

LEMMA BuildTypesStep == BuildTypes /\ [Built!BuildNext]_builtVars => BuildTypes'
<1> SUFFICES ASSUME BuildTypes, [Built!BuildNext]_builtVars PROVE BuildTypes'
  OBVIOUS
<1> DEFINE Known(f) == /\ f \in [Builder -> BuildRecord]
                       /\ \A c \in Builder : f[c].step # "idle" => f[c].label \in Label
<1>0. Known(build)
  BY DEF BuildTypes, Built!Step
<1>1. ASSUME Known(build'), cached' \in [Label -> Payload], buildRoot' \in [Label -> SUBSET Nat],
             buildLock' \in [Label -> Builder \cup {Unlocked}], compiler' \in [Label -> SUBSET Nat],
             internal' \in [Label -> Payload], named' \in SUBSET Label,
             installing' \in [Label -> InstallRecord], begun' \in Nat
      PROVE  BuildTypes'
  BY <1>1 DEF BuildTypes, Built!Step
<1>2. ASSUME NEW b \in Builder, ~Built!Step(b, "idle"), NEW label \in BuildSteps, Built!Goes(b, label)
      PROVE  Known(build')
  BY <1>2, BuildMoves
<1>3. ASSUME NEW b \in Builder, build' = [build EXCEPT ![b] = Built!NoBuild]
      PROVE  Known(build')
  BY <1>3, BuildEnds
<1>4. ASSUME NEW b \in Builder, NEW next \in {"idle", "forget"}, ~Built!Step(b, "idle"), Built!Leave(b, next)
      PROVE  Known(build') /\ buildRoot' \in [Label -> SUBSET Nat]
             /\ buildLock' \in [Label -> Builder \cup {Unlocked}]
  <2>1. buildRoot' \in [Label -> SUBSET Nat] /\ buildLock' \in [Label -> Builder \cup {Unlocked}]
    BY <1>4 DEF Built!Leave, BuildTypes
  <2>2. CASE next = "idle"
    BY <1>3, <1>4, <2>1, <2>2 DEF Built!Leave
  <2>3. CASE next = "forget"
    <3>1. Built!Goes(b, "forget") /\ "forget" \in BuildSteps
      BY <1>4, <2>3 DEF Built!Leave, BuildSteps
    <3> QED
      BY <1>2, <1>4, <2>1, <3>1
  <2> QED
    BY <2>2, <2>3
<1> USE DEF Built!InternalSide, Built!Bounds, Built!Here
<1>10. ASSUME NEW b \in Builder, Built!BeginBuild(b) PROVE BuildTypes'
  <2>1. PICK l \in Label, f \in BOOLEAN :
          build' = [build EXCEPT ![b] =
                      [Built!NoBuild EXCEPT !.step = "look", !.label = l, !.force = f]]
    BY <1>10 DEF Built!BeginBuild
  <2> DEFINE r == [Built!NoBuild EXCEPT !.step = "look", !.label = l, !.force = f]
  <2>2. r \in BuildRecord /\ r.label = l
    BY BuildRecords DEF Built!NoBuild, BuildRecord, BuildSteps, SomeLabel
  <2> HIDE DEF r
  <2>3. Known(build')
    BY <1>0, <2>1, <2>2 DEF r
  <2> QED
    BY <1>1, <1>10, <2>3 DEF Built!BeginBuild, BuildTypes
<1>11. ASSUME NEW b \in Builder, Built!LookCached(b) PROVE BuildTypes'
  <2>1. ~Built!Step(b, "idle")
    BY <1>11 DEF Built!LookCached, Built!Step
  <2>2. Known(build')
    <3>1. CASE build' = [build EXCEPT ![b] = Built!NoBuild]
      BY <1>3, <3>1
    <3>2. CASE Built!Goes(b, "acquire")
      BY <1>2, <2>1, <3>2 DEF BuildSteps
    <3>3. CASE build' = [build EXCEPT ![b].step = "reset", ![b].replaced = cached[build[b].label] # Built!NoPayload]
      <4> DEFINE r == cached[build[b].label] # Built!NoPayload
      <4>1. r \in BOOLEAN /\ "reset" \in BuildSteps
        BY DEF BuildSteps, Decided
      <4>2. build' = [build EXCEPT ![b] = [@ EXCEPT !.step = "reset", !.replaced = r, !.number = build[b].number,
                                               !.archive = build[b].archive]]
        BY <3>3 DEF BuildTypes, BuildRecord
      <4>3. build[b].number \in Nat /\ build[b].archive \in SUBSET Nat
        BY DEF BuildTypes, BuildRecord
      <4> HIDE DEF r
      <4> QED
        BY <2>1, <4>1, <4>2, <4>3, BuildGoes
    <3> QED
      BY <1>11, <3>1, <3>2, <3>3 DEF Built!LookCached
  <2>3. buildLock' \in [Label -> Builder \cup {Unlocked}]
    BY <1>11 DEF Built!LookCached, BuildTypes
  <2> QED
    BY <1>1, <1>11, <2>2, <2>3 DEF Built!LookCached, BuildTypes
<1>12. ASSUME NEW b \in Builder, Built!AcquireBuildLock(b) PROVE BuildTypes'
  <2>1. ~Built!Step(b, "idle") /\ "recheck" \in BuildSteps
    BY <1>12 DEF Built!AcquireBuildLock, Built!Step, BuildSteps
  <2>2. Known(build') /\ buildLock' \in [Label -> Builder \cup {Unlocked}]
    BY <1>2, <1>3, <1>12, <2>1 DEF Built!AcquireBuildLock, BuildTypes
  <2> QED
    BY <1>1, <1>12, <2>2 DEF Built!AcquireBuildLock, BuildTypes
<1>13. ASSUME NEW b \in Builder, Built!ResetRoot(b) PROVE BuildTypes'
  <2>1. ~Built!Step(b, "idle")
    BY <1>13 DEF Built!ResetRoot, Built!Step
  <2>2. ASSUME build' = [build EXCEPT ![b].step = "fetch", ![b].number = begun + 1] PROVE Known(build')
    <3>1. build' = [build EXCEPT ![b] = [@ EXCEPT !.step = "fetch", !.replaced = build[b].replaced,
                                            !.number = begun + 1, !.archive = build[b].archive]]
      BY <2>2 DEF BuildTypes, BuildRecord
    <3>2. /\ build[b].replaced \in BOOLEAN /\ begun + 1 \in Nat /\ build[b].archive \in SUBSET Nat
          /\ "fetch" \in BuildSteps
      BY DEF BuildTypes, BuildRecord, BuildSteps, Decided
    <3> QED
      BY <2>1, <3>1, <3>2, BuildGoes
  <2>4. Known(build')
    BY <1>3, <1>13, <2>2 DEF Built!ResetRoot
  <2>5. /\ begun' \in Nat /\ buildRoot' \in [Label -> SUBSET Nat] /\ buildLock' \in [Label -> Builder \cup {Unlocked}]
        /\ UNCHANGED <<cached, compiler, internal, named, installing>>
    BY <1>13 DEF Built!ResetRoot, BuildTypes
  <2> QED
    BY <1>1, <2>4, <2>5 DEF BuildTypes
<1>14. ASSUME NEW b \in Builder, NEW from \in Filling, NEW next \in Filling, Built!Work(b, from, next)
       PROVE  BuildTypes'
  <2>1. ~Built!Step(b, "idle") /\ next \in BuildSteps
    BY <1>14 DEF Built!Work, Built!Step, BuildSteps, Filling, Numbered, Decided
  <2>2. CASE Built!Goes(b, next) /\ buildRoot' = [buildRoot EXCEPT ![Built!Here(b)] = @ \cup {build[b].number}]
             /\ UNCHANGED buildLock
    <3>1. buildRoot' \in [Label -> SUBSET Nat]
      BY <2>2 DEF BuildTypes, BuildRecord
    <3> QED
      BY <1>1, <1>2, <1>14, <2>1, <2>2, <3>1 DEF Built!Work, BuildTypes
  <2>3. CASE Built!Leave(b, "idle")
    BY <1>1, <1>4, <1>14, <2>1, <2>3 DEF Built!Work, BuildTypes
  <2> QED
    BY <1>14, <2>2, <2>3 DEF Built!Work
<1>15. ASSUME NEW b \in Builder, Built!PackageAndVerify(b) PROVE BuildTypes'
  <2>1. ~Built!Step(b, "idle") /\ build[b].label \in Label
    BY <1>15 DEF Built!PackageAndVerify, Built!Step, BuildTypes
  <2>2. CASE build' = [build EXCEPT ![b].step = "publish", ![b].archive = buildRoot[build[b].label]]
             /\ UNCHANGED <<buildRoot, buildLock>>
    <3>1. build' = [build EXCEPT ![b] = [@ EXCEPT !.step = "publish", !.replaced = build[b].replaced,
                            !.number = build[b].number, !.archive = buildRoot[build[b].label]]]
      BY <2>2 DEF BuildTypes, BuildRecord
    <3>2. /\ build[b].replaced \in BOOLEAN /\ build[b].number \in Nat /\ buildRoot[build[b].label] \in SUBSET Nat
          /\ "publish" \in BuildSteps
      BY <2>1 DEF BuildTypes, BuildRecord, BuildSteps, Decided
    <3>3. Known(build')
      BY <2>1, <3>1, <3>2, BuildGoes
    <3> QED
      BY <1>1, <1>15, <2>2, <3>3 DEF Built!PackageAndVerify, BuildTypes
  <2>3. CASE Built!Leave(b, "idle")
    BY <1>1, <1>4, <1>15, <2>1, <2>3 DEF Built!PackageAndVerify, BuildTypes
  <2> QED
    BY <1>15, <2>2, <2>3 DEF Built!PackageAndVerify
<1>16. ASSUME NEW b \in Builder, Built!Publish(b) PROVE BuildTypes'
  <2>1. ~Built!Step(b, "idle")
    BY <1>16 DEF Built!Publish, Built!Step
  <2>2. \E next \in {"idle", "forget"} : Built!Leave(b, next)
    BY <1>16 DEF Built!Publish
  <2>3. cached' \in [Label -> Payload]
    <3>1. [number |-> build[b].number, of |-> build[b].archive] \in Payload
      BY DEF BuildTypes, BuildRecord, Payload
    <3> QED
      BY <1>16, <3>1 DEF Built!Publish, BuildTypes
  <2> QED
    BY <1>1, <1>4, <1>16, <2>1, <2>2, <2>3 DEF Built!Publish, BuildTypes
<1>17. ASSUME NEW b \in Builder, Built!ReadRecords(b) PROVE BuildTypes'
  <2>1. ~Built!Step(b, "idle") /\ build[b] \in BuildRecord
    BY <1>17 DEF Built!ReadRecords, Built!Step, BuildTypes
  <2>2. CASE build' = [build EXCEPT ![b].step = "drop", ![b].copy = named]
    <3> DEFINE r == [build[b] EXCEPT !.step = "drop", !.copy = named]
    <3>1. r \in BuildRecord /\ r.label = build[b].label
      BY <2>1 DEF BuildRecord, BuildSteps, BuildTypes
    <3>2. build' = [build EXCEPT ![b] = r]
      BY <2>2
    <3> HIDE DEF r
    <3>3. Known(build')
      BY <1>0, <2>1, <3>1, <3>2 DEF Built!Step
    <3> QED
      BY <1>1, <1>17, <3>3 DEF Built!ReadRecords, BuildTypes
  <2>3. CASE build' = [build EXCEPT ![b] = Built!NoBuild]
    BY <1>1, <1>3, <1>17, <2>3 DEF Built!ReadRecords, BuildTypes
  <2> QED
    BY <1>17, <2>2, <2>3 DEF Built!ReadRecords
<1>24. ASSUME NEW b \in Builder, Built!ForgetInternal(b) PROVE BuildTypes'
  <2>1. named' \in SUBSET Label
    BY <1>24 DEF Built!ForgetInternal, BuildTypes, BuildRecord
  <2> QED
    BY <1>1, <1>3, <1>24, <2>1 DEF Built!ForgetInternal, BuildTypes
<1>18. ASSUME NEW b \in Builder, Built!KillBuilder(b) PROVE BuildTypes'
  <2>1. buildLock' \in [Label -> Builder \cup {Unlocked}]
    BY <1>18 DEF Built!KillBuilder, BuildTypes
  <2>2. compiler' \in [Label -> SUBSET Nat]
    BY <1>18 DEF Built!KillBuilder, BuildTypes, BuildRecord
  <2> QED
    BY <1>1, <1>3, <1>18, <2>1, <2>2 DEF Built!KillBuilder, BuildTypes
<1>19. CASE Built!CompilerGoesOn
  <2>1. buildRoot' \in [Label -> SUBSET Nat] /\ compiler' \in [Label -> SUBSET Nat]
    BY <1>19 DEF Built!CompilerGoesOn, BuildTypes
  <2> QED
    BY <1>0, <1>1, <1>19, <2>1 DEF Built!CompilerGoesOn, BuildTypes
<1>20. CASE Internals
  <2>1. PICK l \in Label :
          \/ Built!TakePayload(l) \/ Built!PutInternal(l) \/ Built!CopyRecords(l)
          \/ Built!RecordInternal(l) \/ Built!FailInstall(l)
    BY <1>20 DEF Internals
  <2>2. installing[l] \in InstallRecord /\ cached[l] \in Payload /\ named \in SUBSET Label
    BY DEF BuildTypes
  <2>3. \E i \in InstallRecord : installing' = [installing EXCEPT ![l] = i]
    <3>1. CASE Built!TakePayload(l)
      <4>1. [installing[l] EXCEPT !.step = "put", !.payload = cached[l]] \in InstallRecord
        BY <2>2 DEF InstallRecord
      <4> QED
        BY <3>1, <4>1 DEF Built!TakePayload
    <3>2. CASE Built!PutInternal(l)
      <4>1. [installing[l] EXCEPT !.step = "read"] \in InstallRecord
        BY <2>2 DEF InstallRecord
      <4> QED
        BY <3>2, <4>1 DEF Built!PutInternal
    <3>3. CASE Built!CopyRecords(l)
      <4>1. [installing[l] EXCEPT !.step = "record", !.copy = named] \in InstallRecord
        BY <2>2 DEF InstallRecord
      <4> QED
        BY <3>3, <4>1 DEF Built!CopyRecords
    <3>4. CASE Built!RecordInternal(l) \/ Built!FailInstall(l)
      BY <3>4, BuildRecords DEF Built!RecordInternal, Built!FailInstall
    <3> QED
      BY <2>1, <3>1, <3>2, <3>3, <3>4
  <2>4. installing' \in [Label -> InstallRecord]
    BY <2>3 DEF BuildTypes
  <2>5. internal' \in [Label -> Payload] /\ named' \in SUBSET Label
    <3>1. installing[l].payload \in Payload /\ installing[l].copy \in SUBSET Label
      BY <2>2 DEF InstallRecord
    <3> QED
      BY <2>1, <3>1 DEF BuildTypes, Built!TakePayload, Built!PutInternal, Built!CopyRecords,
         Built!RecordInternal, Built!FailInstall
  <2> QED
    BY <1>0, <1>1, <1>20, <2>4, <2>5, InternalsFrame DEF BuildTypes
<1>22. CASE UNCHANGED builtVars
  BY <1>0, <1>1, <1>22 DEF builtVars, BuildTypes
<1>23. \A b \in Builder : Built!FetchSources(b) \/ Built!Compile(b) \/ Built!InstallStage(b) =>
         \E from \in Filling, next \in Filling : Built!Work(b, from, next)
  BY DEF Built!FetchSources, Built!Compile, Built!InstallStage, Filling, Numbered, Decided
<1> QED
  BY <1>10, <1>11, <1>12, <1>13, <1>14, <1>15, <1>16, <1>17, <1>18, <1>19, <1>20, <1>22, <1>23, <1>24
     DEF Built!BuildNext, Internals

\* Steps with the lock.
Inside == Decided \cup {"recheck"}

\* What each step of a command does to its record, and to the lock and the numbers.
LEMMA BuilderMoves ==
  ASSUME BuildTypes, NEW b \in Builder,
         \/ Built!BeginBuild(b) \/ Built!LookCached(b) \/ Built!AcquireBuildLock(b) \/ Built!ResetRoot(b)
         \/ Built!FetchSources(b) \/ Built!Compile(b) \/ Built!InstallStage(b) \/ Built!PackageAndVerify(b)
         \/ Built!Publish(b) \/ Built!ReadRecords(b) \/ Built!ForgetInternal(b) \/ Built!KillBuilder(b)
  PROVE  /\ \A c \in Builder : c # b => build'[c] = build[c]
         /\ build'[b].step \in Inside =>
              /\ build'[b].label = build[b].label /\ build'[b].force = build[b].force
              /\ \/ build[b].step \in Inside /\ UNCHANGED buildLock
                 \/ /\ build[b].step = "acquire" /\ build'[b].step = "recheck"
                    /\ buildLock[build[b].label] = Unlocked
                    /\ buildLock' = [buildLock EXCEPT ![build[b].label] = b]
         /\ build'[b].step \notin Inside =>
              \/ UNCHANGED buildLock
              \/ /\ build[b].step \in Inside \/ buildLock[build[b].label] = b
                 /\ buildLock' = [buildLock EXCEPT ![build[b].label] = Unlocked]
         /\ build'[b].step \in Numbered =>
              \/ build[b].step \in Numbered /\ build'[b].number = build[b].number
              \/ build'[b].step = "fetch" /\ build'[b].number = begun + 1 /\ begun' = begun + 1
         /\ begun' \in {begun, begun + 1}
         /\ build'[b].step \in Decided \ {"reset"} => build[b].step \in Decided /\ build'[b].replaced = build[b].replaced
<1> USE DEF Built!Here, Built!InternalSide, Built!Bounds
<1> build \in [Builder -> BuildRecord]
  BY DEF BuildTypes
<1>1. CASE Built!BeginBuild(b)
  <2>1. build'[b].step = "look" /\ \A c \in Builder : c # b => build'[c] = build[c]
    <3>1. PICK l \in Label, f \in BOOLEAN :
            build' = [build EXCEPT ![b] =
                        [Built!NoBuild EXCEPT !.step = "look", !.label = l, !.force = f]]
      BY <1>1 DEF Built!BeginBuild
    <3> DEFINE r == [Built!NoBuild EXCEPT !.step = "look", !.label = l, !.force = f]
    <3>2. r.step = "look"
      BY DEF Built!NoBuild
    <3> HIDE DEF r
    <3> QED
      BY <3>1, <3>2 DEF r
  <2> QED
    BY <1>1, <2>1 DEF Built!BeginBuild, Inside, Numbered, Decided
<1>2. ASSUME build' = [build EXCEPT ![b] = Built!NoBuild], begun' = begun,
             \/ UNCHANGED buildLock
             \/ /\ build[b].step \in Inside \/ buildLock[build[b].label] = b
                /\ buildLock' = [buildLock EXCEPT ![build[b].label] = Unlocked]
      PROVE  /\ \A c \in Builder : c # b => build'[c] = build[c]
             /\ build'[b].step = "idle"
             /\ begun' \in {begun, begun + 1}
             /\ \/ UNCHANGED buildLock
                \/ /\ build[b].step \in Inside \/ buildLock[build[b].label] = b
                   /\ buildLock' = [buildLock EXCEPT ![build[b].label] = Unlocked]
  BY <1>2, BuildEnds
<1>3. "idle" \notin Inside /\ "idle" \notin Numbered /\ "idle" \notin Decided
  BY DEF Inside, Numbered, Decided
<1>4. ASSUME NEW label \in BuildSteps, Built!Goes(b, label), ~Built!Step(b, "idle")
      PROVE  /\ \A c \in Builder : c # b => build'[c] = build[c]
             /\ build'[b] = [build[b] EXCEPT !.step = label]
             /\ build'[b].step = label /\ build'[b].label = build[b].label /\ build'[b].force = build[b].force
             /\ build'[b].number = build[b].number /\ build'[b].replaced = build[b].replaced
  BY <1>4, BuildMoves DEF BuildRecord
<1>5. CASE Built!LookCached(b)
  <2>1. ~Built!Step(b, "idle")
    BY <1>5 DEF Built!LookCached, Built!Step
  <2>2. CASE build' = [build EXCEPT ![b] = Built!NoBuild]
    <3>1. Built!Step(b, "recheck") => build[b].step \in Inside
      BY DEF Built!Step, Inside
    <3> QED
      BY <1>2, <1>3, <1>5, <2>2, <3>1 DEF Built!LookCached
  <2>3. CASE Built!Goes(b, "acquire") /\ UNCHANGED buildLock
    BY <1>4, <1>5, <2>1, <2>3 DEF Built!LookCached, Inside, Numbered, Decided, BuildSteps
  <2>4. CASE build' = [build EXCEPT ![b].step = "reset", ![b].replaced = cached[build[b].label] # Built!NoPayload]
             /\ UNCHANGED buildLock /\ Built!Step(b, "recheck")
    <3>1. /\ build'[b].step = "reset" /\ build'[b].label = build[b].label /\ build'[b].force = build[b].force
          /\ \A c \in Builder : c # b => build'[c] = build[c]
      BY <2>4 DEF BuildRecord
    <3> QED
      BY <1>5, <2>4, <3>1 DEF Built!LookCached, Inside, Numbered, Decided, Built!Step
  <2> QED
    BY <1>5, <2>2, <2>3, <2>4 DEF Built!LookCached, Built!Step
<1>6. CASE Built!AcquireBuildLock(b)
  <2>1. ~Built!Step(b, "idle") /\ "recheck" \in BuildSteps /\ build[b].step = "acquire"
    BY <1>6 DEF Built!AcquireBuildLock, Built!Step, BuildSteps
  <2>2. CASE build' = [build EXCEPT ![b] = Built!NoBuild] /\ UNCHANGED buildLock
    BY <1>2, <1>3, <1>6, <2>2 DEF Built!AcquireBuildLock
  <2>3. CASE Built!Goes(b, "recheck") /\ buildLock[build[b].label] = Unlocked
             /\ buildLock' = [buildLock EXCEPT ![build[b].label] = b]
    BY <1>4, <1>6, <2>1, <2>3 DEF Built!AcquireBuildLock, Inside, Numbered, Decided
  <2> QED
    BY <1>6, <2>2, <2>3 DEF Built!AcquireBuildLock
<1>7. CASE Built!ResetRoot(b)
  <2>1. build[b].step = "reset" /\ build[b].step \in Inside
    BY <1>7 DEF Built!ResetRoot, Built!Step, Inside, Decided
  <2>2. CASE build' = [build EXCEPT ![b] = Built!NoBuild]
             /\ buildLock' = [buildLock EXCEPT ![build[b].label] = Unlocked] /\ begun' = begun
    BY <1>2, <1>3, <2>1, <2>2
  <2>3. CASE build' = [build EXCEPT ![b].step = "fetch", ![b].number = begun + 1] /\ begun' = begun + 1
             /\ UNCHANGED buildLock
    <3>1. /\ build'[b].step = "fetch" /\ build'[b].label = build[b].label /\ build'[b].force = build[b].force
          /\ build'[b].number = begun + 1 /\ build'[b].replaced = build[b].replaced
          /\ \A c \in Builder : c # b => build'[c] = build[c]
      BY <2>3 DEF BuildRecord
    <3> QED
      BY <2>1, <2>3, <3>1 DEF Inside, Numbered, Decided
  <2> QED
    BY <1>7, <2>2, <2>3 DEF Built!ResetRoot
<1>8. ASSUME build[b].step \in Decided, begun' = begun,
             NEW next \in {"idle", "forget"}, Built!Leave(b, next)
      PROVE  /\ \A c \in Builder : c # b => build'[c] = build[c]
             /\ build'[b].step \in {"idle", "forget"}
             /\ begun' \in {begun, begun + 1}
             /\ buildLock' = [buildLock EXCEPT ![build[b].label] = Unlocked] /\ build[b].step \in Inside
  <2>1. ~Built!Step(b, "idle") /\ build[b].step \in Inside /\ "forget" \in BuildSteps
    BY <1>8 DEF Decided, Built!Step, Inside, BuildSteps
  <2>2. CASE next = "idle"
    BY <1>2, <1>8, <2>1, <2>2 DEF Built!Leave
  <2>3. CASE next = "forget"
    <3>1. Built!Goes(b, "forget") /\ buildLock' = [buildLock EXCEPT ![build[b].label] = Unlocked]
      BY <1>8, <2>3 DEF Built!Leave
    <3> QED
      BY <1>4, <1>8, <2>1, <3>1
  <2> QED
    BY <2>2, <2>3
<1>9. ASSUME NEW from \in Filling, NEW next \in Filling, Built!Work(b, from, next)
      PROVE  \/ /\ Built!Goes(b, next) /\ UNCHANGED buildLock /\ begun' = begun /\ build[b].step \in Numbered
                /\ next \in Numbered
             \/ Built!Leave(b, "idle") /\ begun' = begun /\ build[b].step \in Decided
  BY <1>9 DEF Built!Work, Built!Step, Filling, Numbered
<1>10. CASE Built!FetchSources(b) \/ Built!Compile(b) \/ Built!InstallStage(b)
  <2>1. PICK from \in Filling, next \in Filling : Built!Work(b, from, next)
    BY <1>10 DEF Built!FetchSources, Built!Compile, Built!InstallStage, Filling, Numbered, Decided
  <2>2. CASE Built!Goes(b, next) /\ UNCHANGED buildLock /\ begun' = begun /\ build[b].step \in Numbered
             /\ next \in Numbered
    <3>1. ~Built!Step(b, "idle") /\ next \in BuildSteps
      BY <2>2 DEF Built!Step, Numbered, Decided, BuildSteps
    <3> QED
      BY <1>4, <2>2, <3>1 DEF Inside, Numbered
  <2>3. CASE Built!Leave(b, "idle") /\ begun' = begun /\ build[b].step \in Decided
    BY <1>8, <2>3 DEF Inside, Numbered, Decided
  <2> QED
    BY <1>9, <2>1, <2>2, <2>3
<1>11. CASE Built!PackageAndVerify(b)
  <2>1. build[b].step = "package" /\ begun' = begun
    BY <1>11 DEF Built!PackageAndVerify, Built!Step
  <2>2. CASE build' = [build EXCEPT ![b].step = "publish", ![b].archive = buildRoot[build[b].label]]
             /\ UNCHANGED buildLock
    <3>1. /\ build'[b].step = "publish" /\ build'[b].label = build[b].label /\ build'[b].force = build[b].force
          /\ build'[b].number = build[b].number /\ build'[b].replaced = build[b].replaced
          /\ \A c \in Builder : c # b => build'[c] = build[c]
      BY <2>2 DEF BuildRecord
    <3> QED
      BY <2>1, <2>2, <3>1 DEF Inside, Numbered, Decided
  <2>3. CASE Built!Leave(b, "idle")
    BY <1>8, <2>1, <2>3 DEF Inside, Numbered, Decided
  <2> QED
    BY <1>11, <2>2, <2>3 DEF Built!PackageAndVerify
<1>12. CASE Built!Publish(b)
  <2>1. build[b].step \in Decided /\ begun' = begun /\ \E next \in {"idle", "forget"} : Built!Leave(b, next)
    BY <1>12 DEF Built!Publish, Built!Step, Decided
  <2> QED
    BY <1>8, <2>1 DEF Inside, Numbered, Decided
<1>13. CASE Built!ForgetInternal(b)
  BY <1>2, <1>3, <1>13 DEF Built!ForgetInternal
<1>15. CASE Built!ReadRecords(b)
  <2>1. CASE build' = [build EXCEPT ![b] = Built!NoBuild]
    BY <1>2, <1>3, <1>15, <2>1 DEF Built!ReadRecords
  <2>2. CASE build' = [build EXCEPT ![b].step = "drop", ![b].copy = named]
    <3>1. build'[b].step = "drop" /\ \A c \in Builder : c # b => build'[c] = build[c]
      BY <2>2 DEF BuildRecord
    <3> QED
      BY <1>15, <3>1 DEF Built!ReadRecords, Inside, Numbered, Decided
  <2> QED
    BY <1>15, <2>1, <2>2 DEF Built!ReadRecords
<1>14. CASE Built!KillBuilder(b)
  <2>1. \/ UNCHANGED buildLock
        \/ buildLock[build[b].label] = b /\ buildLock' = [buildLock EXCEPT ![build[b].label] = Unlocked]
    BY <1>14 DEF Built!KillBuilder
  <2> QED
    BY <1>2, <1>3, <1>14, <2>1 DEF Built!KillBuilder
<1> QED
  BY <1>1, <1>5, <1>6, <1>7, <1>10, <1>11, <1>12, <1>13, <1>14, <1>15

LEMMA BuildLocksStep == BuildInv /\ [Built!BuildNext]_builtVars => BuildLocks'
<1> SUFFICES ASSUME BuildInv, [Built!BuildNext]_builtVars PROVE BuildLocks'
  OBVIOUS
<1> BuildTypes /\ BuildLocks /\ begun \in Nat
  BY DEF BuildInv, BuildTypes
<1> DEFINE Mine(c) == build[c].step \in Inside => buildLock[build[c].label] = c
           Counted(c) == build[c].step \in Numbered => build[c].number \in 1 .. begun
<1>0. (\A c \in Builder : Mine(c) /\ Counted(c)) /\ \A c \in Builder : build[c].step \in Inside => build[c].label \in Label
  BY DEF BuildLocks, Inside, BuildTypes, Built!Step, Decided
<1>1. ASSUME NEW b \in Builder,
             \/ Built!BeginBuild(b) \/ Built!LookCached(b) \/ Built!AcquireBuildLock(b) \/ Built!ResetRoot(b)
             \/ Built!FetchSources(b) \/ Built!Compile(b) \/ Built!InstallStage(b) \/ Built!PackageAndVerify(b)
             \/ Built!Publish(b) \/ Built!ReadRecords(b) \/ Built!ForgetInternal(b) \/ Built!KillBuilder(b)
      PROVE  BuildLocks'
  <2>1. ASSUME NEW c \in Builder PROVE (Mine(c) /\ Counted(c))'
    <3>1. CASE c # b
      <4>1. build'[c] = build[c] /\ begun' >= begun
        BY <1>1, <3>1, BuilderMoves
      <4>2. build[c].step \in Inside =>
              UNCHANGED buildLock \/ build[c].label # build[b].label \/ buildLock'[build[c].label] = c
        <5>1. \A d \in Builder : build[d].step \in Inside => buildLock[build[d].label] = d /\ buildLock[build[d].label] # Unlocked
          BY <1>0, PartsAssumption DEF Built!BuildAssumption
        <5>2. \/ UNCHANGED buildLock
              \/ /\ build[b].step \in Inside \/ buildLock[build[b].label] \in {b, Unlocked}
                 /\ \E v \in {b, Unlocked} : buildLock' = [buildLock EXCEPT ![build[b].label] = v]
          BY <1>1, BuilderMoves
        <5> QED
          BY <3>1, <5>1, <5>2
      <4>3. build[c].step \in Inside => buildLock'[build[c].label] = buildLock[build[c].label]
        <5>1. \/ UNCHANGED buildLock
              \/ \E v \in {b, Unlocked} : buildLock' = [buildLock EXCEPT ![build[b].label] = v]
          BY <1>1, BuilderMoves
        <5> QED
          BY <1>0, <4>2, <5>1 DEF BuildTypes
      <4>4. Mine(c)'
        BY <1>0, <4>1, <4>3
      <4>5. Counted(c)'
        <5>1. Counted(c) /\ begun' \in Nat
          BY <1>0, <1>1, BuilderMoves
        <5> QED
          BY <4>1, <5>1
      <4> QED
        BY <4>4, <4>5
    <3>2. CASE c = b
      <4>1. Mine(b)'
        <5>1. build'[b].step \in Inside => build'[b].label = build[b].label /\ build[b].label \in Label
          <6>1. build[b].step \in Inside \cup {"acquire"} => build[b].label \in Label
            BY DEF BuildTypes, Built!Step, Inside, Decided
          <6> QED
            BY <1>1, <6>1, BuilderMoves
        <5>2. build'[b].step \in Inside =>
                 \/ build[b].step \in Inside /\ UNCHANGED buildLock
                 \/ buildLock' = [buildLock EXCEPT ![build[b].label] = b]
          BY <1>1, BuilderMoves
        <5> QED
          BY <1>0, <5>1, <5>2 DEF BuildTypes
      <4>2. Counted(b)'
        <5>1. build'[b].step \in Numbered =>
              \/ build[b].step \in Numbered /\ build'[b].number = build[b].number
              \/ build'[b].number = begun + 1 /\ begun' = begun + 1
          BY <1>1, BuilderMoves
        <5>2. begun' \in {begun, begun + 1}
          BY <1>1, BuilderMoves
        <5> QED
          BY <1>0, <5>1, <5>2
      <4> QED
        BY <3>2, <4>1, <4>2
    <3> QED
      BY <3>1, <3>2
  <2> begun' \in {begun, begun + 1}
    BY <1>1, BuilderMoves
  <2>2. (\A n \in left : n \in 1 .. begun)'
    <3>1. left' = left \/ (begun' = begun + 1 /\ left' = left \cup {begun + 1})
      BY <1>1 DEF Built!BeginBuild, Built!LookCached, Built!AcquireBuildLock, Built!ResetRoot,
       Built!FetchSources, Built!Compile, Built!InstallStage, Built!PackageAndVerify, Built!Publish,
       Built!ReadRecords, Built!ForgetInternal, Built!KillBuilder, Built!Work, Built!Bounds
    <3> QED
      BY <3>1 DEF BuildLocks
  <2>3. (\A l \in Label : cached[l].number <= begun)'
    <3>1. CASE UNCHANGED cached
      BY <3>1 DEF BuildLocks, BuildTypes, Payload
    <3>2. CASE Built!Publish(b) /\ cached' = [cached EXCEPT ![build[b].label] =
                 [number |-> build[b].number, of |-> build[b].archive]]
      <4>1. build[b].number \in 1 .. begun
        BY <1>0, <3>2 DEF Built!Publish, Built!Step, Numbered, Decided
      <4>2. begun' = begun
        BY <3>2 DEF Built!Publish, Built!Bounds
      <4> QED
        BY <3>2, <4>1, <4>2 DEF BuildLocks, BuildTypes
    <3> QED
      BY <1>1, <3>1, <3>2 DEF Built!BeginBuild, Built!LookCached, Built!AcquireBuildLock, Built!ResetRoot,
       Built!FetchSources, Built!Compile, Built!InstallStage, Built!PackageAndVerify, Built!Publish,
       Built!ReadRecords, Built!ForgetInternal, Built!KillBuilder, Built!Work, Built!Here
  <2> QED
    BY <2>1, <2>2, <2>3 DEF BuildLocks, Inside
<1>2. CASE UNCHANGED <<build, buildLock, begun, left, cached>>
  BY <1>2 DEF BuildLocks
<1>3. Built!CompilerGoesOn \/ Internals \/ UNCHANGED builtVars
      => UNCHANGED <<build, buildLock, begun, left, cached>>
  BY InternalsFrame DEF Built!CompilerGoesOn, builtVars, Built!InternalSide, Built!Bounds
<1> QED
  BY <1>1, <1>2, <1>3 DEF Built!BuildNext, Internals

\* Two commands are not inside one label.
LEMMA OneInside ==
  ASSUME BuildInv, NEW b \in Builder, NEW c \in Builder, b # c,
         build[b].step \in Inside, build[c].step \in Inside
  PROVE  build[b].label # build[c].label
BY DEF BuildInv, BuildLocks, Inside

\* What a step of a command leaves alone: other labels, and its own when it has no lock.
LEMMA BuilderFrame ==
  ASSUME BuildInv, NEW b \in Builder,
         \/ Built!BeginBuild(b) \/ Built!LookCached(b) \/ Built!AcquireBuildLock(b) \/ Built!ResetRoot(b)
         \/ Built!FetchSources(b) \/ Built!Compile(b) \/ Built!InstallStage(b) \/ Built!PackageAndVerify(b)
         \/ Built!Publish(b) \/ Built!ReadRecords(b) \/ Built!ForgetInternal(b) \/ Built!KillBuilder(b)
  PROVE  /\ \A l \in Label : l # build[b].label \/ build[b].step \notin Inside =>
              buildRoot'[l] = buildRoot[l] /\ compiler'[l] = compiler[l] /\ cached'[l] = cached[l]
         /\ left' = left \/ (begun' = begun + 1 /\ left' = left \cup {begun + 1})
         /\ UNCHANGED installing
<1> USE DEF Built!Here, Built!InternalSide, Built!Bounds
<1> BuildTypes
  BY DEF BuildInv
<1>1. left' = left \/ (begun' = begun + 1 /\ left' = left \cup {begun + 1})
  BY DEF Built!BeginBuild, Built!LookCached, Built!AcquireBuildLock, Built!ResetRoot,
       Built!FetchSources, Built!Compile, Built!InstallStage, Built!PackageAndVerify, Built!Publish,
       Built!ReadRecords, Built!ForgetInternal, Built!KillBuilder, Built!Work
<1>2. \/ UNCHANGED buildRoot
      \/ build[b].step \in Inside /\ \E s : buildRoot' = [buildRoot EXCEPT ![build[b].label] = s]
  BY DEF Built!BeginBuild, Built!LookCached, Built!AcquireBuildLock, Built!ResetRoot,
       Built!FetchSources, Built!Compile, Built!InstallStage, Built!PackageAndVerify, Built!Publish,
       Built!ReadRecords, Built!ForgetInternal, Built!KillBuilder, Built!Work, Built!Leave, Built!Step, Inside, Decided
<1>3. \/ UNCHANGED compiler
      \/ build[b].step \in Inside /\ \E s : compiler' = [compiler EXCEPT ![build[b].label] = s]
  BY DEF Built!BeginBuild, Built!LookCached, Built!AcquireBuildLock, Built!ResetRoot,
       Built!FetchSources, Built!Compile, Built!InstallStage, Built!PackageAndVerify, Built!Publish,
       Built!ReadRecords, Built!ForgetInternal, Built!KillBuilder, Built!Work, Built!Leave, Built!Step, Inside, Decided
<1>4. \/ UNCHANGED cached
      \/ build[b].step \in Inside /\ \E s : cached' = [cached EXCEPT ![build[b].label] = s]
  BY DEF Built!BeginBuild, Built!LookCached, Built!AcquireBuildLock, Built!ResetRoot,
       Built!FetchSources, Built!Compile, Built!InstallStage, Built!PackageAndVerify, Built!Publish,
       Built!ReadRecords, Built!ForgetInternal, Built!KillBuilder, Built!Work, Built!Leave, Built!Step, Inside, Decided
<1>5. UNCHANGED installing
  BY DEF Built!BeginBuild, Built!LookCached, Built!AcquireBuildLock, Built!ResetRoot,
       Built!FetchSources, Built!Compile, Built!InstallStage, Built!PackageAndVerify, Built!Publish,
       Built!ReadRecords, Built!ForgetInternal, Built!KillBuilder, Built!Work
<1> QED
  BY <1>1, <1>2, <1>3, <1>4, <1>5 DEF BuildTypes

LEMMA BuildFilesStep == BuildInv /\ [Built!BuildNext]_builtVars => BuildFiles'
<1> SUFFICES ASSUME BuildInv, [Built!BuildNext]_builtVars PROVE BuildFiles'
  OBVIOUS
<1> USE DEF Built!Here, Built!InternalSide, Built!Bounds
<1> BuildTypes /\ BuildLocks /\ BuildFiles /\ begun \in Nat
  BY DEF BuildInv, BuildTypes
<1> DEFINE Clean(c) == build[c].step \in Filling /\ build[c].number \notin left =>
              compiler[build[c].label] = {} /\ buildRoot[build[c].label] \subseteq {build[c].number}
           Packed(c) == Built!Step(c, "publish") /\ build[c].number \notin left =>
              build[c].archive \subseteq {build[c].number}
<1>0. \A c \in Builder : /\ Clean(c) /\ Packed(c)
                         /\ build[c].step \in Inside => build[c].label \in Label
                         /\ build[c].step \in Numbered => build[c].number <= begun /\ build[c].number \in Nat
                         /\ Built!Step(c, "publish") => build[c].step \in Inside /\ build[c].step \in Numbered
  <2>1. ASSUME NEW c \in Builder PROVE Clean(c) /\ Packed(c)
    BY <2>1 DEF BuildFiles
  <2>2. ASSUME NEW c \in Builder, build[c].step \in Numbered
        PROVE  build[c].number <= begun /\ build[c].number \in Nat
    BY <2>2 DEF BuildLocks
  <2>3. ASSUME NEW c \in Builder
        PROVE  /\ build[c].step \in Inside => build[c].label \in Label
               /\ Built!Step(c, "publish") => build[c].step \in Inside /\ build[c].step \in Numbered
    BY <2>3 DEF Inside, Decided, BuildTypes, Built!Step, Numbered
  <2> HIDE DEF Clean, Packed
  <2> QED
    BY <2>1, <2>2, <2>3
<1>1. ASSUME NEW b \in Builder,
             \/ Built!BeginBuild(b) \/ Built!LookCached(b) \/ Built!AcquireBuildLock(b) \/ Built!ResetRoot(b)
             \/ Built!FetchSources(b) \/ Built!Compile(b) \/ Built!InstallStage(b) \/ Built!PackageAndVerify(b)
             \/ Built!Publish(b) \/ Built!ReadRecords(b) \/ Built!ForgetInternal(b) \/ Built!KillBuilder(b)
      PROVE  BuildFiles'
  <2>1. left \subseteq left' /\ left' \subseteq left \cup {begun + 1}
    BY <1>1, BuilderFrame
  <2>2. ASSUME NEW c \in Builder, c # b PROVE (Clean(c) /\ Packed(c))'
    <3>1. build'[c] = build[c]
      BY <1>1, <2>2, BuilderMoves
    <3>2. build[c].step \in Filling => buildRoot'[build[c].label] = buildRoot[build[c].label]
                                       /\ compiler'[build[c].label] = compiler[build[c].label]
      <4>1. build[c].step \in Filling => build[c].step \in Inside
        BY DEF Filling, Numbered, Inside
      <4> QED
        BY <1>0, <1>1, <2>2, <4>1, BuilderFrame, OneInside
    <3> QED
      BY <1>0, <2>1, <3>1, <3>2 DEF Built!Step
  <2>3. (Clean(b) /\ Packed(b))'
    <3>1. CASE Built!ResetRoot(b) /\ build'[b].step \in Filling
      <4>1. build[b].label \in Label /\ build' = [build EXCEPT ![b].step = "fetch", ![b].number = begun + 1]
        /\ buildRoot' = [buildRoot EXCEPT ![build[b].label] = {}] /\ UNCHANGED compiler
        /\ left' = IF compiler[build[b].label] = {} THEN left ELSE left \cup {begun + 1}
        <5>1. build'[b].step # "idle"
          BY <3>1 DEF Filling, Numbered, Decided
        <5>2. build[b].label \in Label
          BY <1>0, <3>1 DEF Built!ResetRoot, Built!Step, Inside, Decided
        <5>3. build' # [build EXCEPT ![b] = Built!NoBuild]
          BY <5>1, BuildEnds
        <5> QED
          BY <3>1, <5>2, <5>3 DEF Built!ResetRoot
      <4>2. build'[b].number = begun + 1 /\ build'[b].label = build[b].label /\ build'[b].step = "fetch"
        BY <4>1 DEF BuildTypes, BuildRecord
      <4> QED
        BY <4>1, <4>2 DEF BuildTypes, Built!Step
    <3>2. CASE Built!FetchSources(b) \/ Built!Compile(b) \/ Built!InstallStage(b)
      <4>1. PICK from \in Filling, next \in Filling : Built!Work(b, from, next)
        BY <3>2 DEF Built!FetchSources, Built!Compile, Built!InstallStage, Filling, Numbered, Decided
      <4>2. CASE Built!Goes(b, next) /\ buildRoot' = [buildRoot EXCEPT ![build[b].label] = @ \cup {build[b].number}]
        <5>1. build[b].step \in Filling /\ next \in BuildSteps /\ ~Built!Step(b, "idle") /\ build[b].label \in Label
          BY <1>0, <4>1 DEF Built!Work, Built!Step, Filling, Numbered, Decided, BuildSteps, Inside
        <5>2. /\ build'[b].step = next /\ build'[b].label = build[b].label /\ build'[b].number = build[b].number
              /\ next # "publish"
          <6>1. build'[b] = [build[b] EXCEPT !.step = next]
            BY <4>2, <5>1, BuildMoves
          <6>2. build[b] \in BuildRecord
            BY DEF BuildTypes
          <6> QED
            BY <6>1, <6>2 DEF BuildRecord, Filling
        <5>3. UNCHANGED <<compiler, left>>
          BY <4>1 DEF Built!Work
        <5> QED
          BY <1>0, <4>2, <5>1, <5>2, <5>3 DEF BuildTypes, Built!Step
      <4>3. CASE Built!Leave(b, "idle")
        <5>1. build'[b].step = "idle"
          BY <4>3, BuildEnds DEF Built!Leave
        <5> QED
          BY <5>1 DEF Filling, Numbered, Decided, Built!Step
      <4> QED
        BY <4>1, <4>2, <4>3 DEF Built!Work
    <3>3. CASE Built!PackageAndVerify(b)
      <4>1. CASE build' = [build EXCEPT ![b].step = "publish", ![b].archive = buildRoot[build[b].label]]
        <5>1. build[b].step \in Filling
          BY <3>3 DEF Built!PackageAndVerify, Built!Step, Filling, Numbered, Decided
        <5>2. /\ build'[b].step = "publish" /\ build'[b].number = build[b].number
              /\ build'[b].archive = buildRoot[build[b].label]
          BY <4>1 DEF BuildTypes, BuildRecord
        <5>3. UNCHANGED left
          BY <3>3 DEF Built!PackageAndVerify
        <5> QED
          BY <1>0, <5>1, <5>2, <5>3 DEF Filling
      <4>2. CASE Built!Leave(b, "idle")
        <5>1. build'[b].step = "idle"
          BY <4>2, BuildEnds DEF Built!Leave
        <5> QED
          BY <5>1 DEF Filling, Numbered, Decided, Built!Step
      <4> QED
        BY <3>3, <4>1, <4>2 DEF Built!PackageAndVerify
    <3>4. CASE build'[b].step \notin Numbered
      BY <3>4 DEF Filling, Numbered, Decided, Built!Step
    <3>5. ASSUME build'[b].step \in Numbered
          PROVE  \/ Built!ResetRoot(b) /\ build'[b].step \in Filling
                 \/ Built!FetchSources(b) \/ Built!Compile(b) \/ Built!InstallStage(b)
                 \/ Built!PackageAndVerify(b)
      <4>1. ASSUME build' = [build EXCEPT ![b] = Built!NoBuild] PROVE FALSE
        BY <3>5, <4>1, BuildEnds DEF Numbered, Decided
      <4>2. ASSUME NEW label \in {"acquire", "recheck", "forget"}, Built!Goes(b, label) PROVE FALSE
        <5>1. build'[b].step = label
          BY <4>2 DEF Built!Goes, BuildTypes, BuildRecord
        <5> QED
          BY <3>5, <4>2, <5>1 DEF Numbered, Decided
      <4>3. ASSUME Built!BeginBuild(b) PROVE FALSE
        <5>1. build[b].step = "idle"
          BY <4>3 DEF Built!BeginBuild, Built!Step
        <5>2. build[b].step \in Decided
          BY <3>5, <4>3, BuilderMoves DEF Numbered
        <5> QED
          BY <5>1, <5>2 DEF Decided
      <4>4. ASSUME Built!LookCached(b) PROVE FALSE
        <5>1. build'[b].step \in Numbered => build[b].step \in Numbered \/ begun' = begun + 1
          BY <4>4, BuilderMoves
        <5> QED
          BY <3>5, <4>4, <5>1 DEF Built!LookCached, Built!Step, Numbered, Decided
      <4>5. ASSUME Built!Publish(b) PROVE FALSE
        BY <4>1, <4>2, <4>5 DEF Built!Publish, Built!Leave
      <4>7. ASSUME Built!ReadRecords(b) PROVE FALSE
        <5>1. build' = [build EXCEPT ![b].step = "drop", ![b].copy = named]
          BY <4>1, <4>7 DEF Built!ReadRecords
        <5>2. build'[b].step = "drop"
          BY <5>1 DEF BuildTypes, BuildRecord
        <5> QED
          BY <3>5, <5>2 DEF Numbered, Decided
      <4>6. ASSUME Built!ResetRoot(b) PROVE build'[b].step \in Filling
        <5>1. build' = [build EXCEPT ![b].step = "fetch", ![b].number = begun + 1]
          BY <4>1, <4>6 DEF Built!ResetRoot
        <5> QED
          BY <5>1 DEF BuildTypes, BuildRecord, Filling, Numbered, Decided
      <4> QED
        BY <1>1, <4>1, <4>2, <4>3, <4>4, <4>5, <4>6, <4>7 DEF Built!AcquireBuildLock, Built!ForgetInternal, Built!KillBuilder
    <3> QED
      BY <3>1, <3>2, <3>3, <3>4, <3>5
  <2>4. Built!PayloadOfOneBuild'
    <3>1. CASE UNCHANGED cached
      BY <2>1, <3>1 DEF BuildFiles, Built!PayloadOfOneBuild
    <3>2. CASE Built!Publish(b) /\ cached' = [cached EXCEPT ![build[b].label] =
                 [number |-> build[b].number, of |-> build[b].archive]]
      <4>1. build[b].number \notin left => build[b].archive \subseteq {build[b].number}
        BY <1>0, <3>2 DEF Built!Publish
      <4> QED
        BY <2>1, <3>2, <4>1 DEF BuildFiles, Built!PayloadOfOneBuild, BuildTypes
    <3> QED
      BY <1>1, <3>1, <3>2 DEF Built!BeginBuild, Built!LookCached, Built!AcquireBuildLock, Built!ResetRoot,
       Built!FetchSources, Built!Compile, Built!InstallStage, Built!PackageAndVerify, Built!Publish,
       Built!ReadRecords, Built!ForgetInternal, Built!KillBuilder, Built!Work
  <2> QED
    BY <2>2, <2>3, <2>4 DEF BuildFiles
<1>2. CASE Built!CompilerGoesOn
  <2>1. PICK l \in Label : \E n \in compiler[l] :
        \/ buildRoot' = [buildRoot EXCEPT ![l] = @ \cup {n}] /\ UNCHANGED compiler
        \/ compiler' = [compiler EXCEPT ![l] = @ \ {n}] /\ UNCHANGED buildRoot
    BY <1>2 DEF Built!CompilerGoesOn
  <2>2. UNCHANGED <<build, cached, left>> /\ compiler[l] # {}
    BY <1>2, <2>1 DEF Built!CompilerGoesOn
  <2>3. \A m \in Label : m # l => buildRoot'[m] = buildRoot[m] /\ compiler'[m] = compiler[m]
    BY <2>1 DEF BuildTypes
  <2>4. ASSUME NEW c \in Builder PROVE (Clean(c) /\ Packed(c))'
    <3>1. build[c].step \in Filling => build[c].label \in Label
      BY <1>0 DEF Filling, Numbered, Inside
    <3> QED
      BY <1>0, <2>2, <2>3, <3>1 DEF Built!Step
  <2> QED
    BY <2>2, <2>4 DEF BuildFiles, Built!PayloadOfOneBuild
<1>3. CASE UNCHANGED <<build, buildRoot, compiler, left, cached>>
  BY <1>3 DEF BuildFiles, Built!PayloadOfOneBuild, Built!Step
<1>4. Internals \/ UNCHANGED builtVars
      => UNCHANGED <<build, buildRoot, compiler, left, cached>>
  BY InternalsFrame DEF builtVars
<1> QED
  BY <1>1, <1>2, <1>3, <1>4 DEF Built!BuildNext, Internals

\* The reset is only reached from the look under the lock.
LEMMA BuilderLooks ==
  ASSUME BuildTypes, NEW b \in Builder, build'[b].step = "reset",
         \/ Built!BeginBuild(b) \/ Built!LookCached(b) \/ Built!AcquireBuildLock(b) \/ Built!ResetRoot(b)
         \/ Built!FetchSources(b) \/ Built!Compile(b) \/ Built!InstallStage(b) \/ Built!PackageAndVerify(b)
         \/ Built!Publish(b) \/ Built!ReadRecords(b) \/ Built!ForgetInternal(b) \/ Built!KillBuilder(b)
  PROVE  /\ Built!Step(b, "recheck") /\ ~Built!Existing(b) /\ UNCHANGED cached
         /\ build'[b].label = build[b].label /\ build'[b].force = build[b].force
         /\ build'[b].replaced = (cached[build[b].label] # Built!NoPayload)
<1> USE DEF Built!Here
<1>0. build \in [Builder -> BuildRecord]
  BY DEF BuildTypes
<1>1. ASSUME build' = [build EXCEPT ![b] = Built!NoBuild] PROVE FALSE
  BY <1>1, BuildEnds
<1>2. ASSUME NEW label \in BuildSteps, label # "reset", Built!Goes(b, label) PROVE FALSE
  <2>1. build'[b].step = label
    BY <1>0, <1>2 DEF Built!Goes, BuildRecord
  <2> QED
    BY <1>2, <2>1
<1>3. ASSUME NEW next \in {"idle", "forget"}, Built!Leave(b, next) PROVE FALSE
  BY <1>1, <1>2, <1>3 DEF Built!Leave, BuildSteps
<1>4. ASSUME Built!ResetRoot(b) PROVE FALSE
  <2>1. build' = [build EXCEPT ![b].step = "fetch", ![b].number = begun + 1]
    BY <1>1, <1>4 DEF Built!ResetRoot
  <2> QED
    BY <1>0, <2>1 DEF BuildRecord
<1>5. ASSUME Built!PackageAndVerify(b) PROVE FALSE
  <2>1. build' = [build EXCEPT ![b].step = "publish", ![b].archive = buildRoot[build[b].label]]
    BY <1>3, <1>5 DEF Built!PackageAndVerify
  <2> QED
    BY <1>0, <2>1 DEF BuildRecord
<1>6. ASSUME Built!FetchSources(b) \/ Built!Compile(b) \/ Built!InstallStage(b) PROVE FALSE
  BY <1>2, <1>3, <1>6 DEF Built!FetchSources, Built!Compile, Built!InstallStage, Built!Work, BuildSteps, Decided
<1>7. ASSUME Built!BeginBuild(b) PROVE FALSE
  <2>1. PICK l \in Label, f \in BOOLEAN :
          build' = [build EXCEPT ![b] =
                      [Built!NoBuild EXCEPT !.step = "look", !.label = l, !.force = f]]
    BY <1>7 DEF Built!BeginBuild
  <2> DEFINE r == [Built!NoBuild EXCEPT !.step = "look", !.label = l, !.force = f]
  <2>2. r.step = "look"
    BY DEF Built!NoBuild
  <2>3. build'[b] = r
    BY <1>0, <2>1
  <2> HIDE DEF r
  <2> QED
    BY <2>2, <2>3
<1>8. ASSUME Built!Publish(b) PROVE FALSE
  BY <1>3, <1>8 DEF Built!Publish
<1>11. ASSUME Built!ReadRecords(b) PROVE FALSE
  <2>1. build' = [build EXCEPT ![b].step = "drop", ![b].copy = named]
    BY <1>1, <1>11 DEF Built!ReadRecords
  <2> QED
    BY <1>0, <2>1 DEF BuildRecord
<1>9. Built!LookCached(b)
  BY <1>1, <1>2, <1>4, <1>5, <1>6, <1>7, <1>8, <1>11
     DEF Built!AcquireBuildLock, Built!ForgetInternal, Built!KillBuilder, BuildSteps
<1>10. /\ Built!Step(b, "recheck") /\ ~Built!Existing(b) /\ UNCHANGED cached
       /\ build' = [build EXCEPT ![b].step = "reset", ![b].replaced = cached[build[b].label] # Built!NoPayload]
  BY <1>1, <1>2, <1>9 DEF Built!LookCached, BuildSteps, Built!Step
<1> QED
  BY <1>0, <1>10 DEF BuildRecord

LEMMA BuildKnowsStep == BuildInv /\ [Built!BuildNext]_builtVars => BuildKnows'
<1> SUFFICES ASSUME BuildInv, [Built!BuildNext]_builtVars PROVE BuildKnows'
  OBVIOUS
<1> DEFINE Knows(c) == build[c].step \in Decided =>
              /\ ~build[c].force => cached[build[c].label] = Built!NoPayload
              /\ ~build[c].replaced => cached[build[c].label] = Built!NoPayload
<1>0. /\ BuildTypes /\ \A c \in Builder : Knows(c)
      /\ \A c \in Builder : build[c].step \in Inside => build[c].label \in Label
      /\ Decided \subseteq Inside
  BY DEF BuildInv, BuildKnows, BuildTypes, Inside, Decided, Built!Step
<1>1. ASSUME NEW b \in Builder,
             \/ Built!BeginBuild(b) \/ Built!LookCached(b) \/ Built!AcquireBuildLock(b) \/ Built!ResetRoot(b)
             \/ Built!FetchSources(b) \/ Built!Compile(b) \/ Built!InstallStage(b) \/ Built!PackageAndVerify(b)
             \/ Built!Publish(b) \/ Built!ReadRecords(b) \/ Built!ForgetInternal(b) \/ Built!KillBuilder(b)
      PROVE  BuildKnows'
  <2>1. ASSUME NEW c \in Builder, c # b PROVE Knows(c)'
    <3>1. build'[c] = build[c]
      BY <1>0, <1>1, <2>1, BuilderMoves
    <3>2. build[c].step \in Decided => cached'[build[c].label] = cached[build[c].label]
      BY <1>0, <1>1, <2>1, BuilderFrame, OneInside
    <3> QED
      BY <1>0, <3>1, <3>2
  <2>2. CASE build'[b].step = "reset"
    <3>1. Knows(b)'
      BY <1>0, <1>1, <2>2, BuilderLooks DEF Built!Existing, Built!Here
    <3> QED
      BY <2>1, <3>1 DEF BuildKnows
  <2>3. CASE build'[b].step \in Decided \ {"reset"}
    <3>1. /\ build[b].step \in Decided /\ build'[b].label = build[b].label
          /\ build'[b].replaced = build[b].replaced /\ build'[b].force = build[b].force
      BY <1>0, <1>1, <2>3, BuilderMoves
    <3>2. UNCHANGED cached
      <4>1. ASSUME Built!Publish(b) PROVE FALSE
        <5>1. CASE build' = [build EXCEPT ![b] = Built!NoBuild]
          BY <1>0, <2>3, <5>1, BuildEnds DEF Decided
        <5>2. CASE Built!Goes(b, "forget")
          <6>1. build'[b].step = "forget"
            BY <1>0, <5>2 DEF Built!Goes, BuildTypes, BuildRecord
          <6> QED
            BY <2>3, <6>1 DEF Decided
        <5> QED
          BY <4>1, <5>1, <5>2 DEF Built!Publish, Built!Leave
      <4> QED
        BY <1>1, <4>1 DEF Built!BeginBuild, Built!LookCached, Built!AcquireBuildLock, Built!ResetRoot,
           Built!FetchSources, Built!Compile, Built!InstallStage, Built!PackageAndVerify,
           Built!ReadRecords, Built!ForgetInternal, Built!KillBuilder, Built!Work
    <3>3. Knows(b)'
      BY <1>0, <3>1, <3>2
    <3> QED
      BY <2>1, <3>3 DEF BuildKnows
  <2>4. CASE build'[b].step \notin Decided
    BY <2>1, <2>4 DEF BuildKnows
  <2> QED
    BY <2>2, <2>3, <2>4
<1>2. CASE UNCHANGED <<build, cached>>
  BY <1>0, <1>2 DEF BuildKnows
<1>3. Built!CompilerGoesOn \/ Internals \/ UNCHANGED builtVars
      => UNCHANGED <<build, cached>>
  BY InternalsFrame DEF Built!CompilerGoesOn, builtVars
<1> QED
  BY <1>1, <1>2, <1>3 DEF Built!BuildNext, Internals

\* The steps before the publication touch neither the cache nor the internal installs.
LEMMA BuilderApart ==
  ASSUME BuildTypes, NEW b \in Builder,
         \/ Built!BeginBuild(b) \/ Built!LookCached(b) \/ Built!AcquireBuildLock(b) \/ Built!ResetRoot(b)
         \/ Built!FetchSources(b) \/ Built!Compile(b) \/ Built!InstallStage(b) \/ Built!PackageAndVerify(b)
  PROVE  /\ UNCHANGED <<cached, internal, named, installing, missed>>
         /\ build[b].step \notin {"forget", "drop"} /\ build'[b].copy \in {{}, build[b].copy}
<1> USE DEF Built!Step, Built!InternalSide
<1>0. build \in [Builder -> BuildRecord] /\ build[b] \in BuildRecord
  BY DEF BuildTypes
<1>7. \A label : Built!Goes(b, label) => build'[b].copy = build[b].copy
  BY <1>0 DEF Built!Goes, BuildRecord
<1>8. build' = [build EXCEPT ![b] = Built!NoBuild] => build'[b].copy = {}
  BY <1>0, BuildRecords
<1>1. CASE Built!BeginBuild(b)
  <2>1. PICK l \in Label, f \in BOOLEAN :
          build' = [build EXCEPT ![b] =
                      [Built!NoBuild EXCEPT !.step = "look", !.label = l, !.force = f]]
    BY <1>1 DEF Built!BeginBuild
  <2>2. build'[b] = [Built!NoBuild EXCEPT !.step = "look", !.label = l, !.force = f]
    BY <1>0, <2>1
  <2>3. build'[b].copy = {}
    BY <2>2 DEF Built!NoBuild
  <2> QED
    BY <1>1, <2>3 DEF Built!BeginBuild
<1>2. CASE Built!LookCached(b)
  <2> DEFINE r == [build[b] EXCEPT !.step = "reset", !.replaced = cached[Built!Here(b)] # Built!NoPayload]
  <2>1. r.copy = build[b].copy
    BY <1>0 DEF BuildRecord
  <2>2. \/ build' = [build EXCEPT ![b] = Built!NoBuild] \/ Built!Goes(b, "acquire")
        \/ build' = [build EXCEPT ![b] = r]
    BY <1>2 DEF Built!LookCached
  <2> HIDE DEF r
  <2>3. build'[b].copy \in {{}, build[b].copy}
    BY <1>0, <1>7, <1>8, <2>1, <2>2
  <2> QED
    BY <1>2, <2>3 DEF Built!LookCached
<1>3. CASE Built!AcquireBuildLock(b)
  BY <1>3, <1>7, <1>8 DEF Built!AcquireBuildLock
<1>4. CASE Built!ResetRoot(b)
  <2> DEFINE r == [build[b] EXCEPT !.step = "fetch", !.number = begun + 1]
  <2>1. r.copy = build[b].copy
    BY <1>0 DEF BuildRecord
  <2>2. build' = [build EXCEPT ![b] = Built!NoBuild] \/ build' = [build EXCEPT ![b] = r]
    BY <1>4 DEF Built!ResetRoot
  <2> HIDE DEF r
  <2>3. build'[b].copy \in {{}, build[b].copy}
    BY <1>0, <1>8, <2>1, <2>2
  <2> QED
    BY <1>4, <2>3 DEF Built!ResetRoot
<1>5. CASE Built!FetchSources(b) \/ Built!Compile(b) \/ Built!InstallStage(b)
  BY <1>5, <1>7, <1>8 DEF Built!FetchSources, Built!Compile, Built!InstallStage, Built!Work, Built!Leave
<1>6. CASE Built!PackageAndVerify(b)
  <2> DEFINE r == [build[b] EXCEPT !.step = "publish", !.archive = buildRoot[Built!Here(b)]]
  <2>1. r.copy = build[b].copy
    BY <1>0 DEF BuildRecord
  <2>2. build' = [build EXCEPT ![b] = Built!NoBuild] \/ build' = [build EXCEPT ![b] = r]
    BY <1>6 DEF Built!PackageAndVerify, Built!Leave
  <2> HIDE DEF r
  <2>3. build'[b].copy \in {{}, build[b].copy}
    BY <1>0, <1>8, <2>1, <2>2
  <2> QED
    BY <1>6, <2>3 DEF Built!PackageAndVerify
<1> QED
  BY <1>1, <1>2, <1>3, <1>4, <1>5, <1>6

LEMMA InternalFollowsStep == BuildInv /\ [Built!BuildNext]_builtVars => InternalFollows'
<1> SUFFICES ASSUME BuildInv, [Built!BuildNext]_builtVars PROVE InternalFollows'
  OBVIOUS
<1> USE DEF Built!Here
<1> DEFINE Telling(l) == \E c \in Builder : build[c].step \in {"forget", "drop"} /\ build[c].label = l
           Follows(l) == l \in named /\ ~Telling(l) /\ l \notin missed => internal[l] = cached[l]
           Copies == named \subseteq Had /\ \A b \in Builder : build[b].copy \subseteq Had
           Taken(l) ==
             /\ installing[l].copy \subseteq Had
             /\ Built!Overlaps(l) =>
                  l \in Had /\ (installing[l].payload = cached[l] \/ l \in missed)
             /\ installing[l].step \in {"read", "record"} => internal[l] = installing[l].payload
<1>0. BuildTypes /\ Copies /\ \A l \in Label : Taken(l) /\ Follows(l)
  BY DEF BuildInv, InternalFollows, Built!InternalFollowsBuild
<1>1. ASSUME Copies', \A l \in Label : (Taken(l) /\ Follows(l))' PROVE InternalFollows'
  <2>1. named' \subseteq Label
    BY <1>1 DEF Had
  <2>2. Built!InternalFollowsBuild'
    BY <1>1, <2>1 DEF Built!InternalFollowsBuild
  <2> QED
    BY <1>1, <2>2 DEF InternalFollows
<1> HIDE DEF Telling
\* The internal installs, their records and the cache stay.
<1>2. ASSUME UNCHANGED <<cached, internal, named, installing>>,
             \A b \in Builder : build'[b].copy \in {{}, build[b].copy, named},
             \A l \in missed \ missed' : ~Built!Overlaps(l) /\ l \notin named,
             \A l \in Label : l \notin missed' /\ Telling(l) =>
               Telling(l)' \/ l \notin named \/ internal[l] = cached[l]
      PROVE  InternalFollows'
  <2>1. Had' = Had
    BY <1>2 DEF Had
  <2>2. Copies'
    BY <1>0, <1>2, <2>1
  <2>3. ASSUME NEW l \in Label PROVE Taken(l)'
    BY <1>0, <1>2, <2>1, <2>3 DEF Built!Overlaps
  <2>4. ASSUME NEW l \in Label PROVE Follows(l)'
    BY <1>0, <1>2, <2>4
  <2> HIDE DEF Copies, Taken, Follows
  <2> QED
    BY <1>1, <2>2, <2>3, <2>4
<1>3. ASSUME NEW b \in Builder,
             \/ Built!BeginBuild(b) \/ Built!LookCached(b) \/ Built!AcquireBuildLock(b) \/ Built!ResetRoot(b)
             \/ Built!FetchSources(b) \/ Built!Compile(b) \/ Built!InstallStage(b) \/ Built!PackageAndVerify(b)
             \/ Built!Publish(b) \/ Built!ReadRecords(b) \/ Built!ForgetInternal(b) \/ Built!KillBuilder(b)
      PROVE  /\ \A c \in Builder : c # b => build'[c] = build[c]
             /\ \A l \in Label : ~(build[b].step \in {"forget", "drop"} /\ build[b].label = l) /\ Telling(l)
                  => Telling(l)'
  <2>1. \A c \in Builder : c # b => build'[c] = build[c]
    BY <1>0, <1>3, BuilderMoves
  <2> QED
    BY <2>1 DEF Telling
<1>4. ASSUME NEW b \in Builder,
             \/ Built!BeginBuild(b) \/ Built!LookCached(b) \/ Built!AcquireBuildLock(b) \/ Built!ResetRoot(b)
             \/ Built!FetchSources(b) \/ Built!Compile(b) \/ Built!InstallStage(b) \/ Built!PackageAndVerify(b)
      PROVE  InternalFollows'
  <2>1. /\ UNCHANGED <<cached, internal, named, installing, missed>>
        /\ build[b].step \notin {"forget", "drop"} /\ build'[b].copy \in {{}, build[b].copy}
    BY <1>0, <1>4, BuilderApart
  <2>2. /\ \A c \in Builder : c # b => build'[c] = build[c]
        /\ \A l \in Label : Telling(l) => Telling(l)'
    BY <1>3, <1>4, <2>1
  <2>3. \A c \in Builder : build'[c].copy \in {{}, build[c].copy, named}
    BY <2>1, <2>2
  <2> QED
    BY <1>2, <2>1, <2>2, <2>3
<1>5. ASSUME NEW b \in Builder, Built!Publish(b) PROVE InternalFollows'
  <2> DEFINE published == [number |-> build[b].number, of |-> build[b].archive]
  <2>1. PICK l \in Label : /\ l = build[b].label /\ build[b].step = "publish"
                           /\ UNCHANGED <<internal, named, installing>>
    BY <1>0, <1>5 DEF Built!Publish, Built!Step, BuildTypes
  <2>2. /\ \A c \in Builder : c # b => build'[c] = build[c]
        /\ \A m \in Label : Telling(m) => Telling(m)'
    BY <1>3, <1>5, <2>1
  <2>3. \A c \in Builder : build'[c].copy \in {{}, build[c].copy, named}
    <3>1. build'[b].copy \in {{}, build[b].copy}
      BY <1>0, <1>5, BuildRecords DEF Built!Publish, Built!Leave, Built!Goes, BuildTypes, BuildRecord
    <3> QED
      BY <2>2, <3>1
  <2>4. CASE UNCHANGED <<cached, missed>>
    BY <1>2, <2>1, <2>2, <2>3, <2>4
  <2>5. CASE /\ cached' = [cached EXCEPT ![l] = published]
             /\ Built!Leave(b, IF build[b].replaced THEN "forget" ELSE "idle")
             /\ missed' = IF Built!Overlaps(l) THEN missed \cup {l} ELSE missed
    <3>1. published # Built!NoPayload
      <4>1. published.number \in 1 .. begun /\ begun \in Nat
        BY <1>0, <2>1 DEF BuildInv, BuildLocks, Numbered, Decided, BuildTypes
      <4> QED
        BY <4>1, BuildRecords
    <3>2. cached'[l] = published /\ \A m \in Label : m # l => cached'[m] = cached[m]
      BY <1>0, <2>1, <2>5 DEF BuildTypes
    <3> HIDE DEF published
    <3>3. Had' = Had \cup {l}
      BY <3>1, <3>2 DEF Had, Built!NoPayload
    <3>4. Copies'
      BY <1>0, <2>1, <2>3, <3>3
    <3>5. ASSUME NEW m \in Label PROVE Taken(m)'
      BY <1>0, <2>1, <2>5, <3>2, <3>3, <3>5 DEF Built!Overlaps
    <3>6. ASSUME NEW m \in Label, m # l PROVE Follows(m)'
      BY <1>0, <2>1, <2>2, <2>5, <3>2, <3>6
    <3>7. Follows(l)'
      <4>1. CASE build[b].replaced
        <5>1. ~Built!Step(b, "idle") /\ "forget" \in BuildSteps /\ Built!Goes(b, "forget")
          BY <2>1, <2>5, <4>1 DEF Built!Leave, Built!Step, BuildSteps
        <5>2. build'[b] = [build[b] EXCEPT !.step = "forget"] /\ build[b] \in BuildRecord
          BY <1>0, <5>1, BuildMoves DEF BuildTypes
        <5>3. build'[b].step = "forget" /\ build'[b].label = l
          BY <2>1, <5>2 DEF BuildRecord
        <5> QED
          BY <5>3 DEF Telling
      <4>2. CASE ~build[b].replaced
        <5>1. cached[l] = Built!NoPayload
          BY <2>1, <4>2 DEF BuildInv, BuildKnows, Decided
        <5> QED
          BY <1>0, <2>1, <5>1 DEF Had
      <4> QED
        BY <4>1, <4>2
    <3> HIDE DEF Copies, Taken, Follows
    <3> QED
      BY <1>1, <3>4, <3>5, <3>6, <3>7
  <2> QED
    BY <1>5, <2>1, <2>4, <2>5 DEF Built!Publish
<1>6. ASSUME NEW b \in Builder, Built!ReadRecords(b) PROVE InternalFollows'
  <2> DEFINE l == build[b].label
  <2>1. /\ l \in Label /\ build[b].step = "forget" /\ UNCHANGED <<cached, internal, named, installing>>
        /\ build[b] \in BuildRecord
    BY <1>0, <1>6 DEF Built!ReadRecords, Built!Step, BuildTypes
  <2>2. /\ \A c \in Builder : c # b => build'[c] = build[c]
        /\ \A m \in Label : m # l /\ Telling(m) => Telling(m)'
    BY <1>3, <1>6
  <2>3. CASE /\ l \in named /\ UNCHANGED missed
             /\ build' = [build EXCEPT ![b].step = "drop", ![b].copy = named]
    <3>1. build'[b] = [build[b] EXCEPT !.step = "drop", !.copy = named]
      BY <1>0, <2>3 DEF BuildTypes
    <3>2. build'[b].step = "drop" /\ build'[b].label = l /\ build'[b].copy = named
      BY <2>1, <3>1 DEF BuildRecord
    <3>3. \A m \in Label : Telling(m) => Telling(m)'
      BY <2>2, <3>2 DEF Telling
    <3>4. \A c \in Builder : build'[c].copy \in {{}, build[c].copy, named}
      BY <2>2, <3>2
    <3> QED
      BY <1>2, <2>1, <2>3, <3>3, <3>4
  <2>4. CASE /\ l \notin named /\ build' = [build EXCEPT ![b] = Built!NoBuild]
             /\ missed' = IF Built!Overlaps(l) THEN missed ELSE missed \ {l}
    <3>1. build'[b].copy = {}
      BY <1>0, <2>4, BuildRecords DEF BuildTypes
    <3>2. \A c \in Builder : build'[c].copy \in {{}, build[c].copy, named}
      BY <2>2, <3>1
    <3>3. \A m \in missed \ missed' : m = l /\ ~Built!Overlaps(l)
      BY <2>4
    <3> HIDE DEF l
    <3> QED
      BY <1>2, <2>1, <2>2, <2>4, <3>2, <3>3
  <2> QED
    BY <1>6, <2>3, <2>4 DEF Built!ReadRecords
<1>7. ASSUME NEW b \in Builder, Built!ForgetInternal(b) PROVE InternalFollows'
  <2> DEFINE l == build[b].label
  <2>1. /\ l \in Label /\ UNCHANGED <<cached, internal, installing>>
        /\ build' = [build EXCEPT ![b] = Built!NoBuild]
    BY <1>0, <1>7 DEF Built!ForgetInternal, Built!Step, BuildTypes
  <2>2. /\ \A c \in Builder : c # b => build'[c] = build[c]
        /\ \A m \in Label : m # l /\ Telling(m) => Telling(m)'
    BY <1>3, <1>7
  <2>3. build'[b].copy = {}
    BY <1>0, <2>1, BuildRecords DEF BuildTypes
  <2>4. CASE UNCHANGED named /\ missed' = missed \cup ({l} \cap Built!Outdated)
    <3>1. \A c \in Builder : build'[c].copy \in {{}, build[c].copy, named}
      BY <2>2, <2>3
    <3>2. l \notin missed' => internal[l] = cached[l]
      BY <2>1, <2>4 DEF Built!Outdated
    <3> HIDE DEF l
    <3> QED
      BY <1>2, <2>1, <2>2, <2>4, <3>1, <3>2
  <2>5. CASE /\ named' = build[b].copy \ {l}
             /\ missed' = (IF Built!Overlaps(l) THEN missed ELSE missed \ {l}) \cup Built!Restored(named')
    <3>1. Had' = Had
      BY <2>1 DEF Had
    <3>2. Copies'
      BY <1>0, <2>2, <2>3, <2>5, <3>1
    <3>3. ASSUME NEW m \in Label PROVE Taken(m)'
      BY <1>0, <2>1, <2>5, <3>1, <3>3 DEF Built!Overlaps
    <3>4. ASSUME NEW m \in Label PROVE Follows(m)'
      BY <1>0, <2>1, <2>2, <2>5, <3>4 DEF Built!Restored, Built!Outdated
    <3> HIDE DEF Copies, Taken, Follows
    <3> QED
      BY <1>1, <3>2, <3>3, <3>4
  <2> QED
    BY <1>7, <2>4, <2>5 DEF Built!ForgetInternal
<1>8. ASSUME NEW b \in Builder, Built!KillBuilder(b) PROVE InternalFollows'
  <2> DEFINE l == build[b].label
  <2>1. /\ UNCHANGED <<cached, internal, named, installing>> /\ missed \subseteq missed'
        /\ build' = [build EXCEPT ![b] = Built!NoBuild] /\ l \in Label
        /\ build[b].step \in {"forget", "drop"} => {l} \cap Built!Outdated \subseteq missed'
    BY <1>0, <1>8 DEF Built!KillBuilder, BuildTypes
  <2>2. /\ \A c \in Builder : c # b => build'[c] = build[c]
        /\ \A m \in Label : ~(build[b].step \in {"forget", "drop"} /\ l = m) /\ Telling(m) => Telling(m)'
    BY <1>3, <1>8
  <2>3. build'[b].copy = {}
    BY <1>0, <2>1, BuildRecords DEF BuildTypes
  <2>4. \A c \in Builder : build'[c].copy \in {{}, build[c].copy, named}
    BY <2>2, <2>3
  <2>5. l \notin missed' /\ build[b].step \in {"forget", "drop"} => internal[l] = cached[l]
    BY <2>1 DEF Built!Outdated
  <2> HIDE DEF l
  <2> QED
    BY <1>2, <2>1, <2>2, <2>4, <2>5
<1>9. ASSUME UNCHANGED <<cached, build, internal, named, installing, missed>> PROVE InternalFollows'
  BY <1>2, <1>9 DEF Telling
<1>10. CASE Internals
  <2>1. PICK l \in Label :
          \/ Built!TakePayload(l) \/ Built!PutInternal(l) \/ Built!CopyRecords(l)
          \/ Built!RecordInternal(l) \/ Built!FailInstall(l)
    BY <1>10 DEF Internals
  <2>2. /\ UNCHANGED <<cached, build>> /\ Had' = Had /\ installing[l] \in InstallRecord
        /\ \A m \in Label : Telling(m)' = Telling(m)
    BY <1>0, <1>10, InternalsFrame DEF Had, Telling, BuildTypes
  <2>3. PICK i : installing' = [installing EXCEPT ![l] = i]
                 /\ installing'[l] = i /\ \A m \in Label : m # l => installing'[m] = installing[m]
    BY <1>0, <2>1 DEF BuildTypes, Built!TakePayload, Built!PutInternal, Built!CopyRecords,
       Built!RecordInternal, Built!FailInstall
  <2>4. CASE Built!TakePayload(l)
    <3>1. /\ UNCHANGED <<internal, named, missed>> /\ l \in Had
          /\ installing'[l] = [installing[l] EXCEPT !.step = "put", !.payload = cached[l]]
      BY <1>0, <2>4 DEF Built!TakePayload, Had, BuildTypes
    <3>2. /\ installing'[l].step = "put" /\ installing'[l].payload = cached[l]
          /\ installing'[l].copy = installing[l].copy
      BY <2>2, <3>1 DEF InstallRecord
    <3>3. Copies'
      BY <1>0, <2>2, <3>1
    <3>4. ASSUME NEW m \in Label PROVE (Taken(m) /\ Follows(m))'
      BY <1>0, <2>2, <2>3, <3>1, <3>2, <3>4 DEF Built!Overlaps
    <3> HIDE DEF Copies, Taken, Follows
    <3> QED
      BY <1>1, <3>3, <3>4
  <2>5. CASE Built!PutInternal(l)
    <3>1. /\ UNCHANGED <<named, missed>> /\ installing[l].step = "put"
          /\ internal'[l] = installing[l].payload /\ \A m \in Label : m # l => internal'[m] = internal[m]
          /\ installing'[l] = [installing[l] EXCEPT !.step = "read"]
      BY <1>0, <2>5 DEF Built!PutInternal, BuildTypes
    <3>2. /\ installing'[l].step = "read" /\ installing'[l].payload = installing[l].payload
          /\ installing'[l].copy = installing[l].copy
      BY <2>2, <3>1 DEF InstallRecord
    <3>3. Copies'
      BY <1>0, <2>2, <3>1
    <3>4. ASSUME NEW m \in Label PROVE (Taken(m) /\ Follows(m))'
      BY <1>0, <2>2, <2>3, <3>1, <3>2, <3>4 DEF Built!Overlaps
    <3> HIDE DEF Copies, Taken, Follows
    <3> QED
      BY <1>1, <3>3, <3>4
  <2>6. CASE Built!CopyRecords(l)
    <3>1. /\ UNCHANGED <<internal, named, missed>> /\ installing[l].step = "read"
          /\ installing'[l] = [installing[l] EXCEPT !.step = "record", !.copy = named]
      BY <1>0, <2>6 DEF Built!CopyRecords, BuildTypes
    <3>2. /\ installing'[l].step = "record" /\ installing'[l].payload = installing[l].payload
          /\ installing'[l].copy = named
      BY <2>2, <3>1 DEF InstallRecord
    <3>3. Copies'
      BY <1>0, <2>2, <3>1
    <3>4. ASSUME NEW m \in Label PROVE (Taken(m) /\ Follows(m))'
      BY <1>0, <2>2, <2>3, <3>1, <3>2, <3>4 DEF Built!Overlaps
    <3> HIDE DEF Copies, Taken, Follows
    <3> QED
      BY <1>1, <3>3, <3>4
  <2>7. CASE Built!RecordInternal(l)
    <3>1. /\ UNCHANGED internal /\ installing[l].step = "record" /\ named' = installing[l].copy \cup {l}
          /\ missed' = (IF l \in Built!Outdated THEN missed ELSE missed \ {l})
                         \cup Built!Restored(installing[l].copy \ {l})
          /\ installing'[l] = Built!NoInstalling
      BY <1>0, <2>7 DEF Built!RecordInternal, BuildTypes
    <3>2. Copies'
      BY <1>0, <2>2, <3>1 DEF Built!Overlaps
    <3>3. ASSUME NEW m \in Label PROVE Taken(m)'
      BY <1>0, <2>2, <2>3, <3>1, <3>3, BuildRecords DEF Built!Overlaps
    <3>4. Follows(l)'
      BY <1>0, <2>2, <3>1 DEF Built!Overlaps, Built!Outdated
    <3>5. ASSUME NEW m \in Label, m # l PROVE Follows(m)'
      BY <1>0, <2>2, <3>1, <3>5 DEF Built!Restored, Built!Outdated
    <3> HIDE DEF Copies, Taken, Follows
    <3> QED
      BY <1>1, <3>2, <3>3, <3>4, <3>5
  <2>8. CASE Built!FailInstall(l)
    <3>1. UNCHANGED <<internal, named, missed>> /\ installing'[l] = Built!NoInstalling
      BY <1>0, <2>8 DEF Built!FailInstall, BuildTypes
    <3>2. Copies'
      BY <1>0, <2>2, <3>1
    <3>3. ASSUME NEW m \in Label PROVE (Taken(m) /\ Follows(m))'
      BY <1>0, <2>2, <2>3, <3>1, <3>3, BuildRecords DEF Built!Overlaps
    <3> HIDE DEF Copies, Taken, Follows
    <3> QED
      BY <1>1, <3>2, <3>3
  <2> QED
    BY <2>1, <2>4, <2>5, <2>6, <2>7, <2>8
<1>11. Built!CompilerGoesOn \/ UNCHANGED builtVars
        => UNCHANGED <<cached, build, internal, named, installing, missed>>
  BY DEF Built!CompilerGoesOn, Built!InternalSide, builtVars
<1> HIDE DEF Follows, Copies, Taken
<1> QED
  BY <1>4, <1>5, <1>6, <1>7, <1>8, <1>9, <1>10, <1>11 DEF Built!BuildNext, Internals

LEMMA BuildStep == BuildInv /\ [Built!BuildNext]_builtVars => BuildInv'
BY BuildTypesStep, BuildLocksStep, BuildFilesStep, BuildKnowsStep, InternalFollowsStep DEF BuildInv

\* A payload that was in the cache is replaced by a command that was asked to.
LEMMA Forced == BuildInv /\ [Built!BuildNext]_builtVars => Built!ForcedStep
<1> SUFFICES ASSUME BuildInv, [Built!BuildNext]_builtVars,
                    NEW l \in Label, cached[l] # Built!NoPayload, cached'[l] # cached[l]
             PROVE  \E b \in Builder : /\ Built!Step(b, "publish") /\ ~Built!Step(b, "publish")'
                                       /\ Built!Here(b) = l /\ build[b].force
  BY DEF Built!ForcedStep
<1> USE DEF Built!Here, Built!Step
<1>0. BuildTypes /\ BuildKnows
  BY DEF BuildInv
<1>1. ASSUME NEW b \in Builder, Built!Publish(b) PROVE build[b].label = l /\ build[b].force /\ build'[b].step # "publish"
  <2>1. build[b].step = "publish" /\ build[b].step \in Inside /\ build[b].step \in Decided
    BY <1>1 DEF Built!Publish, Inside, Decided
  <2>2. build[b].label = l
    BY <1>1, <2>1, BuilderFrame
  <2>3. build[b].force
    BY <1>0, <2>1, <2>2 DEF BuildKnows
  <2>4. \E next \in {"idle", "forget"} : Built!Leave(b, next)
    BY <1>1 DEF Built!Publish
  <2>5. build' = [build EXCEPT ![b] = Built!NoBuild] => build'[b].step # "publish"
    BY <1>0, BuildEnds
  <2>6. Built!Goes(b, "forget") => build'[b].step # "publish"
    BY <1>0 DEF Built!Goes, BuildTypes, BuildRecord
  <2> QED
    BY <2>2, <2>3, <2>4, <2>5, <2>6 DEF Built!Leave
<1>2. ASSUME NEW b \in Builder,
             \/ Built!BeginBuild(b) \/ Built!LookCached(b) \/ Built!AcquireBuildLock(b) \/ Built!ResetRoot(b)
             \/ Built!FetchSources(b) \/ Built!Compile(b) \/ Built!InstallStage(b) \/ Built!PackageAndVerify(b)
      PROVE  FALSE
  BY <1>0, <1>2, BuilderApart
<1>3. ASSUME NEW b \in Builder,
             Built!ReadRecords(b) \/ Built!ForgetInternal(b) \/ Built!KillBuilder(b)
      PROVE  FALSE
  BY <1>3 DEF Built!ReadRecords, Built!ForgetInternal, Built!KillBuilder
<1>4. ~(Built!CompilerGoesOn \/ Internals \/ UNCHANGED builtVars)
  BY InternalsFrame DEF Built!CompilerGoesOn, builtVars
<1>5. PICK b \in Builder : Built!Publish(b)
  BY <1>2, <1>3, <1>4 DEF Built!BuildNext, Internals
<1>6. build[b].step = "publish"
  BY <1>5 DEF Built!Publish
<1> QED
  BY <1>1, <1>5, <1>6

-----------------------------------------------------------------------------
(* The certificates.  H are the commands.  A command that is alone knows what is on the *)
(* disk once it has written it, or from the start if nothing was disturbed.             *)

CertSteps ==
  {"idle", "look", "load", "authority", "issue", "find", "ring", "truncate", "write",
   "materialize", "launch", "prepare", "distrust", "remove", "trust"}
Making == {"find", "ring", "truncate", "write"}

Holding(H) ==
  [step : CertSteps, kind : {"serve", "install"}, host : Site \cup {Gone},
   policy : {"flexible", "plain", "encrypted"}, file : One!File,
   ca : 0 .. generated, pair : 0 .. generated, under : H \cup {Plain}, alone : BOOLEAN]

Content(H, f) ==
  CASE f = "cacert" -> [pair : 1 .. generated]
    [] f = "cert"   -> [pair : 1 .. generated, by : 0 .. generated, host : Site \cup {Gone}]
    [] OTHER        -> [pair : 1 .. generated, under : H \cup {Plain}]

CertTypes(H) ==
  /\ generated \in Nat /\ accidents \in Nat
  /\ DOMAIN file = One!File /\ \A f \in One!File : file[f] \in Content(H, f) \cup {Gone, Torn}
  /\ keyring \in [One!KeyFile -> H \cup {Gone}]
  /\ trusted \subseteq 1 .. generated
  /\ holding \in [H -> Holding(H)]
  /\ sound \in BOOLEAN /\ installed \in BOOLEAN

StepOK(r) ==
  /\ r.step = "idle" => r = One!NoHolding
  /\ r.step \in {"find", "ring", "prepare"} => r.file \in One!KeyFile
  /\ r.step \in Making => r.pair # 0
  /\ r.step \in {"look", "load", "materialize", "launch"} => r.kind = "serve"
  /\ r.step \in {"prepare", "distrust", "remove", "trust"} => r.kind = "install"
StepTypes(H) == \A c \in H : StepOK(holding[c])

\* A command that is alone is the only one, and the one that there is if all is sound.
AloneInv(H) ==
  /\ \A c, d \in H : One!Busy(c) /\ holding[c].alone /\ One!Busy(d) => c = d
  /\ sound => \A c \in H : holding[c].alone
  /\ installed => sound

Trusted == file["cacert"].pair \in trusted
Intact ==
  /\ One!Consistent \/ \A f \in One!File : ~One!There(f)
  /\ installed => One!Consistent /\ Trusted
AuthorityGood ==
  /\ One!Readable("cakey") /\ One!Parses("cacert") /\ file["cakey"].pair = file["cacert"].pair

\* What a command that is alone knows.
Knows(r) ==
  /\ r.step \in {"look", "load", "prepare", "distrust"} => (sound => Intact)
  /\ r.step = "load" => (sound => One!Consistent)
  /\ r.step = "authority" /\ r.kind = "serve" => ~installed
  /\ r.step \in Making /\ r.kind = "serve" /\ r.file \in {"cacert", "cakey"} => ~installed
  /\ r.step \in Making \cup {"issue", "materialize", "launch"} /\ r.kind = "serve" =>
       (installed => Trusted)
  /\ r.step \in Making /\ r.file = "cacert" => r.ca = r.pair
  /\ r.step \in Making /\ r.file = "cakey" =>
       One!Parses("cacert") /\ file["cacert"].pair = r.pair /\ r.ca = r.pair
  /\ r.step = "issue" \/ (r.step \in Making /\ r.file \in {"cert", "key"}) =>
       AuthorityGood /\ r.ca = file["cacert"].pair
  /\ r.step \in Making /\ r.file = "key" =>
       /\ One!Parses("cert") /\ file["cert"].by = r.ca /\ file["cert"].pair = r.pair
       /\ file["cert"].host = r.host
  /\ r.step \in {"truncate", "write"} /\ r.file \in One!KeyFile =>
       r.under \in {Plain, keyring[r.file]}
  /\ r.step \in {"materialize", "launch", "trust"} => One!Consistent /\ One!Covers(r.host)
  /\ r.step = "launch" => file["cert"].pair = r.pair

KnowInv(H) ==
  /\ sound /\ (\A c \in H : ~One!Busy(c)) => Intact
  /\ \A c \in H : One!Busy(c) /\ holding[c].alone /\ (sound \/ holding[c].kind = "install") =>
        Knows(holding[c])

\* What is not in a file is not taken for it.
Apart(H) ==
  /\ {Gone, Torn, Plain} \cap H = {}
  /\ {Gone, Torn} \cap [pair : Nat] = {}
  /\ {Gone, Torn} \cap [pair : Nat, by : Nat, host : Site \cup {Gone}] = {}
  /\ {Gone, Torn} \cap [pair : Nat, under : H \cup {Plain}] = {}

CertInv(H) == CertTypes(H) /\ StepTypes(H) /\ AloneInv(H) /\ KnowInv(H)

LEMMA BothApart == Apart(Lone) /\ Apart(Holder)
  BY PartsAssumption
  DEF Apart, One!CertificatesAssumption, One!Authority, One!Server, One!Key,
      Two!CertificatesAssumption, Two!Authority, Two!Server, Two!Key

LEMMA CertFacts ==
  /\ One!File = {"cacert", "cakey", "cert", "key"} /\ One!KeyFile = {"cakey", "key"}
  /\ One!NoHolding.step = "idle" /\ One!NoHolding.alone = TRUE
  /\ One!NoHolding = [step |-> "idle", kind |-> "serve", host |-> Gone,
                      policy |-> "flexible", file |-> "cacert", ca |-> 0, pair |-> 0,
                      under |-> Plain, alone |-> TRUE]
  BY DEF One!File, One!KeyFile, One!NoHolding

\* Numbers stay numbers.
LEMMA HoldingGrows ==
  ASSUME NEW H, generated \in Nat, generated' \in Nat, generated' >= generated
  PROVE  /\ Holding(H) \subseteq Holding(H)'
         /\ \A f \in One!File : Content(H, f) \subseteq Content(H, f)'
<1>1. 0 .. generated \subseteq 0 .. generated' /\ 1 .. generated \subseteq 1 .. generated'
  OBVIOUS
<1>2. Holding(H) \subseteq Holding(H)'
  BY <1>1 DEF Holding
<1>3. \A f \in One!File : Content(H, f) \subseteq Content(H, f)'
  BY <1>1, CertFacts DEF Content
<1> QED
  BY <1>2, <1>3

\* A command moves on or ends: what is left to show is the types, and what it knows then.
LEMMA CertMove ==
  ASSUME NEW H, CertInv(H), NEW c \in H, One!Busy(c), NEW r,
         holding' = [holding EXCEPT ![c] = r], CertTypes(H)',
         \/ r = One!NoHolding
         \/ r.step # "idle" /\ r.alone = holding[c].alone /\ r.kind = holding[c].kind,
         StepOK(r), sound' = sound, installed' = installed,
         holding[c].alone /\ (sound \/ holding[c].kind = "install") =>
           /\ r = One!NoHolding => (sound => Intact')
           /\ r # One!NoHolding => Knows(r)'
  PROVE  CertInv(H)'
<1>1. /\ holding \in [H -> Holding(H)] /\ holding' \in [H -> Holding(H)'] /\ holding'[c] = r
      /\ \A d \in H : d # c => holding'[d] = holding[d]
  BY DEF CertInv, CertTypes
<1>2. StepTypes(H)'
  BY <1>1 DEF CertInv, StepTypes, StepOK
<1>3. \A d \in H : One!Busy(d)' => One!Busy(d)
  BY <1>1 DEF One!Busy, One!On
<1>4. r.alone = holding[c].alone \/ r.alone = TRUE
  BY CertFacts
<1>5. \A d \in H : One!Busy(d)' => (holding'[d].alone <=> holding[d].alone)
  BY <1>1, CertFacts DEF One!Busy, One!On
<1>6. AloneInv(H)'
  <2>1. sound => \A d \in H : holding'[d].alone
    BY <1>1, <1>4 DEF CertInv, AloneInv
  <2> QED
    BY <1>3, <1>5, <2>1 DEF CertInv, AloneInv
<1>7. KnowInv(H)'
  <2>1. ASSUME sound, \A d \in H : ~One!Busy(d)' PROVE Intact'
    <3>1. r.step = "idle"
      BY <1>1, <2>1 DEF One!Busy, One!On
    <3>2. r = One!NoHolding /\ holding[c].alone
      BY <3>1, <2>1 DEF StepOK, CertInv, AloneInv
    <3> QED
      BY <2>1, <3>2
  <2>2. ASSUME NEW d \in H, One!Busy(d)', holding'[d].alone,
               sound \/ holding'[d].kind = "install"
        PROVE  Knows(holding[d])'
    <3>1. d = c
      BY <1>3, <1>5, <2>2 DEF CertInv, AloneInv
    <3>2. r # One!NoHolding
      BY <1>1, <2>2, <3>1, CertFacts DEF One!Busy, One!On
    <3>3. holding[c].alone /\ (sound \/ holding[c].kind = "install")
      BY <1>1, <1>5, <2>2, <3>1, <3>2
    <3>4. Knows(r)'
      BY <3>2, <3>3
    <3> QED
      BY <1>1, <3>1, <3>4
  <2> QED
    BY <2>1, <2>2 DEF KnowInv
<1> QED
  BY <1>2, <1>6, <1>7 DEF CertInv

LEMMA TypesStill ==
  ASSUME NEW H, CertTypes(H), NEW c \in H, NEW r \in Holding(H),
         holding' = [holding EXCEPT ![c] = r],
         UNCHANGED <<file, keyring, trusted, generated, accidents, sound, installed>>
  PROVE  CertTypes(H)'
<1>1. holding' \in [H -> Holding(H)]
  BY DEF CertTypes
<1>2. Holding(H)' = Holding(H) /\ \A f \in One!File : Content(H, f)' = Content(H, f)
  BY DEF Holding, Content
<1> QED
  BY <1>1, <1>2 DEF CertTypes

LEMMA CertReads ==
  ASSUME NEW H, CertInv(H), NEW c \in H, One!Busy(c), NEW r \in Holding(H),
         holding' = [holding EXCEPT ![c] = r],
         UNCHANGED <<file, keyring, trusted, generated, accidents, sound, installed>>,
         \/ r = One!NoHolding
         \/ r.step # "idle" /\ r.alone = holding[c].alone /\ r.kind = holding[c].kind,
         StepOK(r),
         holding[c].alone /\ (sound \/ holding[c].kind = "install") =>
           /\ r = One!NoHolding => (sound => Intact)
           /\ r # One!NoHolding => Knows(r)
  PROVE  CertInv(H)'
<1>1. CertTypes(H)'
  BY TypesStill DEF CertInv
<1>2. Intact' = Intact
  BY DEF Intact, One!Consistent, One!There, One!Readable, One!Parses, Trusted
<1>3. Knows(r)' = Knows(r)
  BY <1>2 DEF Knows, AuthorityGood, One!Consistent, One!Covers, One!Readable, One!Parses, Trusted
<1> QED
  BY <1>1, <1>2, <1>3, CertMove

LEMMA HoldingTypes ==
  ASSUME NEW H, CertInv(H), NEW c \in H
  PROVE  /\ holding[c] \in Holding(H) /\ StepOK(holding[c]) /\ holding \in [H -> Holding(H)]
         /\ generated \in Nat /\ One!NoHolding \in Holding(H) /\ StepOK(One!NoHolding)
         /\ One!NoHolding.step = "idle"
<1>1. holding \in [H -> Holding(H)] /\ generated \in Nat /\ StepOK(holding[c])
  BY DEF CertInv, CertTypes, StepTypes
<1>2. One!NoHolding \in Holding(H)
  BY <1>1, CertFacts DEF Holding, CertSteps
<1>3. StepOK(One!NoHolding)
  BY CertFacts DEF StepOK, Making
<1> QED
  BY <1>1, <1>2, <1>3, CertFacts

LEMMA KnowsIts ==
  ASSUME NEW H, CertInv(H), NEW c \in H, One!Busy(c), holding[c].alone,
         sound \/ holding[c].kind = "install"
  PROVE  Knows(holding[c])
  BY DEF CertInv, KnowInv

LEMMA LookStep ==
  ASSUME NEW H, CertInv(H), NEW c \in H, One!Look(c)
  PROVE  CertInv(H)'
<1>1. One!Busy(c) /\ holding[c].step = "look" /\ holding[c].kind = "serve"
  BY HoldingTypes DEF One!Look, One!On, One!Busy, StepOK
<1>2. PICK label \in {"materialize", "load", "authority"} :
         /\ holding' = [holding EXCEPT ![c].step = label]
         /\ label = "materialize" => One!HasAuthority /\ One!Covers(holding[c].host)
         /\ label = "load" => One!HasAuthority
         /\ label = "authority" => ~One!HasAuthority
  BY DEF One!Look, One!Proceed
<1>3. PICK r : r = [holding[c] EXCEPT !.step = label]
  OBVIOUS
<1>4. /\ r \in Holding(H) /\ holding' = [holding EXCEPT ![c] = r] /\ r.step = label
      /\ r.kind = holding[c].kind /\ r.alone = holding[c].alone /\ r.host = holding[c].host
      /\ r # One!NoHolding
  BY <1>2, <1>3, HoldingTypes DEF Holding, CertSteps
<1>5. StepOK(r)
  BY <1>1, <1>4, CertFacts DEF StepOK, Making
<1>6. ASSUME holding[c].alone, sound PROVE Knows(r)
  <2>1. Intact
    BY <1>1, <1>6, KnowsIts DEF Knows
  <2>2. One!HasAuthority => One!Consistent
    BY <2>1, CertFacts DEF Intact, One!HasAuthority, One!There
  <2>3. ~One!HasAuthority => ~installed
    BY <2>1 DEF Intact, One!Consistent, One!Readable, One!Parses, One!There, One!HasAuthority
  <2> QED
    BY <1>1, <1>2, <1>4, <2>1, <2>2, <2>3 DEF Knows, Intact, Making
<1> QED
  BY <1>1, <1>4, <1>5, <1>6, CertReads DEF One!Look, One!Kept

LEMMA LoadAuthorityStep ==
  ASSUME NEW H, CertInv(H), NEW c \in H, One!LoadAuthority(c)
  PROVE  CertInv(H)'
<1>1. One!Busy(c) /\ holding[c].step = "load" /\ holding[c].kind = "serve"
  BY HoldingTypes DEF One!LoadAuthority, One!On, One!Busy, StepOK
<1>2. holding[c].alone /\ sound => One!Consistent /\ Intact
  BY <1>1, KnowsIts DEF Knows
<1>3. CASE AuthorityGood
  <2>1. PICK r : r = [holding[c] EXCEPT !.step = "issue", !.ca = file["cacert"].pair]
    OBVIOUS
  <2>2. holding' = [holding EXCEPT ![c] = r]
    BY <1>3, <2>1, HoldingTypes DEF One!LoadAuthority, AuthorityGood
  <2>3. file["cacert"].pair \in 0 .. generated
    <3>1. file["cacert"] \in Content(H, "cacert")
      BY <1>3, CertFacts DEF AuthorityGood, One!Parses, CertInv, CertTypes
    <3> QED
      BY <3>1 DEF Content
  <2>4. /\ r \in Holding(H) /\ r.step = "issue" /\ r.kind = "serve"
        /\ r.alone = holding[c].alone /\ r.ca = file["cacert"].pair /\ r # One!NoHolding
    <3>1. holding[c] \in Holding(H)
      BY HoldingTypes
    <3>2. r \in Holding(H)
      BY <2>1, <2>3, <3>1 DEF Holding, CertSteps
    <3> QED
      BY <1>1, <2>1, <3>1, <3>2, CertFacts DEF Holding
  <2>5. StepOK(r)
    BY <2>4, CertFacts DEF StepOK, Making
  <2>6. holding[c].alone /\ sound => Knows(r)
    BY <1>2, <1>3, <2>4 DEF Knows, Intact, Making
  <2> QED
    BY <1>1, <2>2, <2>4, <2>5, <2>6, CertReads DEF One!LoadAuthority, One!Kept
<1>4. CASE ~AuthorityGood
  <2>1. holding' = [holding EXCEPT ![c] = One!NoHolding]
    BY <1>4 DEF One!LoadAuthority, One!End, AuthorityGood
  <2> QED
    BY <1>1, <1>2, <2>1, HoldingTypes, CertReads DEF One!LoadAuthority, One!Kept
<1> QED
  BY <1>3, <1>4

LEMMA MaterializeStep ==
  ASSUME NEW H, CertInv(H), NEW c \in H, One!Materialize(c)
  PROVE  CertInv(H)'
<1>1. One!Busy(c) /\ holding[c].step = "materialize" /\ holding[c].kind = "serve"
  BY HoldingTypes DEF One!Materialize, One!On, One!Busy, StepOK
<1>2. holding[c].alone /\ sound =>
        One!Consistent /\ One!Covers(holding[c].host) /\ (installed => Trusted)
  BY <1>1, KnowsIts DEF Knows
<1>3. CASE One!Readable("key")
  <2>1. PICK r : r = [holding[c] EXCEPT !.step = "launch", !.pair = file["key"].pair]
    OBVIOUS
  <2>2. holding' = [holding EXCEPT ![c] = r]
    BY <1>3, <2>1, HoldingTypes DEF One!Materialize
  <2>3. file["key"].pair \in 0 .. generated
    <3>1. file["key"] \in Content(H, "key")
      BY <1>3, CertFacts DEF One!Readable, One!Parses, CertInv, CertTypes
    <3> QED
      BY <3>1 DEF Content
  <2>4. /\ r \in Holding(H) /\ r.step = "launch" /\ r.kind = "serve"
        /\ r.alone = holding[c].alone /\ r.pair = file["key"].pair /\ r # One!NoHolding
        /\ r.host = holding[c].host
    <3>1. holding[c] \in Holding(H)
      BY HoldingTypes
    <3>2. r \in Holding(H)
      BY <2>1, <2>3, <3>1 DEF Holding, CertSteps
    <3> QED
      BY <1>1, <2>1, <3>1, <3>2, CertFacts DEF Holding
  <2>5. StepOK(r)
    BY <2>4, CertFacts DEF StepOK, Making
  <2>6. holding[c].alone /\ sound => Knows(r)
    BY <1>2, <1>3, <2>4 DEF Knows, Making, One!Consistent
  <2> QED
    BY <1>1, <2>2, <2>4, <2>5, <2>6, CertReads DEF One!Materialize, One!Kept
<1>4. CASE ~One!Readable("key")
  <2>1. holding' = [holding EXCEPT ![c] = One!NoHolding]
    BY <1>4 DEF One!Materialize, One!End
  <2> QED
    BY <1>1, <1>2, <2>1, HoldingTypes, CertReads DEF One!Materialize, One!Kept, Intact
<1> QED
  BY <1>3, <1>4

LEMMA LaunchStep ==
  ASSUME NEW H, CertInv(H), NEW c \in H, One!LaunchHTTPS(c)
  PROVE  CertInv(H)'
<1>1. One!Busy(c) /\ holding[c].step = "launch" /\ holding[c].kind = "serve"
  BY HoldingTypes DEF One!LaunchHTTPS, One!On, One!Busy, StepOK
<1>2. holding[c].alone /\ sound => Intact
  BY <1>1, KnowsIts DEF Knows, Intact
<1>3. holding' = [holding EXCEPT ![c] = One!NoHolding]
  BY DEF One!LaunchHTTPS, One!End
<1> QED
  BY <1>1, <1>2, <1>3, HoldingTypes, CertReads DEF One!LaunchHTTPS, One!Kept

LEMMA FindKeyStep ==
  ASSUME NEW H, Apart(H), CertInv(H), NEW c \in H, One!FindKey(c)
  PROVE  CertInv(H)'
<1>1. One!Busy(c) /\ holding[c].step = "find" /\ holding[c].file \in One!KeyFile
  BY HoldingTypes DEF One!FindKey, One!On, One!Busy, StepOK
<1>2. PICK label \in {"truncate", "ring"}, under \in H \cup {Plain} :
        /\ holding' = [holding EXCEPT ![c].step = label, ![c].under = under]
        /\ label = "truncate" => under \in {Plain, keyring[holding[c].file]}
  <2>1. keyring[holding[c].file] \in H \cup {Gone}
    BY <1>1 DEF CertInv, CertTypes
  <2>2. holding[c].under \in H \cup {Plain}
    BY HoldingTypes DEF Holding
  <2>3. [holding EXCEPT ![c].step = "ring"]
          = [holding EXCEPT ![c].step = "ring", ![c].under = holding[c].under]
    BY HoldingTypes DEF Holding
  <2> QED
    BY <2>1, <2>2, <2>3 DEF One!FindKey
<1>3. PICK r : r = [holding[c] EXCEPT !.step = label, !.under = under]
  OBVIOUS
<1>4. /\ r \in Holding(H) /\ holding' = [holding EXCEPT ![c] = r] /\ r.step = label
      /\ r.kind = holding[c].kind /\ r.alone = holding[c].alone /\ r.host = holding[c].host
      /\ r # One!NoHolding /\ r.file = holding[c].file /\ r.pair = holding[c].pair
      /\ r.ca = holding[c].ca /\ r.under = under
  <2>1. holding[c] \in Holding(H) /\ holding \in [H -> Holding(H)]
    BY HoldingTypes
  <2>2. r \in Holding(H)
    BY <1>3, <2>1 DEF Holding, CertSteps
  <2>3. holding' = [holding EXCEPT ![c] = r]
    BY <1>2, <1>3, <2>1 DEF Holding
  <2> QED
    BY <1>2, <1>3, <2>1, <2>2, <2>3, CertFacts DEF Holding
<1>5. StepOK(r)
  BY <1>1, <1>4, HoldingTypes, CertFacts DEF StepOK, Making
<1>6. ASSUME Knows(holding[c]) PROVE Knows(r)
  BY <1>1, <1>2, <1>4, <1>6 DEF Knows, Making
<1> QED
  BY <1>1, <1>4, <1>5, <1>6, KnowsIts, CertReads DEF One!FindKey, One!Kept

LEMMA FileNames ==
  One!File = {"cacert", "cakey", "cert", "key"} /\ One!KeyFile = {"cakey", "key"}
  BY CertFacts

LEMMA GenerateStep ==
  ASSUME NEW H, CertInv(H), NEW c \in H, NEW label, NEW first,
         \/ label = "authority" /\ first = "cacert"
         \/ label = "issue" /\ first = "cert",
         One!On(c, label), generated' = generated + 1,
         holding' = [holding EXCEPT ![c].step = "truncate", ![c].file = first,
                                    ![c].pair = generated + 1,
                                    ![c].ca = IF label = "authority" THEN generated + 1 ELSE @],
         UNCHANGED <<file, keyring, trusted, accidents, sound, installed>>
  PROVE  CertInv(H)'
<1>1. One!Busy(c) /\ holding[c].step = label /\ holding[c] \in Holding(H)
      /\ holding \in [H -> Holding(H)] /\ generated \in Nat
  BY HoldingTypes DEF One!On, One!Busy
<1>2. PICK n \in Nat : n = generated + 1
  BY <1>1
<1>3. PICK r : r = [holding[c] EXCEPT !.step = "truncate", !.file = first, !.pair = n,
                                      !.ca = IF label = "authority" THEN n ELSE @]
  OBVIOUS
<1>4. holding' = [holding EXCEPT ![c] = r]
  BY <1>1, <1>2, <1>3
<1>5. /\ Holding(H) \subseteq Holding(H)'
      /\ \A f \in One!File : Content(H, f) \subseteq Content(H, f)'
  BY <1>1, HoldingGrows
<1>6. n \in 0 .. generated' /\ n # 0
  BY <1>1, <1>2
<1>7. r \in Holding(H)'
  <2>1. holding[c] \in Holding(H)'
    BY <1>1, <1>5
  <2>2. first \in One!File
    BY FileNames
  <2> QED
    BY <1>3, <1>6, <2>1, <2>2 DEF Holding, CertSteps
<1>8. /\ r.step = "truncate" /\ r.file = first /\ r.pair = n /\ r # One!NoHolding
      /\ r.ca = (IF label = "authority" THEN n ELSE holding[c].ca)
      /\ r.alone = holding[c].alone /\ r.kind = holding[c].kind /\ r.host = holding[c].host
  BY <1>1, <1>3, CertFacts DEF Holding
<1>9. CertTypes(H)'
  <2>1. holding' \in [H -> Holding(H)']
    BY <1>1, <1>4, <1>5, <1>7
  <2>2. trusted' \subseteq 1 .. generated' /\ generated' \in Nat
    BY <1>1 DEF CertInv, CertTypes
  <2>3. \A f \in One!File : file'[f] \in Content(H, f)' \cup {Gone, Torn}
    BY <1>5 DEF CertInv, CertTypes
  <2> QED
    BY <2>1, <2>2, <2>3 DEF CertInv, CertTypes
<1>10. StepOK(r)
  BY <1>6, <1>8 DEF StepOK, Making
<1>11. ASSUME Knows(holding[c]) PROVE Knows(r)'
  <2>1. /\ AuthorityGood' = AuthorityGood /\ Trusted' = Trusted
    BY DEF AuthorityGood, Trusted, One!Readable, One!Parses
  <2>2. /\ label = "authority" /\ r.kind = "serve" => ~installed
        /\ label = "issue" => /\ AuthorityGood /\ holding[c].ca = file["cacert"].pair
                              /\ r.kind = "serve" => (installed => Trusted)
    BY <1>1, <1>8, <1>11 DEF Knows
  <2>3. CASE label = "authority"
    <3>1. r.ca = r.pair /\ r.file = "cacert" /\ (r.kind = "serve" => ~installed')
      BY <1>1, <1>8, <1>11, <2>3 DEF Knows
    <3> QED
      BY <1>8, <3>1, FileNames DEF Knows, Making
  <2>4. CASE label = "issue"
    <3>1. r.ca = file'["cacert"].pair /\ r.file = "cert" /\ AuthorityGood'
          /\ (r.kind = "serve" => (installed' => Trusted'))
      BY <1>8, <2>1, <2>2, <2>4
    <3> QED
      BY <1>8, <3>1, FileNames DEF Knows, Making
  <2> QED
    BY <2>3, <2>4
<1> QED
  BY <1>1, <1>4, <1>8, <1>9, <1>10, <1>11, KnowsIts, CertMove

\* One file changes.
LEMMA OneFile ==
  ASSUME NEW H, CertInv(H), NEW c \in H, NEW r \in Holding(H), NEW f \in One!File,
         NEW put \in Content(H, f) \cup {Gone, Torn},
         holding' = [holding EXCEPT ![c] = r], file' = [file EXCEPT ![f] = put],
         UNCHANGED <<keyring, trusted, generated, accidents, sound, installed>>
  PROVE  /\ CertTypes(H)' /\ file'[f] = put
         /\ One!Parses(f)' <=> put \notin {Gone, Torn}
         /\ \A g \in One!File \ {f} :
              /\ file'[g] = file[g] /\ (One!Parses(g)' <=> One!Parses(g))
              /\ One!Readable(g)' <=> One!Readable(g)
<1>1. holding' \in [H -> Holding(H)]
  BY DEF CertInv, CertTypes
<1>2. Holding(H)' = Holding(H) /\ \A g \in One!File : Content(H, g)' = Content(H, g)
  BY DEF Holding, Content
<1>3. /\ DOMAIN file' = One!File /\ file'[f] = put
      /\ \A g \in One!File \ {f} : file'[g] = file[g]
  BY DEF CertInv, CertTypes
<1>4. CertTypes(H)'
  BY <1>1, <1>2, <1>3 DEF CertInv, CertTypes
<1> QED
  BY <1>3, <1>4 DEF One!Parses, One!Readable

LEMMA TruncateStep ==
  ASSUME NEW H, CertInv(H), NEW c \in H, One!Truncate(c)
  PROVE  CertInv(H)'
<1>1. One!Busy(c) /\ holding[c].step = "truncate" /\ holding[c] \in Holding(H)
      /\ holding \in [H -> Holding(H)]
  BY HoldingTypes DEF One!Truncate, One!On, One!Busy
<1>2. PICK f \in One!File : f = holding[c].file
  BY <1>1 DEF Holding
<1>3. PICK r : r = [holding[c] EXCEPT !.step = "write"]
  OBVIOUS
<1>4. r \in Holding(H)
  BY <1>1, <1>3 DEF Holding, CertSteps
<1>5. /\ holding' = [holding EXCEPT ![c] = r] /\ file' = [file EXCEPT ![f] = Torn]
      /\ UNCHANGED <<keyring, trusted, generated, accidents, sound, installed>>
  BY <1>1, <1>2, <1>3 DEF One!Truncate, One!Proceed, One!Kept
<1>6. /\ r.step = "write" /\ r.file = f /\ r.pair = holding[c].pair /\ r # One!NoHolding
      /\ r.ca = holding[c].ca /\ r.under = holding[c].under /\ r.alone = holding[c].alone
      /\ r.kind = holding[c].kind /\ r.host = holding[c].host
  BY <1>1, <1>2, <1>3, CertFacts DEF Holding
<1>7. StepOK(r)
  BY <1>1, <1>6, HoldingTypes DEF StepOK, Making
<1>8. /\ CertTypes(H)'
      /\ \A g \in One!File \ {f} :
           /\ file'[g] = file[g] /\ (One!Parses(g)' <=> One!Parses(g))
           /\ One!Readable(g)' <=> One!Readable(g)
  BY <1>4, <1>5, OneFile
<1>9. ASSUME Knows(holding[c]) PROVE Knows(r)'
  <2>1. f # "cacert" => Trusted' = Trusted
    BY <1>5, <1>8, CertFacts DEF Trusted
  <2>2. f \in {"cert", "key"} => AuthorityGood' = AuthorityGood
    BY <1>8, CertFacts DEF AuthorityGood
  <2>3. /\ r.kind = "serve" /\ f \in {"cacert", "cakey"} => ~installed'
        /\ r.kind = "serve" => (installed' => Trusted')
        /\ f = "cacert" => r.ca = r.pair
        /\ f \in One!KeyFile => r.under \in {Plain, keyring'[f]}
    BY <1>1, <1>2, <1>5, <1>6, <1>9, <2>1 DEF Knows, Making
  <2>4. f = "cakey" => One!Parses("cacert")' /\ file'["cacert"].pair = r.pair /\ r.ca = r.pair
    BY <1>1, <1>2, <1>6, <1>8, <1>9, FileNames DEF Knows, Making
  <2>5. f \in {"cert", "key"} => AuthorityGood' /\ r.ca = file'["cacert"].pair
    BY <1>1, <1>2, <1>6, <1>8, <1>9, <2>2, FileNames DEF Knows, Making
  <2>6. f = "key" => /\ One!Parses("cert")' /\ file'["cert"].by = r.ca
                     /\ file'["cert"].pair = r.pair /\ file'["cert"].host = r.host
    BY <1>1, <1>2, <1>6, <1>8, <1>9, FileNames DEF Knows, Making
  <2> QED
    BY <1>6, <2>3, <2>4, <2>5, <2>6 DEF Knows, Making
<1> QED
  BY <1>1, <1>5, <1>6, <1>7, <1>8, <1>9, KnowsIts, CertMove

\* What is written, and the step that follows.
WritesOut(q, put, r) ==
  \/ q.file = "cacert" /\ put = [pair |-> q.pair]
     /\ r = [q EXCEPT !.step = "find", !.file = "cakey"]
  \/ q.file = "cert" /\ put = [pair |-> q.pair, by |-> q.ca, host |-> q.host]
     /\ r = [q EXCEPT !.step = "find", !.file = "key"]
  \/ q.file = "cakey" /\ put = [pair |-> q.pair, under |-> q.under]
     /\ r = [q EXCEPT !.step = "issue", !.pair = 0, !.under = Plain]
  \/ q.file = "key" /\ put = [pair |-> q.pair, under |-> q.under]
     /\ r = [q EXCEPT !.step = IF q.kind = "serve" THEN "materialize" ELSE "trust",
                      !.file = "cacert", !.ca = 0, !.pair = 0, !.under = Plain]

\* What the next step is, and that the file is what it says.
LEMMA WrittenTypes ==
  ASSUME NEW H, Apart(H), generated \in Nat, NEW q \in Holding(H),
         q.pair \in 1 .. generated, q.step = "write", NEW f, f = q.file
  PROVE  \E put, r :
           /\ WritesOut(q, put, r)
           /\ put \in Content(H, f) /\ put \notin {Gone, Torn} /\ put.pair = q.pair
           /\ f = "cert" => put.by = q.ca /\ put.host = q.host
           /\ f \in One!KeyFile => put.under = q.under
           /\ r \in Holding(H) /\ StepOK(r) /\ r # One!NoHolding /\ r.step # "idle"
           /\ r.kind = q.kind /\ r.alone = q.alone /\ r.host = q.host
           /\ f = "cacert" => /\ r.step = "find" /\ r.file = "cakey"
                                   /\ r.pair = q.pair /\ r.ca = q.ca
           /\ f = "cert" => /\ r.step = "find" /\ r.file = "key"
                                 /\ r.pair = q.pair /\ r.ca = q.ca
           /\ f = "cakey" => r.step = "issue" /\ r.ca = q.ca
           /\ f = "key" => r.step = (IF r.kind = "serve" THEN "materialize" ELSE "trust")
<1>1. /\ q.pair \in Nat /\ q.ca \in 0 .. generated /\ q.ca \in Nat
      /\ q.host \in Site \cup {Gone} /\ q.under \in H \cup {Plain}
      /\ q.kind \in {"serve", "install"} /\ q.file \in One!File
  BY DEF Holding
<1>5. 0 \in 0 .. generated
  OBVIOUS
<1>2. CASE q.file = "cacert"
  <2>1. PICK put : put = [pair |-> q.pair]
    OBVIOUS
  <2>2. put \in Content(H, q.file) /\ put \notin {Gone, Torn} /\ put.pair = q.pair
    <3>1. put \in [pair : Nat]
      BY <1>1, <2>1
    <3> QED
      BY <1>2, <2>1, <3>1 DEF Content, Apart
  <2>3. PICK r : r = [q EXCEPT !.step = "find", !.file = "cakey"]
    OBVIOUS
  <2>4. r \in Holding(H)
    BY <2>3, FileNames DEF Holding, CertSteps
  <2>5. /\ r.step = "find" /\ r.file = "cakey" /\ r.pair = q.pair /\ r.ca = q.ca
        /\ r.kind = q.kind /\ r.alone = q.alone /\ r.host = q.host /\ r # One!NoHolding
    BY <2>3, CertFacts DEF Holding
  <2>6. StepOK(r)
    BY <2>5, FileNames DEF StepOK, Making
  <2>7. WritesOut(q, put, r)
    BY <1>2, <2>1, <2>3 DEF WritesOut
  <2> QED
    BY <1>2, <2>2, <2>4, <2>5, <2>6, <2>7, FileNames
<1>3. CASE q.file = "cert"
  <2>1. PICK put : put = [pair |-> q.pair, by |-> q.ca, host |-> q.host]
    OBVIOUS
  <2>2. /\ put \in Content(H, q.file) /\ put \notin {Gone, Torn}
        /\ put.pair = q.pair /\ put.by = q.ca /\ put.host = q.host
    <3>1. put \in [pair : Nat, by : Nat, host : Site \cup {Gone}]
      BY <1>1, <2>1
    <3>2. put \in Content(H, q.file)
      BY <1>1, <1>3, <2>1 DEF Content
    <3> QED
      BY <2>1, <3>1, <3>2 DEF Apart
  <2>3. PICK r : r = [q EXCEPT !.step = "find", !.file = "key"]
    OBVIOUS
  <2>4. r \in Holding(H)
    BY <2>3, FileNames DEF Holding, CertSteps
  <2>5. /\ r.step = "find" /\ r.file = "key" /\ r.pair = q.pair /\ r.ca = q.ca
        /\ r.kind = q.kind /\ r.alone = q.alone /\ r.host = q.host /\ r # One!NoHolding
    BY <2>3, CertFacts DEF Holding
  <2>6. StepOK(r)
    BY <2>5, FileNames DEF StepOK, Making
  <2>7. WritesOut(q, put, r)
    BY <1>3, <2>1, <2>3 DEF WritesOut
  <2> QED
    BY <1>3, <2>2, <2>4, <2>5, <2>6, <2>7, FileNames
<1>4. CASE q.file \in {"cakey", "key"}
  <2>1. PICK put : put = [pair |-> q.pair, under |-> q.under]
    OBVIOUS
  <2>2. /\ put \in Content(H, q.file) /\ put \notin {Gone, Torn}
        /\ put.pair = q.pair /\ put.under = q.under
    <3>1. put \in [pair : Nat, under : H \cup {Plain}]
      BY <1>1, <2>1
    <3>2. put \in Content(H, q.file)
      BY <1>1, <1>4, <2>1 DEF Content
    <3> QED
      BY <2>1, <3>1, <3>2 DEF Apart
  <2>3. CASE q.file = "cakey"
    <3>1. PICK r : r = [q EXCEPT !.step = "issue", !.pair = 0, !.under = Plain]
      OBVIOUS
    <3>2. r \in Holding(H)
      BY <1>5, <3>1 DEF Holding, CertSteps
    <3>3. /\ r.step = "issue" /\ r.ca = q.ca
          /\ r.kind = q.kind /\ r.alone = q.alone /\ r.host = q.host /\ r # One!NoHolding
      BY <3>1, CertFacts DEF Holding
    <3>4. StepOK(r)
      BY <3>3 DEF StepOK, Making
    <3>5. WritesOut(q, put, r)
      BY <2>1, <2>3, <3>1 DEF WritesOut
    <3> QED
      BY <2>2, <2>3, <3>2, <3>3, <3>4, <3>5, FileNames
  <2>4. CASE q.file = "key"
    <3>1. PICK label : label = (IF q.kind = "serve" THEN "materialize" ELSE "trust")
      OBVIOUS
    <3>2. PICK r : r = [q EXCEPT !.step = label, !.file = "cacert", !.ca = 0, !.pair = 0,
                                 !.under = Plain]
      OBVIOUS
    <3>3. r \in Holding(H)
      BY <1>5, <3>1, <3>2, FileNames DEF Holding, CertSteps
    <3>4. /\ r.step = label /\ label # "idle"
          /\ r.kind = q.kind /\ r.alone = q.alone /\ r.host = q.host /\ r # One!NoHolding
      BY <3>1, <3>2, CertFacts DEF Holding
    <3>5. StepOK(r)
      BY <1>1, <3>1, <3>4 DEF StepOK, Making
    <3>6. WritesOut(q, put, r)
      BY <2>1, <2>4, <3>1, <3>2 DEF WritesOut
    <3> QED
      BY <2>2, <2>4, <3>1, <3>3, <3>4, <3>5, <3>6, FileNames
  <2> QED
    BY <1>4, <2>3, <2>4
<1> QED
  BY <1>1, <1>2, <1>3, <1>4, FileNames

LEMMA WriteStep ==
  ASSUME NEW H, Apart(H), CertInv(H), NEW c \in H, One!Write(c)
  PROVE  CertInv(H)'
<1>1. One!Busy(c) /\ holding[c].step = "write" /\ holding[c] \in Holding(H)
      /\ holding[c].pair \in 1 .. generated /\ generated \in Nat
  BY HoldingTypes DEF One!Write, One!On, One!Busy, StepOK, Making, Holding
<1>2. UNCHANGED <<keyring, trusted, generated, accidents, sound, installed>>
  BY DEF One!Write, One!Kept
<1>3. PICK q \in Holding(H) : q = holding[c]
  BY <1>1
<1>4. PICK f \in One!File : f = q.file
  BY DEF Holding
<1>5. PICK put, r :
        /\ WritesOut(q, put, r)
        /\ put \in Content(H, f) /\ put \notin {Gone, Torn} /\ put.pair = q.pair
        /\ f = "cert" => put.by = q.ca /\ put.host = q.host
        /\ f \in One!KeyFile => put.under = q.under
        /\ r \in Holding(H) /\ StepOK(r) /\ r # One!NoHolding /\ r.step # "idle"
        /\ r.kind = q.kind /\ r.alone = q.alone /\ r.host = q.host
        /\ f = "cacert" => /\ r.step = "find" /\ r.file = "cakey"
                           /\ r.pair = q.pair /\ r.ca = q.ca
        /\ f = "cert" => /\ r.step = "find" /\ r.file = "key"
                         /\ r.pair = q.pair /\ r.ca = q.ca
        /\ f = "cakey" => r.step = "issue" /\ r.ca = q.ca
        /\ f = "key" => r.step = (IF r.kind = "serve" THEN "materialize" ELSE "trust")
  <2>1. generated \in Nat /\ q.pair \in 1 .. generated /\ q.step = "write"
    BY <1>1, <1>3
  <2> QED
    BY <1>4, <2>1, WrittenTypes
<1>6. file' = [file EXCEPT ![q.file] = put] /\ holding' = [holding EXCEPT ![c] = r]
  <2>1. /\ file' = [file EXCEPT ![q.file] =
                CASE q.file = "cacert"  -> [pair |-> q.pair]
                  [] q.file = "cert"    -> [pair |-> q.pair, by |-> q.ca, host |-> q.host]
                  [] q.file \in One!KeyFile -> [pair |-> q.pair, under |-> q.under]]
        /\ holding' = [holding EXCEPT ![c] =
                CASE q.file = "cacert" -> [q EXCEPT !.step = "find", !.file = "cakey"]
                  [] q.file = "cert"   -> [q EXCEPT !.step = "find", !.file = "key"]
                  [] q.file = "cakey"  -> [q EXCEPT !.step = "issue", !.pair = 0, !.under = Plain]
                  [] q.file = "key"    ->
                       [q EXCEPT !.step = IF q.kind = "serve" THEN "materialize" ELSE "trust",
                                 !.file = "cacert", !.ca = 0, !.pair = 0, !.under = Plain]]
    BY <1>3 DEF One!Write
  <2>2. CASE q.file = "cacert"
    BY <2>1, <2>2, <1>5, FileNames DEF WritesOut
  <2>3. CASE q.file = "cert"
    BY <2>1, <2>3, <1>5, FileNames DEF WritesOut
  <2>4. CASE q.file = "cakey"
    BY <2>1, <2>4, <1>5, FileNames DEF WritesOut
  <2>5. CASE q.file = "key"
    BY <2>1, <2>5, <1>5, FileNames DEF WritesOut
  <2> QED
    BY <1>4, <1>5, <2>2, <2>3, <2>4, <2>5 DEF WritesOut
<1>7. /\ CertTypes(H)' /\ file'[f] = put /\ One!Parses(f)'
      /\ \A g \in One!File \ {f} :
           /\ file'[g] = file[g] /\ (One!Parses(g)' <=> One!Parses(g))
           /\ One!Readable(g)' <=> One!Readable(g)
  <2>1. put \in Content(H, f) \cup {Gone, Torn} /\ r \in Holding(H)
    BY <1>5
  <2>3. file' = [file EXCEPT ![f] = put] /\ holding' = [holding EXCEPT ![c] = r]
    BY <1>4, <1>6
  <2>2. /\ CertTypes(H)' /\ file'[f] = put /\ (One!Parses(f)' <=> put \notin {Gone, Torn})
        /\ \A g \in One!File \ {f} :
             /\ file'[g] = file[g] /\ (One!Parses(g)' <=> One!Parses(g))
             /\ One!Readable(g)' <=> One!Readable(g)
    BY <1>2, <2>1, <2>3, OneFile
  <2> QED
    BY <1>5, <2>2
<1>8. f # "cacert" => Trusted' = Trusted
  BY <1>2, <1>7, FileNames DEF Trusted
<1>9. f \in {"cert", "key"} => AuthorityGood' = AuthorityGood
  BY <1>7, FileNames DEF AuthorityGood
<1>10. f \in One!KeyFile /\ q.under \in {Plain, keyring[f]} => One!Readable(f)'
  BY <1>2, <1>5, <1>7 DEF One!Readable
<1>11. ASSUME Knows(q), f = "cacert" PROVE Knows(r)'
  <2>1. One!Parses("cacert")' /\ file'["cacert"].pair = r.pair /\ r.ca = r.pair
    BY <1>1, <1>3, <1>4, <1>5, <1>7, <1>11 DEF Knows, Making
  <2>2. r.kind = "serve" => ~installed'
    BY <1>1, <1>2, <1>3, <1>4, <1>5, <1>11 DEF Knows, Making
  <2> QED
    BY <1>5, <1>11, <2>1, <2>2 DEF Knows, Making
<1>12. ASSUME Knows(q), f = "cert" PROVE Knows(r)'
  <2>1. AuthorityGood' /\ r.ca = file'["cacert"].pair
    BY <1>1, <1>3, <1>4, <1>5, <1>7, <1>9, <1>12, FileNames DEF Knows, Making
  <2>2. r.kind = "serve" => (installed' => Trusted')
    BY <1>1, <1>2, <1>3, <1>4, <1>5, <1>8, <1>12 DEF Knows, Making
  <2>3. /\ One!Parses("cert")' /\ file'["cert"].by = r.ca /\ file'["cert"].pair = r.pair
        /\ file'["cert"].host = r.host
    BY <1>5, <1>7, <1>12
  <2> QED
    BY <1>5, <1>12, <2>1, <2>2, <2>3 DEF Knows, Making
<1>13. ASSUME Knows(q), f = "cakey" PROVE Knows(r)'
  <2>1. /\ One!Parses("cacert") /\ file["cacert"].pair = q.pair /\ q.ca = q.pair
        /\ q.under \in {Plain, keyring[f]} /\ (q.kind = "serve" => ~installed)
    BY <1>1, <1>3, <1>4, <1>13, FileNames DEF Knows, Making
  <2>2. AuthorityGood' /\ r.ca = file'["cacert"].pair
    BY <1>5, <1>7, <1>10, <1>13, <2>1, FileNames DEF AuthorityGood
  <2> QED
    BY <1>2, <1>5, <1>13, <2>1, <2>2 DEF Knows, Making
<1>14. ASSUME Knows(q), f = "key" PROVE Knows(r)'
  <2>1. /\ AuthorityGood /\ q.ca = file["cacert"].pair
        /\ One!Parses("cert") /\ file["cert"].by = q.ca /\ file["cert"].pair = q.pair
        /\ file["cert"].host = q.host /\ q.under \in {Plain, keyring[f]}
        /\ q.kind = "serve" => (installed => Trusted)
    BY <1>1, <1>3, <1>4, <1>14, FileNames DEF Knows, Making
  <2>2. One!Consistent' /\ One!Covers(q.host)'
    <3>1. /\ One!Readable("key")' /\ file'["key"].pair = q.pair
      BY <1>5, <1>7, <1>10, <1>14, <2>1, FileNames
    <3>2. /\ One!Readable("cakey")' /\ One!Parses("cacert")'
          /\ file'["cakey"].pair = file'["cacert"].pair
      BY <1>9, <1>14, <2>1 DEF AuthorityGood
    <3>3. One!Parses("cert")' /\ file'["cert"] = file["cert"] /\ file'["cacert"] = file["cacert"]
      BY <1>7, <1>14, <2>1, FileNames
    <3> QED
      BY <2>1, <3>1, <3>2, <3>3 DEF One!Consistent, One!Covers
  <2> QED
    BY <1>2, <1>5, <1>8, <1>14, <2>1, <2>2 DEF Knows, Making
<1> QED
  BY <1>1, <1>2, <1>3, <1>5, <1>6, <1>7, <1>11, <1>12, <1>13, <1>14, KnowsIts, CertMove,
     FileNames

LEMMA SetKeyStep ==
  ASSUME NEW H, CertInv(H), NEW c \in H, One!SetKey(c)
  PROVE  CertInv(H)'
<1>1. One!Busy(c) /\ holding[c].step = "ring" /\ holding[c] \in Holding(H)
      /\ holding \in [H -> Holding(H)]
  BY HoldingTypes DEF One!SetKey, One!On, One!Busy
<1>2. PICK f \in One!KeyFile : f = holding[c].file
  BY <1>1, HoldingTypes DEF StepOK
<1>3. PICK r : r = [holding[c] EXCEPT !.step = "truncate", !.under = c]
  OBVIOUS
<1>4. r \in Holding(H)
  BY <1>1, <1>3 DEF Holding, CertSteps
<1>5. /\ holding' = [holding EXCEPT ![c] = r] /\ keyring' = [keyring EXCEPT ![f] = c]
      /\ UNCHANGED <<file, trusted, generated, accidents, sound, installed>>
  BY <1>1, <1>2, <1>3 DEF One!SetKey, One!Kept
<1>6. /\ r.step = "truncate" /\ r.file = f /\ r.pair = holding[c].pair /\ r # One!NoHolding
      /\ r.ca = holding[c].ca /\ r.under = c /\ r.alone = holding[c].alone
      /\ r.kind = holding[c].kind /\ r.host = holding[c].host
  BY <1>1, <1>2, <1>3, CertFacts DEF Holding
<1>7. StepOK(r)
  BY <1>1, <1>6, HoldingTypes DEF StepOK, Making
<1>8. CertTypes(H)'
  <2>1. /\ holding' \in [H -> Holding(H)]
        /\ keyring' \in [One!KeyFile -> H \cup {Gone}]
    BY <1>1, <1>4, <1>5 DEF CertInv, CertTypes
  <2>2. Holding(H)' = Holding(H) /\ \A g \in One!File : Content(H, g)' = Content(H, g)
    BY <1>5 DEF Holding, Content
  <2> QED
    BY <1>5, <2>1, <2>2 DEF CertInv, CertTypes
<1>9. keyring'[f] = c /\ \A g \in One!KeyFile \ {f} : keyring'[g] = keyring[g]
  BY <1>5 DEF CertInv, CertTypes
<1>10. /\ \A g \in One!File : One!Parses(g)' <=> One!Parses(g)
       /\ Trusted' = Trusted
  BY <1>5 DEF One!Parses, Trusted
<1>11. f = "key" => AuthorityGood' = AuthorityGood
  BY <1>5, <1>9, <1>10, FileNames DEF AuthorityGood, One!Readable, One!Parses
<1>12. ASSUME Knows(holding[c]) PROVE Knows(r)'
  <2>1. /\ r.kind = "serve" /\ f = "cakey" => ~installed'
        /\ r.kind = "serve" => (installed' => Trusted')
    BY <1>1, <1>2, <1>5, <1>6, <1>10, <1>12 DEF Knows, Making
  <2>2. f = "cakey" => One!Parses("cacert")' /\ file'["cacert"].pair = r.pair /\ r.ca = r.pair
    BY <1>1, <1>2, <1>5, <1>6, <1>10, <1>12, FileNames DEF Knows, Making
  <2>3. f = "key" => AuthorityGood' /\ r.ca = file'["cacert"].pair
    BY <1>1, <1>2, <1>5, <1>6, <1>11, <1>12, FileNames DEF Knows, Making
  <2>4. f = "key" => /\ One!Parses("cert")' /\ file'["cert"].by = r.ca
                     /\ file'["cert"].pair = r.pair /\ file'["cert"].host = r.host
    BY <1>1, <1>2, <1>5, <1>6, <1>10, <1>12, FileNames DEF Knows, Making
  <2>5. r.under \in {Plain, keyring'[r.file]}
    BY <1>6, <1>9
  <2> QED
    BY <1>6, <2>1, <2>2, <2>3, <2>4, <2>5, FileNames DEF Knows, Making
<1> QED
  BY <1>1, <1>5, <1>6, <1>7, <1>8, <1>12, KnowsIts, CertMove

LEMMA PrepareStep ==
  ASSUME NEW H, Apart(H), CertInv(H), NEW c \in H, One!PrepareKeys(c)
  PROVE  CertInv(H)'
<1>1. One!Busy(c) /\ holding[c].step = "prepare" /\ holding[c].kind = "install"
      /\ holding[c] \in Holding(H) /\ holding \in [H -> Holding(H)]
  BY HoldingTypes DEF One!PrepareKeys, One!On, One!Busy, StepOK
<1>2. UNCHANGED <<file, trusted, generated, accidents, sound, installed>>
  BY DEF One!PrepareKeys, One!Kept
<1>3. holding[c].alone => (sound => Intact)
  BY <1>1, KnowsIts DEF Knows
<1>4. CASE One!End(c) /\ UNCHANGED keyring
  BY <1>1, <1>2, <1>3, <1>4, HoldingTypes, CertReads DEF One!End
<1>5. CASE ~(One!End(c) /\ UNCHANGED keyring)
  <2>1. PICK f \in One!KeyFile : f = holding[c].file
    BY <1>1, HoldingTypes DEF StepOK
  <2>2. PICK r :
          r = IF f = "cakey" THEN [holding[c] EXCEPT !.file = "key"]
              ELSE [holding[c] EXCEPT !.step = "distrust"]
    OBVIOUS
  <2>3. /\ keyring' = IF keyring[f] = Gone THEN [keyring EXCEPT ![f] = c] ELSE keyring
        /\ holding' = [holding EXCEPT ![c] = r]
    <3>1. /\ keyring' = IF keyring[f] = Gone THEN [keyring EXCEPT ![f] = c] ELSE keyring
          /\ holding' = IF f = "cakey" THEN [holding EXCEPT ![c].file = "key"]
                          ELSE [holding EXCEPT ![c].step = "distrust"]
      BY <1>5, <2>1 DEF One!PrepareKeys
    <3> QED
      BY <1>1, <2>2, <3>1
  <2>4. r \in Holding(H)
    BY <1>1, <2>2, FileNames DEF Holding, CertSteps
  <2>5. /\ r.step \in {"prepare", "distrust"} /\ r.kind = "install"
        /\ r.alone = holding[c].alone /\ (r.step = "prepare" => r.file = "key")
    BY <1>1, <2>2 DEF Holding
  <2>6. StepOK(r) /\ r # One!NoHolding
    BY <2>5, CertFacts DEF StepOK, Making
  <2>7. /\ keyring' \in [One!KeyFile -> H \cup {Gone}]
        /\ \A g \in One!KeyFile : keyring[g] # Gone => keyring'[g] = keyring[g]
    BY <2>3 DEF CertInv, CertTypes
  <2>8. CertTypes(H)'
    <3>1. holding' \in [H -> Holding(H)]
      BY <1>1, <2>3, <2>4
    <3>2. Holding(H)' = Holding(H) /\ \A g \in One!File : Content(H, g)' = Content(H, g)
      BY <1>2 DEF Holding, Content
    <3> QED
      BY <1>2, <2>7, <3>1, <3>2 DEF CertInv, CertTypes
  <2>9. \A g \in One!KeyFile : One!Readable(g) => One!Readable(g)'
    <3>1. ASSUME NEW g \in One!KeyFile, One!Readable(g) PROVE One!Readable(g)'
      <4>1. One!Parses(g) /\ One!Parses(g)' /\ file'[g] = file[g]
        BY <1>2, <3>1 DEF One!Readable, One!Parses
      <4>2. file[g] \in Content(H, g)
        BY <4>1, FileNames DEF CertInv, CertTypes, One!Parses
      <4>3. file[g].under \in H \cup {Plain}
        BY <4>2, FileNames DEF Content
      <4>4. file[g].under = Plain \/ file[g].under = keyring[g]
        BY <3>1 DEF One!Readable
      <4>5. CASE file[g].under = Plain
        BY <4>1, <4>5 DEF One!Readable
      <4>6. CASE file[g].under = keyring[g] /\ file[g].under \in H
        <5>1. keyring[g] # Gone
          BY <4>6 DEF Apart
        <5> QED
          BY <2>7, <4>1, <4>6, <5>1 DEF One!Readable
      <4> QED
        BY <4>3, <4>4, <4>5, <4>6
    <3> QED
      BY <3>1
  <2>10. Intact => Intact'
    <3>1. \A g \in One!File : /\ One!Parses(g)' <=> One!Parses(g)
                              /\ One!There(g)' <=> One!There(g)
      BY <1>2 DEF One!Parses, One!There
    <3>2. One!Consistent => One!Consistent'
      BY <1>2, <2>9, <3>1, FileNames DEF One!Consistent
    <3> QED
      BY <1>2, <3>1, <3>2 DEF Intact, Trusted
  <2>11. ASSUME sound => Intact PROVE Knows(r)'
    BY <1>2, <2>5, <2>10, <2>11 DEF Knows, Making
  <2> QED
    BY <1>1, <1>2, <1>3, <2>3, <2>5, <2>6, <2>8, <2>11, CertMove
<1> QED
  BY <1>4, <1>5

LEMMA DistrustStep ==
  ASSUME NEW H, CertInv(H), NEW c \in H, One!Distrust(c)
  PROVE  CertInv(H)'
<1>1. One!Busy(c) /\ holding[c].step = "distrust" /\ holding[c].kind = "install"
      /\ holding[c] \in Holding(H) /\ holding \in [H -> Holding(H)]
  BY HoldingTypes DEF One!Distrust, One!On, One!Busy, StepOK
<1>2. PICK r : r = [holding[c] EXCEPT !.step = "remove", !.file = "cert"]
  OBVIOUS
<1>3. r \in Holding(H)
  BY <1>1, <1>2, FileNames DEF Holding, CertSteps
<1>4. /\ r.step = "remove" /\ r.kind = "install" /\ r.alone = holding[c].alone
      /\ r # One!NoHolding
  BY <1>1, <1>2, CertFacts DEF Holding
<1>5. /\ holding' = [holding EXCEPT ![c] = r] /\ trusted' \subseteq trusted
      /\ UNCHANGED <<file, keyring, generated, accidents, sound, installed>>
  BY <1>1, <1>2 DEF One!Distrust, One!Kept
<1>6. CertTypes(H)'
  <2>1. holding' \in [H -> Holding(H)] /\ trusted' \subseteq 1 .. generated
    BY <1>1, <1>3, <1>5 DEF CertInv, CertTypes
  <2>2. Holding(H)' = Holding(H) /\ \A g \in One!File : Content(H, g)' = Content(H, g)
    BY <1>5 DEF Holding, Content
  <2> QED
    BY <1>5, <2>1, <2>2 DEF CertInv, CertTypes
<1>7. StepOK(r) /\ Knows(r)'
  BY <1>4 DEF StepOK, Knows, Making
<1> QED
  BY <1>1, <1>4, <1>5, <1>6, <1>7, CertMove

LEMMA RemoveFilesStep ==
  ASSUME NEW H, CertInv(H), NEW c \in H, One!RemoveFiles(c)
  PROVE  CertInv(H)'
<1>1. One!Busy(c) /\ holding[c].step = "remove" /\ holding[c].kind = "install"
      /\ holding[c] \in Holding(H) /\ holding \in [H -> Holding(H)]
  BY HoldingTypes DEF One!RemoveFiles, One!On, One!Busy, StepOK
<1>2. PICK f \in One!File : f = holding[c].file
  BY <1>1 DEF Holding
<1>3. /\ file' = [file EXCEPT ![f] = Gone]
      /\ UNCHANGED <<keyring, trusted, generated, accidents, sound, installed>>
  BY <1>2 DEF One!RemoveFiles, One!Kept
<1>4. PICK label \in {"remove", "authority"}, next \in One!File :
        holding' = [holding EXCEPT ![c] = [holding[c] EXCEPT !.step = label, !.file = next]]
  <2>1. holding' = CASE f = "cert"   -> [holding EXCEPT ![c].file = "key"]
                     [] f = "key"    -> [holding EXCEPT ![c].file = "cacert"]
                     [] f = "cacert" -> [holding EXCEPT ![c].file = "cakey"]
                     [] f = "cakey"  -> [holding EXCEPT ![c].step = "authority"]
    BY <1>2 DEF One!RemoveFiles
  <2>2. \A g \in One!File :
          [holding EXCEPT ![c].file = g]
            = [holding EXCEPT ![c] = [holding[c] EXCEPT !.step = "remove", !.file = g]]
    BY <1>1 DEF Holding
  <2>3. [holding EXCEPT ![c].step = "authority"]
          = [holding EXCEPT ![c] = [holding[c] EXCEPT !.step = "authority", !.file = f]]
    BY <1>1, <1>2 DEF Holding
  <2>4. CASE f = "cakey"
    BY <2>1, <2>3, <2>4
  <2>5. CASE f = "cert"
    BY <2>1, <2>2, <2>5, FileNames
  <2>6. CASE f = "key"
    BY <2>1, <2>2, <2>6, FileNames
  <2>7. CASE f = "cacert"
    BY <2>1, <2>2, <2>7, FileNames
  <2> QED
    BY <2>4, <2>5, <2>6, <2>7, FileNames
<1>5. PICK r : r = [holding[c] EXCEPT !.step = label, !.file = next]
  OBVIOUS
<1>6. r \in Holding(H) /\ holding' = [holding EXCEPT ![c] = r]
  BY <1>1, <1>4, <1>5 DEF Holding, CertSteps
<1>7. /\ r.step = label /\ r.kind = "install" /\ r.alone = holding[c].alone
      /\ r # One!NoHolding
  BY <1>1, <1>5, CertFacts DEF Holding
<1>8. CertTypes(H)'
  <2>1. Gone \in Content(H, f) \cup {Gone, Torn}
    OBVIOUS
  <2> QED
    BY <1>3, <1>6, <2>1, OneFile
<1>9. StepOK(r) /\ Knows(r)'
  BY <1>7 DEF StepOK, Knows, Making
<1> QED
  BY <1>1, <1>3, <1>6, <1>7, <1>8, <1>9, CertMove

LEMMA TrustStep ==
  ASSUME NEW H, CertInv(H), NEW c \in H, One!Trust(c)
  PROVE  CertInv(H)'
<1>1. One!Busy(c) /\ holding[c].step = "trust" /\ holding[c].kind = "install"
      /\ holding[c] \in Holding(H) /\ holding \in [H -> Holding(H)]
  BY HoldingTypes DEF One!Trust, One!On, One!Busy, StepOK
<1>2. /\ holding' = [holding EXCEPT ![c] = One!NoHolding]
      /\ trusted' = IF One!Parses("cacert") THEN trusted \cup {file["cacert"].pair} ELSE trusted
      /\ sound' = (sound \/ holding[c].alone) /\ installed' = (installed \/ holding[c].alone)
      /\ UNCHANGED <<file, keyring, generated, accidents>>
  BY DEF One!Trust, One!End
<1>3. CertTypes(H)'
  <2>1. holding' \in [H -> Holding(H)]
    BY <1>1, <1>2, HoldingTypes
  <2>2. Holding(H)' = Holding(H) /\ \A g \in One!File : Content(H, g)' = Content(H, g)
    BY <1>2 DEF Holding, Content
  <2>3. One!Parses("cacert") => file["cacert"].pair \in 1 .. generated
    <3>1. One!Parses("cacert") => file["cacert"] \in Content(H, "cacert")
      BY FileNames DEF CertInv, CertTypes, One!Parses
    <3> QED
      BY <3>1 DEF Content
  <2>4. trusted' \subseteq 1 .. generated
    BY <1>2, <2>3 DEF CertInv, CertTypes
  <2>5. sound' \in BOOLEAN /\ installed' \in BOOLEAN
    BY <1>2
  <2> QED
    BY <1>2, <2>1, <2>2, <2>4, <2>5 DEF CertInv, CertTypes
<1>4. StepTypes(H)'
  <2>1. \A d \in H : holding'[d] = holding[d] \/ holding'[d] = One!NoHolding
    BY <1>1, <1>2
  <2> QED
    BY <2>1, HoldingTypes DEF CertInv, StepTypes, StepOK
<1>5. CASE ~holding[c].alone
  <2>1. ~sound /\ ~installed /\ ~sound' /\ ~installed'
    BY <1>2, <1>5 DEF CertInv, AloneInv
  <2>2. \A d \in H : One!Busy(d)' => d # c /\ One!Busy(d) /\ holding'[d] = holding[d]
    BY <1>1, <1>2, CertFacts DEF One!Busy, One!On
  <2>3. \A d \in H : One!Busy(d)' => ~holding'[d].alone
    BY <1>1, <2>2 DEF CertInv, AloneInv
  <2> QED
    BY <1>3, <1>4, <2>1, <2>3 DEF CertInv, AloneInv, KnowInv
<1>6. CASE holding[c].alone
  <2>1. One!Consistent
    BY <1>1, <1>6, KnowsIts DEF Knows
  <2>2. One!Consistent' /\ Trusted'
    BY <1>2, <2>1 DEF One!Consistent, One!Readable, One!Parses, Trusted
  <2>3. \A d \in H : ~One!Busy(d)' /\ holding'[d] = One!NoHolding
    <3>1. ASSUME NEW d \in H, d # c PROVE holding[d] = One!NoHolding
      <4>1. ~One!Busy(d)
        BY <1>1, <1>6, <3>1 DEF CertInv, AloneInv
      <4> QED
        BY <4>1 DEF One!Busy, One!On, CertInv, StepTypes, StepOK
    <3>2. \A d \in H : holding'[d] = One!NoHolding
      BY <1>1, <1>2, <3>1
    <3> QED
      BY <3>2, CertFacts DEF One!Busy, One!On
  <2>4. AloneInv(H)'
    BY <1>2, <1>6, <2>3, CertFacts DEF AloneInv
  <2> QED
    BY <1>3, <1>4, <2>2, <2>3, <2>4 DEF CertInv, KnowInv, Intact
<1> QED
  BY <1>5, <1>6

\* A command has begun.
Entered(H, c, q, busy) ==
  /\ busy = {d \in H : One!Busy(d)} /\ One!On(c, "idle")
  /\ holding' = [d \in H |->
        IF d = c THEN [q EXCEPT !.alone = (busy = {})]
        ELSE IF d \in busy THEN [holding[d] EXCEPT !.alone = FALSE] ELSE holding[d]]
  /\ sound' = (sound /\ busy = {}) /\ installed' = (installed /\ busy = {})
  /\ UNCHANGED <<file, keyring, trusted, generated, accidents>>

LEMMA EnterStep ==
  ASSUME NEW H, CertInv(H), NEW c \in H, NEW q \in Holding(H), StepOK(q),
         q.step \in {"look", "prepare", "distrust"}, NEW busy, Entered(H, c, q, busy)
  PROVE  CertInv(H)'
<1> USE DEF Entered
<1>1. PICK r : r = [q EXCEPT !.alone = (busy = {})]
  OBVIOUS
<1>2. /\ r \in Holding(H) /\ r.alone = (busy = {}) /\ r.step = q.step /\ r.kind = q.kind
      /\ r.file = q.file
  <2>1. (busy = {}) \in BOOLEAN
    OBVIOUS
  <2> QED
    BY <1>1, <2>1 DEF Holding
<1>3. StepOK(r)
  BY <1>2 DEF StepOK, Making
<1>4. holding'[c] = r
  BY <1>1
<1>5. ASSUME NEW d \in H, d # c
      PROVE  /\ holding'[d] \in Holding(H) /\ StepOK(holding'[d])
             /\ One!Busy(d)' => One!Busy(d) /\ ~holding'[d].alone /\ busy # {}
             /\ busy = {} => holding'[d] = holding[d]
  <2>1. holding[d] \in Holding(H) /\ StepOK(holding[d])
    BY HoldingTypes
  <2>2. CASE d \in busy
    <3>1. holding'[d] = [holding[d] EXCEPT !.alone = FALSE] /\ One!Busy(d)
      BY <1>5, <2>2
    <3>2. /\ holding'[d] \in Holding(H) /\ ~holding'[d].alone
          /\ holding'[d].step = holding[d].step /\ holding'[d].file = holding[d].file
          /\ holding'[d].kind = holding[d].kind /\ holding'[d].pair = holding[d].pair
      BY <2>1, <3>1 DEF Holding
    <3>3. StepOK(holding'[d])
      BY <2>1, <3>1, <3>2 DEF StepOK, One!Busy, One!On
    <3> QED
      BY <2>2, <3>1, <3>2, <3>3
  <2>3. CASE d \notin busy
    <3>1. holding'[d] = holding[d] /\ ~One!Busy(d)
      BY <1>5, <2>3
    <3> QED
      BY <2>1, <3>1 DEF One!Busy, One!On
  <2> QED
    BY <2>2, <2>3
<1>6. CertTypes(H)'
  <2>1. holding' \in [H -> Holding(H)]
    BY <1>2, <1>4, <1>5
  <2>2. Holding(H)' = Holding(H) /\ \A g \in One!File : Content(H, g)' = Content(H, g)
    BY DEF Holding, Content
  <2> QED
    BY <2>1, <2>2 DEF CertInv, CertTypes
<1>7. StepTypes(H)'
  <2>1. \A d \in H : StepOK(holding'[d])
    BY <1>3, <1>4, <1>5
  <2> QED
    BY <2>1 DEF StepTypes, StepOK
<1>8. AloneInv(H)'
  <2>1. ASSUME NEW a \in H, NEW b \in H, One!Busy(a)', holding'[a].alone, One!Busy(b)'
        PROVE  a = b
    <3>1. a = c
      BY <1>5, <2>1
    <3>2. busy = {}
      BY <1>2, <1>4, <2>1, <3>1
    <3> QED
      BY <1>5, <2>1, <3>1, <3>2
  <2>2. sound' => \A d \in H : holding'[d].alone
    BY <1>2, <1>4, <1>5 DEF CertInv, AloneInv
  <2>3. installed' => sound'
    BY DEF CertInv, AloneInv
  <2> QED
    BY <2>1, <2>2, <2>3 DEF AloneInv
<1>9. KnowInv(H)'
  <2>1. One!Busy(c)'
    BY <1>2, <1>4 DEF One!Busy, One!On
  <2>2. ASSUME NEW d \in H, One!Busy(d)', holding'[d].alone PROVE Knows(holding[d])'
    <3>1. d = c /\ busy = {}
      BY <1>2, <1>4, <1>5, <2>2
    <3>2. sound' => Intact
      BY <3>1 DEF CertInv, KnowInv
    <3>3. Intact => Intact'
      BY <3>1 DEF Intact, One!Consistent, One!There, One!Readable, One!Parses, Trusted
    <3>4. Knows(r)'
      BY <1>2, <3>2, <3>3 DEF Knows, Making
    <3> QED
      BY <1>4, <3>1, <3>4
  <2> QED
    BY <2>1, <2>2 DEF KnowInv
<1> QED
  BY <1>6, <1>7, <1>8, <1>9 DEF CertInv

LEMMA CutStep ==
  ASSUME NEW H, CertInv(H), NEW c \in H, One!Busy(c), accidents' = accidents + 1,
         sound' = FALSE, installed' = FALSE,
         holding' = [holding EXCEPT ![c] = One!NoHolding],
         UNCHANGED <<file, keyring, trusted, generated>>
  PROVE  CertInv(H)'
<1>1. holding \in [H -> Holding(H)]
  BY HoldingTypes
<1>2. CertTypes(H)'
  <2>1. holding' \in [H -> Holding(H)]
    BY <1>1, HoldingTypes
  <2>2. Holding(H)' = Holding(H) /\ \A g \in One!File : Content(H, g)' = Content(H, g)
    BY DEF Holding, Content
  <2>3. accidents' \in Nat
    <3>1. accidents \in Nat
      BY DEF CertInv, CertTypes
    <3> QED
      BY <3>1
  <2>4. sound' \in BOOLEAN /\ installed' \in BOOLEAN
    OBVIOUS
  <2> QED
    BY <2>1, <2>2, <2>3, <2>4 DEF CertInv, CertTypes
<1>3. \A d \in H : holding'[d] = holding[d] \/ holding'[d] = One!NoHolding
  BY <1>1
<1>4. StepTypes(H)'
  BY <1>3, HoldingTypes DEF CertInv, StepTypes, StepOK
<1>5. \A d \in H : One!Busy(d)' => d # c /\ One!Busy(d) /\ holding'[d] = holding[d]
  BY <1>1, CertFacts DEF One!Busy, One!On
<1>6. \A d \in H : One!Busy(d)' => ~holding'[d].alone
  BY <1>5 DEF CertInv, AloneInv
<1> QED
  BY <1>2, <1>4, <1>6 DEF CertInv, AloneInv, KnowInv

LEMMA HandStep ==
  ASSUME NEW H, CertInv(H), accidents' = accidents + 1, sound' = FALSE, installed' = FALSE,
         \/ /\ \E f \in One!File : file' = [file EXCEPT ![f] = Gone]
            /\ UNCHANGED keyring
         \/ /\ UNCHANGED file
            /\ \E f \in One!KeyFile : keyring' = [keyring EXCEPT ![f] = Gone],
         holding' = [d \in H |-> IF One!Busy(d) THEN [holding[d] EXCEPT !.alone = FALSE]
                                 ELSE holding[d]],
         UNCHANGED <<trusted, generated>>
  PROVE  CertInv(H)'
<1>1. ASSUME NEW d \in H
      PROVE  /\ holding'[d] \in Holding(H) /\ StepOK(holding'[d])
             /\ One!Busy(d)' => ~holding'[d].alone
  <2>1. holding[d] \in Holding(H) /\ StepOK(holding[d])
    BY HoldingTypes
  <2>2. CASE One!Busy(d)
    <3>1. holding'[d] = [holding[d] EXCEPT !.alone = FALSE]
      BY <2>2
    <3>2. /\ holding'[d] \in Holding(H) /\ ~holding'[d].alone
          /\ holding'[d].step = holding[d].step /\ holding'[d].file = holding[d].file
          /\ holding'[d].kind = holding[d].kind /\ holding'[d].pair = holding[d].pair
      BY <2>1, <3>1 DEF Holding
    <3>3. StepOK(holding'[d])
      BY <2>1, <2>2, <3>1, <3>2 DEF StepOK, One!Busy, One!On
    <3> QED
      BY <3>2, <3>3
  <2>3. CASE ~One!Busy(d)
    <3>1. holding'[d] = holding[d]
      BY <2>3
    <3> QED
      BY <2>1, <2>3, <3>1 DEF One!Busy, One!On
  <2> QED
    BY <2>2, <2>3
<1>2. CertTypes(H)'
  <2>1. holding' \in [H -> Holding(H)]
    BY <1>1
  <2>2. Holding(H)' = Holding(H) /\ \A g \in One!File : Content(H, g)' = Content(H, g)
    BY DEF Holding, Content
  <2>3. /\ DOMAIN file' = One!File
        /\ \A g \in One!File : file'[g] \in Content(H, g) \cup {Gone, Torn}
        /\ keyring' \in [One!KeyFile -> H \cup {Gone}]
    BY DEF CertInv, CertTypes
  <2>4. accidents' \in Nat
    <3>1. accidents \in Nat
      BY DEF CertInv, CertTypes
    <3> QED
      BY <3>1
  <2>5. sound' \in BOOLEAN /\ installed' \in BOOLEAN
    OBVIOUS
  <2> QED
    BY <2>1, <2>2, <2>3, <2>4, <2>5 DEF CertInv, CertTypes
<1>3. StepTypes(H)'
  BY <1>1 DEF StepTypes, StepOK
<1> QED
  BY <1>1, <1>2, <1>3 DEF CertInv, AloneInv, KnowInv

\* How a command begins.
LEMMA Begun ==
  ASSUME NEW H, CertInv(H)
  PROVE  /\ \A h \in Site \cup {Gone} :
              LET q == [One!NoHolding EXCEPT !.step = "look", !.host = h]
              IN  q \in Holding(H) /\ StepOK(q) /\ q.step = "look"
         /\ \A p \in {"plain", "encrypted"} :
              LET q == [One!NoHolding EXCEPT
                          !.step = IF p = "plain" THEN "distrust" ELSE "prepare",
                          !.kind = "install", !.policy = p, !.file = "cakey"]
              IN  q \in Holding(H) /\ StepOK(q) /\ q.step \in {"prepare", "distrust"}
<1>1. 0 \in 0 .. generated
  BY DEF CertInv, CertTypes
<1>2. ASSUME NEW h \in Site \cup {Gone},
             NEW q, q = [One!NoHolding EXCEPT !.step = "look", !.host = h]
      PROVE  q \in Holding(H) /\ StepOK(q) /\ q.step = "look"
  <2>1. q = [step |-> "look", kind |-> "serve", host |-> h, policy |-> "flexible",
             file |-> "cacert", ca |-> 0, pair |-> 0, under |-> Plain, alone |-> TRUE]
    BY <1>2, CertFacts
  <2> QED
    BY <1>1, <2>1, FileNames DEF Holding, CertSteps, StepOK, Making
<1>3. ASSUME NEW p \in {"plain", "encrypted"}, NEW q, NEW label,
             label = (IF p = "plain" THEN "distrust" ELSE "prepare"),
             q = [One!NoHolding EXCEPT !.step = label, !.kind = "install", !.policy = p,
                                       !.file = "cakey"]
      PROVE  q \in Holding(H) /\ StepOK(q) /\ q.step \in {"prepare", "distrust"}
  <2>1. q = [step |-> label, kind |-> "install", host |-> Gone, policy |-> p,
             file |-> "cakey", ca |-> 0, pair |-> 0, under |-> Plain, alone |-> TRUE]
    BY <1>3, CertFacts
  <2>2. label \in {"distrust", "prepare"} /\ p \in {"flexible", "plain", "encrypted"}
    BY <1>3
  <2>3. q \in Holding(H)
    BY <1>1, <2>1, <2>2, FileNames DEF Holding, CertSteps
  <2>4. q.step = label /\ q.kind = "install" /\ q.file = "cakey"
    BY <2>1
  <2> QED
    BY <2>2, <2>3, <2>4, FileNames DEF StepOK, Making
<1> QED
  BY <1>2, <1>3

LEMMA CertStutter ==
  ASSUME NEW H, CertInv(H), UNCHANGED certificateVars
  PROVE  CertInv(H)'
<1>1. CertTypes(H)'
  BY DEF certificateVars, CertInv, CertTypes, Holding, Content
<1>2. StepTypes(H)' /\ AloneInv(H)'
  BY DEF certificateVars, CertInv, StepTypes, StepOK, AloneInv, One!Busy, One!On
<1>3. Intact' = Intact
  BY DEF certificateVars, Intact, One!Consistent, One!There, One!Readable, One!Parses, Trusted
<1>4. \A r : Knows(r)' = Knows(r)
  BY <1>3 DEF certificateVars, Knows, AuthorityGood, One!Consistent, One!Covers,
              One!Readable, One!Parses, Trusted
<1>5. KnowInv(H)'
  BY <1>3, <1>4 DEF certificateVars, CertInv, KnowInv, One!Busy, One!On
<1> QED
  BY <1>1, <1>2, <1>5 DEF CertInv

\* What a command does by itself is the same whoever else there is.
LEMMA SameSteps ==
  ASSUME NEW c
  PROVE  /\ Two!Look(c) => One!Look(c)
         /\ Two!LoadAuthority(c) => One!LoadAuthority(c)
         /\ Two!FindKey(c) => One!FindKey(c)
         /\ Two!SetKey(c) => One!SetKey(c)
         /\ Two!Truncate(c) => One!Truncate(c)
         /\ Two!Write(c) => One!Write(c)
         /\ Two!Materialize(c) => One!Materialize(c)
         /\ Two!LaunchHTTPS(c) => One!LaunchHTTPS(c)
         /\ Two!PrepareKeys(c) => One!PrepareKeys(c)
         /\ Two!Distrust(c) => One!Distrust(c)
         /\ Two!RemoveFiles(c) => One!RemoveFiles(c)
         /\ Two!Trust(c) => One!Trust(c)
<1>2. Two!Look(c) => One!Look(c)
  BY DEF Two!Covers, One!Covers, Two!HasAuthority, One!HasAuthority, Two!Kept, One!Kept,
         Two!Look, One!Look, Two!On, One!On, Two!Parses, One!Parses, Two!Proceed,
         One!Proceed, Two!There, One!There
<1>3. Two!LoadAuthority(c) => One!LoadAuthority(c)
  BY DEF Two!End, One!End, Two!Kept, One!Kept, Two!LoadAuthority, One!LoadAuthority,
         Two!NoHolding, One!NoHolding, Two!On, One!On, Two!Parses, One!Parses,
         Two!Readable, One!Readable
<1>4. Two!FindKey(c) => One!FindKey(c)
  BY DEF Two!FindKey, One!FindKey, Two!Kept, One!Kept, Two!On, One!On
<1>5. Two!SetKey(c) => One!SetKey(c)
  BY DEF Two!Kept, One!Kept, Two!On, One!On, Two!SetKey, One!SetKey
<1>6. Two!Truncate(c) => One!Truncate(c)
  BY DEF Two!Kept, One!Kept, Two!On, One!On, Two!Proceed, One!Proceed, Two!Truncate,
         One!Truncate
<1>7. Two!Write(c) => One!Write(c)
  BY DEF Two!Kept, One!Kept, Two!KeyFile, One!KeyFile, Two!On, One!On, Two!Write,
         One!Write
<1>8. Two!Materialize(c) => One!Materialize(c)
  BY DEF Two!End, One!End, Two!Kept, One!Kept, Two!Materialize, One!Materialize,
         Two!NoHolding, One!NoHolding, Two!On, One!On, Two!Parses, One!Parses,
         Two!Readable, One!Readable
<1>9. Two!LaunchHTTPS(c) => One!LaunchHTTPS(c)
  BY DEF Two!End, One!End, Two!Kept, One!Kept, Two!LaunchHTTPS, One!LaunchHTTPS,
         Two!NoHolding, One!NoHolding, Two!On, One!On
<1>10. Two!PrepareKeys(c) => One!PrepareKeys(c)
  BY DEF Two!End, One!End, Two!Kept, One!Kept, Two!NoHolding, One!NoHolding, Two!On,
         One!On, Two!PrepareKeys, One!PrepareKeys
<1>11. Two!Distrust(c) => One!Distrust(c)
  BY DEF Two!Distrust, One!Distrust, Two!Kept, One!Kept, Two!On, One!On, Two!Parses,
         One!Parses
<1>12. Two!RemoveFiles(c) => One!RemoveFiles(c)
  BY DEF Two!Kept, One!Kept, Two!On, One!On, Two!RemoveFiles, One!RemoveFiles
<1>13. Two!Trust(c) => One!Trust(c)
  BY DEF Two!End, One!End, Two!NoHolding, One!NoHolding, Two!On, One!On, Two!Parses,
         One!Parses, Two!Trust, One!Trust
<1> QED
  BY <1>2, <1>3, <1>4, <1>5, <1>6, <1>7, <1>8, <1>9, <1>10, <1>11, <1>12, <1>13

\* What a command does by itself, and whatever it does when it is the only one.
OwnStep(c) ==
  \/ One!Look(c) \/ One!LoadAuthority(c) \/ One!FindKey(c) \/ One!SetKey(c)
  \/ One!Truncate(c) \/ One!Write(c) \/ One!Materialize(c) \/ One!LaunchHTTPS(c)
  \/ One!PrepareKeys(c) \/ One!Distrust(c) \/ One!RemoveFiles(c) \/ One!Trust(c)

LEMMA OwnStepKeeps ==
  ASSUME NEW H, Apart(H), CertInv(H), NEW c \in H, OwnStep(c)
  PROVE  CertInv(H)'
  BY LookStep, LoadAuthorityStep, FindKeyStep, SetKeyStep, TruncateStep, WriteStep,
     MaterializeStep, LaunchStep, PrepareStep, DistrustStep, RemoveFilesStep, TrustStep
  DEF OwnStep

LEMMA LoneStep ==
  ASSUME CertInv(Lone), [One!CertificatesNext]_certificateVars
  PROVE  CertInv(Lone)'
<1>1. Apart(Lone)
  BY BothApart
<1>2. ASSUME NEW c \in Lone, One!BeginServe(c) PROVE CertInv(Lone)'
  <2>1. /\ UNCHANGED <<file, keyring, trusted, generated, accidents>>
        /\ \E h \in Site \cup {Gone} :
             One!Enter(c, [One!NoHolding EXCEPT !.step = "look", !.host = h])
    BY <1>2 DEF One!BeginServe
  <2>2. PICK h \in Site \cup {Gone} :
             One!Enter(c, [One!NoHolding EXCEPT !.step = "look", !.host = h])
    BY <2>1
  <2>3. PICK q : q = [One!NoHolding EXCEPT !.step = "look", !.host = h]
    OBVIOUS
  <2>4. PICK busy : busy = {d \in Lone : One!Busy(d)}
    OBVIOUS
  <2>5. q \in Holding(Lone) /\ StepOK(q) /\ q.step \in {"look", "prepare", "distrust"}
    BY <2>3, Begun
  <2>6. Entered(Lone, c, q, busy)
    BY <2>1, <2>2, <2>3, <2>4 DEF One!Enter, Entered
  <2> QED
    BY <2>5, <2>6, EnterStep
<1>3. ASSUME NEW c \in Lone, One!BeginInstall(c) PROVE CertInv(Lone)'
  <2>1. /\ UNCHANGED <<file, keyring, trusted, generated, accidents>>
        /\ \E p \in {"plain", "encrypted"} :
             One!Enter(c, [One!NoHolding EXCEPT
               !.step = IF p = "plain" THEN "distrust" ELSE "prepare",
               !.kind = "install", !.policy = p, !.file = "cakey"])
    BY <1>3 DEF One!BeginInstall
  <2>2. PICK p \in {"plain", "encrypted"} :
             One!Enter(c, [One!NoHolding EXCEPT
               !.step = IF p = "plain" THEN "distrust" ELSE "prepare",
               !.kind = "install", !.policy = p, !.file = "cakey"])
    BY <2>1
  <2>3. PICK q : q = [One!NoHolding EXCEPT
               !.step = IF p = "plain" THEN "distrust" ELSE "prepare",
               !.kind = "install", !.policy = p, !.file = "cakey"]
    OBVIOUS
  <2>4. PICK busy : busy = {d \in Lone : One!Busy(d)}
    OBVIOUS
  <2>5. q \in Holding(Lone) /\ StepOK(q) /\ q.step \in {"look", "prepare", "distrust"}
    BY <2>3, Begun
  <2>6. Entered(Lone, c, q, busy)
    BY <2>1, <2>2, <2>3, <2>4 DEF One!Enter, Entered
  <2> QED
    BY <2>5, <2>6, EnterStep
<1>4. ASSUME NEW c \in Lone, One!NewAuthority(c) \/ One!IssueServer(c) PROVE CertInv(Lone)'
  <2>1. CASE One!NewAuthority(c)
    BY <2>1, GenerateStep DEF One!NewAuthority, One!Generate
  <2>2. CASE One!IssueServer(c)
    BY <2>2, GenerateStep DEF One!IssueServer, One!Generate
  <2> QED
    BY <1>4, <2>1, <2>2
<1>5. ASSUME NEW c \in Lone, One!CutOff(c) PROVE CertInv(Lone)'
  BY <1>5, CutStep DEF One!CutOff, One!Accident, One!End
<1>6. CASE One!DeleteByHand
  BY <1>6, HandStep DEF One!DeleteByHand, One!Accident
<1>7. CASE UNCHANGED certificateVars
  BY <1>7, CertStutter
<1>8. ASSUME NEW c \in Lone, OwnStep(c) PROVE CertInv(Lone)'
  BY <1>1, <1>8, OwnStepKeeps
<1>9. CASE One!CertificatesNext
  BY <1>2, <1>3, <1>4, <1>5, <1>6, <1>8, <1>9 DEF One!CertificatesNext, OwnStep
<1> QED
  BY <1>7, <1>9

LEMMA TogetherStep ==
  ASSUME CertInv(Holder), [Two!CertificatesNext]_certificateVars
  PROVE  CertInv(Holder)'
<1>1. Apart(Holder)
  BY BothApart
<1>2. ASSUME NEW c \in Holder, Two!BeginServe(c) PROVE CertInv(Holder)'
  <2>1. /\ UNCHANGED <<file, keyring, trusted, generated, accidents>>
        /\ \E h \in Site \cup {Gone} :
             Two!Enter(c, [Two!NoHolding EXCEPT !.step = "look", !.host = h])
    BY <1>2 DEF Two!BeginServe
  <2>2. PICK h \in Site \cup {Gone} :
             Two!Enter(c, [Two!NoHolding EXCEPT !.step = "look", !.host = h])
    BY <2>1
  <2>3. PICK q : q = [One!NoHolding EXCEPT !.step = "look", !.host = h]
    OBVIOUS
  <2>4. PICK busy : busy = {d \in Holder : One!Busy(d)}
    OBVIOUS
  <2>5. q \in Holding(Holder) /\ StepOK(q) /\ q.step \in {"look", "prepare", "distrust"}
    BY <2>3, Begun
  <2>6. Two!NoHolding = One!NoHolding
    BY DEF Two!NoHolding, One!NoHolding
  <2>7. Entered(Holder, c, q, busy)
    BY <2>1, <2>2, <2>3, <2>4, <2>6
    DEF Two!Enter, Two!On, One!On, Two!Busy, One!Busy, Entered
  <2> QED
    BY <2>5, <2>7, EnterStep
<1>3. ASSUME NEW c \in Holder, Two!BeginInstall(c) PROVE CertInv(Holder)'
  <2>1. /\ UNCHANGED <<file, keyring, trusted, generated, accidents>>
        /\ \E p \in {"plain", "encrypted"} :
             Two!Enter(c, [Two!NoHolding EXCEPT
               !.step = IF p = "plain" THEN "distrust" ELSE "prepare",
               !.kind = "install", !.policy = p, !.file = "cakey"])
    BY <1>3 DEF Two!BeginInstall
  <2>2. PICK p \in {"plain", "encrypted"} :
             Two!Enter(c, [Two!NoHolding EXCEPT
               !.step = IF p = "plain" THEN "distrust" ELSE "prepare",
               !.kind = "install", !.policy = p, !.file = "cakey"])
    BY <2>1
  <2>3. PICK q : q = [One!NoHolding EXCEPT
               !.step = IF p = "plain" THEN "distrust" ELSE "prepare",
               !.kind = "install", !.policy = p, !.file = "cakey"]
    OBVIOUS
  <2>4. PICK busy : busy = {d \in Holder : One!Busy(d)}
    OBVIOUS
  <2>5. q \in Holding(Holder) /\ StepOK(q) /\ q.step \in {"look", "prepare", "distrust"}
    BY <2>3, Begun
  <2>6. Two!NoHolding = One!NoHolding
    BY DEF Two!NoHolding, One!NoHolding
  <2>7. Entered(Holder, c, q, busy)
    BY <2>1, <2>2, <2>3, <2>4, <2>6
    DEF Two!Enter, Two!On, One!On, Two!Busy, One!Busy, Entered
  <2> QED
    BY <2>5, <2>7, EnterStep
<1>4. ASSUME NEW c \in Holder, Two!NewAuthority(c) \/ Two!IssueServer(c) PROVE CertInv(Holder)'
  <2>1. CASE Two!NewAuthority(c)
    BY <2>1, GenerateStep DEF Two!NewAuthority, Two!Generate, Two!On, One!On
  <2>2. CASE Two!IssueServer(c)
    BY <2>2, GenerateStep DEF Two!IssueServer, Two!Generate, Two!On, One!On
  <2> QED
    BY <1>4, <2>1, <2>2
<1>5. ASSUME NEW c \in Holder, Two!CutOff(c) PROVE CertInv(Holder)'
  <2>1. /\ One!Busy(c) /\ accidents' = accidents + 1 /\ sound' = FALSE /\ installed' = FALSE
        /\ holding' = [holding EXCEPT ![c] = One!NoHolding]
        /\ UNCHANGED <<file, keyring, trusted, generated>>
    BY <1>5 DEF Two!CutOff, Two!Accident, Two!End, Two!Busy, One!Busy, Two!On, One!On,
                Two!NoHolding, One!NoHolding
  <2> QED
    BY <2>1, CutStep
<1>6. CASE Two!DeleteByHand
  <2>1. /\ accidents' = accidents + 1 /\ sound' = FALSE /\ installed' = FALSE
        /\ \/ /\ \E f \in One!File : file' = [file EXCEPT ![f] = Gone]
              /\ UNCHANGED keyring
           \/ /\ UNCHANGED file
              /\ \E f \in One!KeyFile : keyring' = [keyring EXCEPT ![f] = Gone]
        /\ UNCHANGED <<trusted, generated>>
    BY <1>6 DEF Two!DeleteByHand, Two!Accident, Two!File, One!File, Two!KeyFile, One!KeyFile
  <2>2. holding' = [d \in Holder |-> IF One!Busy(d) THEN [holding[d] EXCEPT !.alone = FALSE]
                                     ELSE holding[d]]
    BY <1>6 DEF Two!DeleteByHand, Two!Busy, One!Busy, Two!On, One!On
  <2> QED
    BY <2>1, <2>2, HandStep
<1>7. CASE UNCHANGED certificateVars
  BY <1>7, CertStutter
<1>8. ASSUME NEW c \in Holder, OwnStep(c) PROVE CertInv(Holder)'
  BY <1>1, <1>8, OwnStepKeeps
<1>9. CASE Two!CertificatesNext
  BY <1>2, <1>3, <1>4, <1>5, <1>6, <1>8, <1>9, SameSteps DEF Two!CertificatesNext, OwnStep
<1> QED
  BY <1>7, <1>9

LEMMA CertBegins ==
  /\ One!CertificatesInit => CertInv(Lone)
  /\ Two!CertificatesInit => CertInv(Holder)
<1>1. ASSUME NEW H,
             file = [f \in One!File |-> Gone], keyring = [f \in One!KeyFile |-> Gone],
             trusted = {}, holding = [c \in H |-> One!NoHolding],
             generated = 0, accidents = 0, sound = TRUE, installed = FALSE
      PROVE  CertInv(H)
  <2>1. One!NoHolding \in Holding(H) /\ StepOK(One!NoHolding)
    <3>1. 0 \in 0 .. generated
      BY <1>1
    <3> QED
      BY <3>1, CertFacts, FileNames DEF Holding, CertSteps, StepOK, Making
  <2>2. \A c \in H : holding[c] = One!NoHolding /\ ~One!Busy(c)
    BY <1>1, CertFacts DEF One!Busy, One!On
  <2>3. CertTypes(H)
    BY <1>1, <2>1 DEF CertTypes
  <2>4. StepTypes(H)
    BY <2>1, <2>2 DEF StepTypes
  <2>5. AloneInv(H)
    BY <1>1, <2>2, CertFacts DEF AloneInv
  <2>6. Intact
    BY <1>1 DEF Intact, One!There
  <2> QED
    BY <2>2, <2>3, <2>4, <2>5, <2>6 DEF CertInv, KnowInv
<1>2. One!CertificatesInit => CertInv(Lone)
  BY <1>1 DEF One!CertificatesInit
<1>3. Two!CertificatesInit => CertInv(Holder)
  BY <1>1 DEF Two!CertificatesInit, Two!File, One!File, Two!KeyFile, One!KeyFile,
              Two!NoHolding, One!NoHolding
<1> QED
  BY <1>2, <1>3

\* Once sound, a command that is there is alone, and what it knows is on the disk.
LEMMA CertUsable ==
  ASSUME NEW H, CertInv(H), sound
  PROVE  /\ (\A c \in H : ~One!Busy(c)) => One!Consistent \/ \A f \in One!File : ~One!There(f)
         /\ installed /\ (\A c \in H : ~One!Busy(c)) => file["cacert"].pair \in trusted
         /\ \A c \in H : One!On(c, "launch") /\ holding[c].alone =>
               One!Covers(holding[c].host) /\ file["cert"].pair = holding[c].pair
<1>1. (\A c \in H : ~One!Busy(c)) => Intact
  BY DEF CertInv, KnowInv
<1>2. ASSUME NEW c \in H, One!On(c, "launch"), holding[c].alone
      PROVE  One!Covers(holding[c].host) /\ file["cert"].pair = holding[c].pair
  <2>1. One!Busy(c) /\ holding[c].step = "launch"
    BY <1>2 DEF One!Busy, One!On
  <2>2. Knows(holding[c])
    BY <1>2, <2>1 DEF CertInv, KnowInv
  <2> QED
    BY <2>1, <2>2 DEF Knows
<1> QED
  BY <1>1, <1>2 DEF Intact, Trusted

LEMMA BothUsable ==
  /\ CertInv(Lone) => One!CertificatesUsable
  /\ CertInv(Holder) => Two!CertificatesUsable
<1>1. CertInv(Lone) => One!CertificatesUsable
  BY CertUsable DEF One!CertificatesUsable
<1>2. ASSUME CertInv(Holder) PROVE Two!CertificatesUsable
  <2>1. /\ Two!Consistent = One!Consistent /\ Two!File = One!File
        /\ \A f : Two!There(f) = One!There(f)
        /\ \A h : Two!Covers(h) = One!Covers(h)
    BY DEF Two!Consistent, One!Consistent, Two!Readable, One!Readable, Two!Parses, One!Parses,
           Two!There, One!There, Two!Covers, One!Covers, Two!File, One!File
  <2>2. \A c, label : Two!On(c, label) = One!On(c, label) /\ Two!Busy(c) = One!Busy(c)
    BY DEF Two!On, One!On, Two!Busy, One!Busy
  <2> QED
    BY <1>2, <2>1, <2>2, CertUsable DEF Two!CertificatesUsable
<1> QED
  BY <1>1, <1>2

-----------------------------------------------------------------------------
(* The bounds of the builds: a number in use is that of a build that began. *)

NumbersBound ==
  /\ begun <= MaxBuilds /\ killed \in 0 .. MaxKills
  /\ \A l \in Label : /\ cached[l].of \subseteq 0 .. begun
                      /\ buildRoot[l] \subseteq 1 .. begun /\ compiler[l] \subseteq 1 .. begun
  /\ \A b \in Builder : build[b].archive \subseteq 1 .. begun
  /\ missed \subseteq Label
BuildBounds == BuildInv /\ NumbersBound

\* What the labels have, from one state to the next.
Labelled ==
  \A l \in Label :
    /\ cached'[l] = cached[l] \/ \E b \in Builder : cached'[l].of = build[b].archive
    /\ \/ buildRoot'[l] \in {{}, buildRoot[l]}
       \/ \E b \in Builder : build[b].step \in Numbered /\ buildRoot'[l] = buildRoot[l] \cup {build[b].number}
       \/ \E n \in compiler[l] : buildRoot'[l] = buildRoot[l] \cup {n}
    /\ \/ compiler'[l] \subseteq compiler[l]
       \/ \E b \in Builder : build[b].step \in Numbered /\ compiler'[l] = compiler[l] \cup {build[b].number}
Archived ==
  \A b \in Builder : \/ build'[b].archive \in {{}, build[b].archive}
                     \/ \E l \in Label : build'[b].archive = buildRoot[l]
Counted ==
  /\ begun' = begun \/ (begun < MaxBuilds /\ begun' = begun + 1)
  /\ killed' = killed \/ (killed < MaxKills /\ killed' = killed + 1)
  /\ missed' \subseteq missed \cup Label

\* These keep the numbers in their bounds.
LEMMA NumbersStay ==
  ASSUME BuildBounds, Labelled, Archived, Counted
  PROVE  NumbersBound'
<1>1. MaxBuilds \in Nat /\ MaxKills \in Nat /\ begun \in Nat
  BY PartsAssumption DEF Built!BuildAssumption, BuildBounds, BuildInv, BuildTypes
<1>2. begun' \in Nat /\ begun' <= MaxBuilds /\ killed' \in 0 .. MaxKills /\ missed' \subseteq Label
  BY <1>1 DEF BuildBounds, NumbersBound, Counted
<1>3. 1 .. begun \subseteq 1 .. begun' /\ 0 .. begun \subseteq 0 .. begun'
  BY <1>1, <1>2 DEF Counted
<1>4. \A b \in Builder : build[b].step \in Numbered => build[b].number \in 1 .. begun
  BY DEF BuildBounds, BuildInv, BuildLocks
<1>5. ASSUME NEW l \in Label
      PROVE  /\ cached'[l].of \subseteq 0 .. begun'
             /\ buildRoot'[l] \subseteq 1 .. begun' /\ compiler'[l] \subseteq 1 .. begun'
  <2>1. /\ cached[l].of \subseteq 0 .. begun /\ buildRoot[l] \subseteq 1 .. begun
        /\ compiler[l] \subseteq 1 .. begun /\ \A b \in Builder : build[b].archive \subseteq 1 .. begun
    BY DEF BuildBounds, NumbersBound
  <2>2. cached'[l].of \subseteq 0 .. begun
    BY <1>1, <2>1 DEF Labelled
  <2>3. buildRoot'[l] \subseteq 1 .. begun
    BY <1>4, <2>1 DEF Labelled
  <2>4. compiler'[l] \subseteq 1 .. begun
    BY <1>4, <2>1 DEF Labelled
  <2> QED
    BY <1>3, <2>2, <2>3, <2>4
<1>6. ASSUME NEW b \in Builder PROVE build'[b].archive \subseteq 1 .. begun'
  <2>1. build'[b].archive \subseteq 1 .. begun
    BY DEF BuildBounds, NumbersBound, Archived
  <2> QED
    BY <1>3, <2>1
<1> QED
  BY <1>2, <1>5, <1>6 DEF NumbersBound

\* A command that goes to another record.
LEMMA ArchivedBy ==
  ASSUME BuildTypes, NEW b \in Builder, NEW r, build' = [build EXCEPT ![b] = r],
         r.archive \in {{}, build[b].archive} \/ \E l \in Label : r.archive = buildRoot[l]
  PROVE  Archived
<1>1. build \in [Builder -> BuildRecord]
  BY DEF BuildTypes
<1>2. ASSUME NEW c \in Builder
      PROVE  \/ build'[c].archive \in {{}, build[c].archive}
             \/ \E l \in Label : build'[c].archive = buildRoot[l]
  BY <1>1
<1> QED
  BY <1>2 DEF Archived

\* A command that has a build's record, with another step.
LEMMA RecordGoes ==
  ASSUME BuildTypes, NEW b \in Builder
  PROVE  /\ Built!NoBuild.archive = {}
         /\ \A label : Built!Goes(b, label) => Archived
<1>1. Built!NoBuild.archive = {}
  BY DEF Built!NoBuild
<1>2. ASSUME NEW label, Built!Goes(b, label) PROVE Archived
  <2> DEFINE r == [build[b] EXCEPT !.step = label]
  <2>1. build[b] \in BuildRecord /\ build' = [build EXCEPT ![b] = r]
    BY <1>2 DEF BuildTypes, Built!Goes
  <2>2. r.archive = build[b].archive
    BY <2>1 DEF BuildRecord
  <2> HIDE DEF r
  <2> QED
    BY <2>1, <2>2, ArchivedBy
<1> QED
  BY <1>1, <1>2

LEMMA BuilderBounded ==
  ASSUME BuildBounds, NEW b \in Builder,
         \/ Built!BeginBuild(b) \/ Built!LookCached(b) \/ Built!AcquireBuildLock(b)
         \/ Built!ResetRoot(b) \/ Built!FetchSources(b) \/ Built!Compile(b)
         \/ Built!InstallStage(b) \/ Built!PackageAndVerify(b) \/ Built!Publish(b)
         \/ Built!ReadRecords(b) \/ Built!ForgetInternal(b) \/ Built!KillBuilder(b)
  PROVE  NumbersBound'
<1>1. /\ BuildTypes /\ build[b] \in BuildRecord
      /\ cached \in [Label -> Payload] /\ buildRoot \in [Label -> SUBSET Nat]
      /\ compiler \in [Label -> SUBSET Nat]
      /\ build[b].step # "idle" => build[b].label \in Label
  BY DEF BuildBounds, BuildInv, BuildTypes, Built!Step
<1>2. Built!NoBuild.archive = {} /\ \A label : Built!Goes(b, label) => Archived
  BY <1>1, RecordGoes
<1>3. build' = [build EXCEPT ![b] = Built!NoBuild] => Archived
  BY <1>1, <1>2, ArchivedBy
<1>4. UNCHANGED <<cached, buildRoot, compiler>> => Labelled
  BY DEF Labelled
<1>5. Built!InternalSide /\ Built!Bounds => Counted
  BY DEF Counted, Built!InternalSide, Built!Bounds
<1>6. ASSUME NEW next, Built!Leave(b, next), UNCHANGED <<cached, compiler>> PROVE Labelled /\ Archived
  <2>1. buildRoot' = [buildRoot EXCEPT ![build[b].label] = {}]
    BY <1>6 DEF Built!Leave, Built!Here
  <2>2. \A l \in Label : buildRoot'[l] \in {{}, buildRoot[l]}
    BY <1>1, <2>1
  <2>3. Labelled
    BY <1>6, <2>2 DEF Labelled
  <2>4. Archived
    BY <1>2, <1>3, <1>6 DEF Built!Leave
  <2> QED
    BY <2>3, <2>4
<1>7. CASE Built!BeginBuild(b)
  <2>1. PICK l \in Label, f \in BOOLEAN :
          build' = [build EXCEPT ![b] =
                      [Built!NoBuild EXCEPT !.step = "look", !.label = l, !.force = f]]
    BY <1>7 DEF Built!BeginBuild
  <2>2. [Built!NoBuild EXCEPT !.step = "look", !.label = l, !.force = f].archive = {}
    BY DEF Built!NoBuild
  <2>3. Archived
    BY <1>1, <2>1, <2>2, ArchivedBy
  <2>4. Labelled /\ Counted
    BY <1>4, <1>5, <1>7 DEF Built!BeginBuild
  <2> QED
    BY <2>3, <2>4, NumbersStay
<1>8. CASE Built!LookCached(b)
  <2> DEFINE r == [build[b] EXCEPT !.step = "reset",
                                   !.replaced = cached[Built!Here(b)] # Built!NoPayload]
  <2>1. r.archive = build[b].archive
    BY <1>1 DEF BuildRecord
  <2>2. \/ build' = [build EXCEPT ![b] = Built!NoBuild]
        \/ Built!Goes(b, "acquire")
        \/ build' = [build EXCEPT ![b] = r]
    BY <1>8 DEF Built!LookCached
  <2>3. Labelled /\ Counted
    BY <1>4, <1>5, <1>8 DEF Built!LookCached
  <2> HIDE DEF r
  <2>4. Archived
    BY <1>1, <1>2, <1>3, <2>1, <2>2, ArchivedBy
  <2> QED
    BY <2>3, <2>4, NumbersStay
<1>9. CASE Built!AcquireBuildLock(b)
  <2>1. Archived
    BY <1>2, <1>3, <1>9 DEF Built!AcquireBuildLock
  <2>2. Labelled /\ Counted
    BY <1>4, <1>5, <1>9 DEF Built!AcquireBuildLock
  <2> QED
    BY <2>1, <2>2, NumbersStay
<1>10. CASE Built!ResetRoot(b)
  <2> DEFINE r == [build[b] EXCEPT !.step = "fetch", !.number = begun + 1]
  <2>1. r.archive = build[b].archive
    BY <1>1 DEF BuildRecord
  <2>2. /\ \/ /\ begun < MaxBuilds /\ begun' = begun + 1
              /\ buildRoot' = [buildRoot EXCEPT ![build[b].label] = {}]
              /\ build' = [build EXCEPT ![b] = r]
           \/ build' = [build EXCEPT ![b] = Built!NoBuild] /\ UNCHANGED <<buildRoot, begun>>
        /\ UNCHANGED <<cached, compiler, killed, missed>>
    BY <1>10 DEF Built!ResetRoot, Built!Here, Built!InternalSide
  <2> HIDE DEF r
  <2>3. \A l \in Label : buildRoot'[l] \in {{}, buildRoot[l]}
    BY <1>1, <2>2
  <2>4. Labelled /\ Counted
    BY <2>2, <2>3 DEF Labelled, Counted
  <2>5. Archived
    BY <1>1, <1>3, <2>1, <2>2, ArchivedBy
  <2> QED
    BY <2>4, <2>5, NumbersStay
<1>11. CASE Built!FetchSources(b) \/ Built!Compile(b) \/ Built!InstallStage(b)
  <2>1. PICK label \in {"fetch", "compile", "install"}, next \in {"compile", "install", "package"} :
          Built!Work(b, label, next)
    BY <1>11 DEF Built!FetchSources, Built!Compile, Built!InstallStage
  <2>2. Counted /\ UNCHANGED <<cached, compiler>>
    BY <1>5, <2>1 DEF Built!Work
  <2>3. CASE Built!Leave(b, "idle")
    BY <1>6, <2>2, <2>3, NumbersStay
  <2>4. CASE /\ buildRoot' = [buildRoot EXCEPT ![Built!Here(b)] = @ \cup {build[b].number}]
             /\ Built!Goes(b, next)
    <3>1. build[b].step \in Numbered
      BY <2>1 DEF Built!Work, Built!Step, Numbered, Decided
    <3>2. \A l \in Label : \/ buildRoot'[l] = buildRoot[l]
                           \/ buildRoot'[l] = buildRoot[l] \cup {build[b].number}
      BY <1>1, <2>4
    <3>3. Labelled
      BY <2>2, <3>1, <3>2 DEF Labelled
    <3> QED
      BY <1>2, <2>2, <2>4, <3>3, NumbersStay
  <2> QED
    BY <2>1, <2>3, <2>4 DEF Built!Work
<1>12. CASE Built!PackageAndVerify(b)
  <2>1. Counted /\ UNCHANGED <<cached, compiler>>
    BY <1>5, <1>12 DEF Built!PackageAndVerify
  <2>2. CASE Built!Leave(b, "idle")
    BY <1>6, <2>1, <2>2, NumbersStay
  <2>3. CASE /\ build' = [build EXCEPT ![b].step = "publish", ![b].archive = buildRoot[Built!Here(b)]]
             /\ UNCHANGED buildRoot
    <3> DEFINE r == [build[b] EXCEPT !.step = "publish", !.archive = buildRoot[Built!Here(b)]]
    <3>1. r.archive = buildRoot[Built!Here(b)] /\ build' = [build EXCEPT ![b] = r]
      BY <1>1, <2>3 DEF BuildRecord
    <3>2. Built!Here(b) \in Label
      BY <1>1, <1>12 DEF Built!PackageAndVerify, Built!Step, Built!Here
    <3> HIDE DEF r
    <3>3. Archived
      BY <1>1, <3>1, <3>2, ArchivedBy
    <3> QED
      BY <1>4, <2>1, <2>3, <3>3, NumbersStay
  <2> QED
    BY <1>12, <2>2, <2>3 DEF Built!PackageAndVerify
<1>13. CASE Built!Publish(b)
  <2> DEFINE new == [number |-> build[b].number, of |-> build[b].archive]
  <2>1. PICK next : Built!Leave(b, next)
    BY <1>13 DEF Built!Publish
  <2>2. /\ cached' = [cached EXCEPT ![build[b].label] = new] \/ UNCHANGED cached
        /\ UNCHANGED <<compiler, begun, killed>>
        /\ missed' \subseteq missed \cup {build[b].label}
    BY <1>13 DEF Built!Publish, Built!Here, Built!Bounds
  <2>3. build[b].label \in Label
    BY <1>1, <1>13 DEF Built!Publish, Built!Step
  <2>4. new.of = build[b].archive
    OBVIOUS
  <2> HIDE DEF new
  <2>5. \A l \in Label : cached'[l] = cached[l] \/ cached'[l].of = build[b].archive
    BY <1>1, <2>2, <2>4
  <2>6. buildRoot' = [buildRoot EXCEPT ![build[b].label] = {}]
    BY <2>1 DEF Built!Leave, Built!Here
  <2>7. \A l \in Label : buildRoot'[l] \in {{}, buildRoot[l]}
    BY <1>1, <2>6
  <2>8. Labelled
    BY <2>2, <2>5, <2>7 DEF Labelled
  <2>9. Archived
    BY <1>2, <1>3, <2>1 DEF Built!Leave
  <2>10. Counted
    BY <2>2, <2>3 DEF Counted
  <2> QED
    BY <2>8, <2>9, <2>10, NumbersStay
<1>14. CASE Built!ForgetInternal(b)
  <2>1. /\ build' = [build EXCEPT ![b] = Built!NoBuild] /\ missed' \subseteq missed \cup Label
        /\ UNCHANGED <<cached, buildRoot, compiler, begun, killed>>
    BY <1>14 DEF Built!ForgetInternal, Built!Bounds, Built!Restored, Built!Outdated
  <2>3. Counted
    BY <2>1 DEF Counted
  <2> QED
    BY <1>3, <1>4, <2>1, <2>3, NumbersStay
<1>15. CASE Built!KillBuilder(b)
  <2>1. /\ build[b].step # "idle" /\ killed < MaxKills /\ killed' = killed + 1
        /\ build' = [build EXCEPT ![b] = Built!NoBuild] /\ missed' \subseteq missed \cup {build[b].label}
        /\ compiler' = IF build[b].step \in {"compile", "install"}
                       THEN [compiler EXCEPT ![build[b].label] = @ \cup {build[b].number}] ELSE compiler
        /\ UNCHANGED <<cached, buildRoot, begun>>
    BY <1>15 DEF Built!KillBuilder, Built!Here, Built!Step
  <2>2. build[b].label \in Label
    BY <1>1, <2>1
  <2>3. Counted
    BY <2>1, <2>2 DEF Counted
  <2>4. \A l \in Label : \/ compiler'[l] = compiler[l]
                         \/ build[b].step \in Numbered /\ compiler'[l] = compiler[l] \cup {build[b].number}
    BY <1>1, <2>1 DEF Numbered, Decided
  <2>5. Labelled
    BY <2>1, <2>4 DEF Labelled
  <2> QED
    BY <1>3, <2>1, <2>3, <2>5, NumbersStay
<1>16. CASE Built!ReadRecords(b)
  <2> DEFINE r == [build[b] EXCEPT !.step = "drop", !.copy = named]
  <2>1. r.archive = build[b].archive
    BY <1>1 DEF BuildRecord
  <2>2. /\ build' = [build EXCEPT ![b] = Built!NoBuild] \/ build' = [build EXCEPT ![b] = r]
        /\ UNCHANGED <<cached, buildRoot, compiler, begun, killed>> /\ missed' \subseteq missed
    BY <1>16 DEF Built!ReadRecords, Built!Bounds
  <2> HIDE DEF r
  <2>3. Archived
    BY <1>1, <1>3, <2>1, <2>2, ArchivedBy
  <2>4. Counted
    BY <2>2 DEF Counted
  <2> QED
    BY <1>4, <2>2, <2>3, <2>4, NumbersStay
<1> QED
  BY <1>7, <1>8, <1>9, <1>10, <1>11, <1>12, <1>13, <1>14, <1>15, <1>16

LEMMA NumbersStep == BuildBounds /\ [Built!BuildNext]_builtVars => NumbersBound'
<1> SUFFICES ASSUME BuildBounds, [Built!BuildNext]_builtVars PROVE NumbersBound'
  OBVIOUS
<1>1. UNCHANGED build => Archived
  BY DEF Archived
<1>2. UNCHANGED <<cached, buildRoot, compiler>> => Labelled
  BY DEF Labelled
<1>3. CASE Built!CompilerGoesOn
  <2>1. PICK l \in Label : \E n \in compiler[l] :
          \/ /\ n \notin buildRoot[l]
             /\ buildRoot' = [buildRoot EXCEPT ![l] = @ \cup {n}] /\ UNCHANGED compiler
          \/ compiler' = [compiler EXCEPT ![l] = @ \ {n}] /\ UNCHANGED buildRoot
    BY <1>3 DEF Built!CompilerGoesOn
  <2>2. buildRoot \in [Label -> SUBSET Nat] /\ compiler \in [Label -> SUBSET Nat]
    BY DEF BuildBounds, BuildInv, BuildTypes
  <2>3. \A k \in Label : /\ \/ buildRoot'[k] = buildRoot[k]
                            \/ \E n \in compiler[k] : buildRoot'[k] = buildRoot[k] \cup {n}
                         /\ compiler'[k] \subseteq compiler[k]
    BY <2>1, <2>2
  <2>4. UNCHANGED <<cached, build, begun, killed, missed>>
    BY <1>3 DEF Built!CompilerGoesOn, Built!InternalSide, Built!Bounds
  <2>5. Labelled /\ Counted
    BY <2>3, <2>4 DEF Labelled, Counted
  <2> QED
    BY <1>1, <2>4, <2>5, NumbersStay
<1>4. CASE Internals
  <2>1. UNCHANGED <<cached, buildRoot, compiler, build, begun, killed>>
    BY <1>4, InternalsFrame
  <2>3. missed' \subseteq missed \cup Label
    BY <1>4 DEF Internals, Built!TakePayload, Built!PutInternal, Built!CopyRecords, Built!RecordInternal,
       Built!FailInstall, Built!Restored, Built!Outdated
  <2>2. Counted
    BY <2>1, <2>3 DEF Counted
  <2> QED
    BY <1>1, <1>2, <2>1, <2>2, NumbersStay
<1>5. CASE UNCHANGED builtVars
  <2>1. UNCHANGED <<cached, buildRoot, compiler, build, begun, killed, missed>>
    BY <1>5 DEF builtVars
  <2>2. Counted
    BY <2>1 DEF Counted
  <2> QED
    BY <1>1, <1>2, <2>1, <2>2, NumbersStay
<1> QED
  BY <1>3, <1>4, <1>5, BuilderBounded DEF Built!BuildNext, Internals

LEMMA NumbersBegin == Built!BuildInit => NumbersBound
<1> SUFFICES ASSUME Built!BuildInit PROVE NumbersBound
  OBVIOUS
<1>1. MaxBuilds \in Nat /\ MaxKills \in Nat
  BY PartsAssumption DEF Built!BuildAssumption
<1>2. Built!NoPayload.of = {} /\ Built!Downloaded.of = {0} /\ Built!NoBuild.archive = {}
  BY DEF Built!NoPayload, Built!Downloaded, Built!NoBuild
<1>3. \A l \in Label : cached[l].of \subseteq 0 .. begun
  BY <1>2 DEF Built!BuildInit
<1> QED
  BY <1>1, <1>2, <1>3 DEF Built!BuildInit, NumbersBound

-----------------------------------------------------------------------------
(* The bounds of the certificates' specification. *)

PairsBound == generated <= MaxPairs /\ accidents <= MaxAccidents
TogetherBound == generated <= MaxPairsTogether /\ accidents <= 0

\* What a step may do to a counter that stays within a bound.
Ticks(n, m, max) == m = n \/ (n < max /\ m = n + 1)

LEMMA CertConstants == MaxPairs \in Nat /\ MaxPairsTogether \in Nat /\ MaxAccidents \in Nat
  BY PartsAssumption DEF One!CertificatesAssumption, Two!CertificatesAssumption

LEMMA PairsCount ==
  ASSUME [One!CertificatesNext]_certificateVars
  PROVE  /\ Ticks(generated, generated', MaxPairs)
         /\ Ticks(accidents, accidents', MaxAccidents)
<1>1. ASSUME NEW c \in Lone,
             \/ One!BeginServe(c) \/ One!Look(c) \/ One!LoadAuthority(c) \/ One!NewAuthority(c)
             \/ One!IssueServer(c) \/ One!FindKey(c) \/ One!SetKey(c) \/ One!Truncate(c)
             \/ One!Write(c) \/ One!Materialize(c) \/ One!LaunchHTTPS(c) \/ One!BeginInstall(c)
             \/ One!PrepareKeys(c) \/ One!Distrust(c) \/ One!RemoveFiles(c) \/ One!Trust(c)
             \/ One!CutOff(c)
      PROVE  \/ UNCHANGED <<generated, accidents>>
             \/ generated < MaxPairs /\ generated' = generated + 1 /\ accidents' = accidents
             \/ accidents < MaxAccidents /\ accidents' = accidents + 1 /\ generated' = generated
  <2>1. ASSUME One!BeginServe(c) \/ One!BeginInstall(c) \/ One!Trust(c)
        PROVE  UNCHANGED <<generated, accidents>>
    BY <2>1 DEF One!BeginServe, One!BeginInstall, One!Trust
  <2>2. ASSUME \/ One!Look(c) \/ One!LoadAuthority(c) \/ One!FindKey(c) \/ One!SetKey(c)
               \/ One!Truncate(c) \/ One!Write(c) \/ One!Materialize(c) \/ One!LaunchHTTPS(c)
               \/ One!PrepareKeys(c) \/ One!Distrust(c) \/ One!RemoveFiles(c)
        PROVE  UNCHANGED <<generated, accidents>>
    BY <2>2 DEF One!Look, One!LoadAuthority, One!FindKey, One!SetKey, One!Truncate, One!Write,
                One!Materialize, One!LaunchHTTPS, One!PrepareKeys, One!Distrust,
                One!RemoveFiles, One!Kept
  <2>3. ASSUME One!NewAuthority(c) \/ One!IssueServer(c)
        PROVE  generated < MaxPairs /\ generated' = generated + 1 /\ accidents' = accidents
    BY <2>3 DEF One!NewAuthority, One!IssueServer, One!Generate
  <2>4. ASSUME One!CutOff(c)
        PROVE  accidents < MaxAccidents /\ accidents' = accidents + 1 /\ generated' = generated
    BY <2>4 DEF One!CutOff, One!Accident
  <2> QED
    BY <1>1, <2>1, <2>2, <2>3, <2>4
<1>2. ASSUME One!DeleteByHand
      PROVE  accidents < MaxAccidents /\ accidents' = accidents + 1 /\ generated' = generated
  BY <1>2 DEF One!DeleteByHand, One!Accident
<1>3. ASSUME UNCHANGED certificateVars PROVE UNCHANGED <<generated, accidents>>
  BY <1>3 DEF certificateVars
<1> QED
  BY <1>1, <1>2, <1>3 DEF One!CertificatesNext, Ticks

LEMMA TogetherCount ==
  ASSUME [Two!CertificatesNext]_certificateVars
  PROVE  /\ Ticks(generated, generated', MaxPairsTogether)
         /\ Ticks(accidents, accidents', 0)
<1>1. ASSUME NEW c \in Holder,
             \/ Two!BeginServe(c) \/ Two!Look(c) \/ Two!LoadAuthority(c) \/ Two!NewAuthority(c)
             \/ Two!IssueServer(c) \/ Two!FindKey(c) \/ Two!SetKey(c) \/ Two!Truncate(c)
             \/ Two!Write(c) \/ Two!Materialize(c) \/ Two!LaunchHTTPS(c) \/ Two!BeginInstall(c)
             \/ Two!PrepareKeys(c) \/ Two!Distrust(c) \/ Two!RemoveFiles(c) \/ Two!Trust(c)
             \/ Two!CutOff(c)
      PROVE  \/ UNCHANGED <<generated, accidents>>
             \/ /\ generated < MaxPairsTogether /\ generated' = generated + 1
                /\ accidents' = accidents
             \/ accidents < 0 /\ accidents' = accidents + 1 /\ generated' = generated
  <2>1. ASSUME Two!BeginServe(c) \/ Two!BeginInstall(c) \/ Two!Trust(c)
        PROVE  UNCHANGED <<generated, accidents>>
    BY <2>1 DEF Two!BeginServe, Two!BeginInstall, Two!Trust
  <2>2. ASSUME \/ Two!Look(c) \/ Two!LoadAuthority(c) \/ Two!FindKey(c) \/ Two!SetKey(c)
               \/ Two!Truncate(c) \/ Two!Write(c) \/ Two!Materialize(c) \/ Two!LaunchHTTPS(c)
               \/ Two!PrepareKeys(c) \/ Two!Distrust(c) \/ Two!RemoveFiles(c)
        PROVE  UNCHANGED <<generated, accidents>>
    BY <2>2 DEF Two!Look, Two!LoadAuthority, Two!FindKey, Two!SetKey, Two!Truncate, Two!Write,
                Two!Materialize, Two!LaunchHTTPS, Two!PrepareKeys, Two!Distrust,
                Two!RemoveFiles, Two!Kept
  <2>3. ASSUME Two!NewAuthority(c) \/ Two!IssueServer(c)
        PROVE  /\ generated < MaxPairsTogether /\ generated' = generated + 1
               /\ accidents' = accidents
    BY <2>3 DEF Two!NewAuthority, Two!IssueServer, Two!Generate
  <2>4. ASSUME Two!CutOff(c)
        PROVE  accidents < 0 /\ accidents' = accidents + 1 /\ generated' = generated
    BY <2>4 DEF Two!CutOff, Two!Accident
  <2> QED
    BY <1>1, <2>1, <2>2, <2>3, <2>4
<1>2. ASSUME Two!DeleteByHand
      PROVE  accidents < 0 /\ accidents' = accidents + 1 /\ generated' = generated
  BY <1>2 DEF Two!DeleteByHand, Two!Accident
<1>3. ASSUME UNCHANGED certificateVars PROVE UNCHANGED <<generated, accidents>>
  BY <1>3 DEF certificateVars
<1> QED
  BY <1>1, <1>2, <1>3 DEF Two!CertificatesNext, Ticks

LEMMA TicksStay ==
  ASSUME NEW n \in Nat, NEW m \in Nat, NEW max \in Nat, n <= max, Ticks(n, m, max)
  PROVE  m <= max
  BY DEF Ticks

LEMMA PairsStep ==
  ASSUME CertInv(Lone), CertInv(Lone)', PairsBound, [One!CertificatesNext]_certificateVars
  PROVE  PairsBound'
<1>1. generated \in Nat /\ accidents \in Nat /\ generated' \in Nat /\ accidents' \in Nat
  BY DEF CertInv, CertTypes
<1> QED
  BY <1>1, PairsCount, TicksStay, CertConstants DEF PairsBound

LEMMA TogetherBoundStep ==
  ASSUME CertInv(Holder), CertInv(Holder)', TogetherBound,
         [Two!CertificatesNext]_certificateVars
  PROVE  TogetherBound'
<1>1. generated \in Nat /\ accidents \in Nat /\ generated' \in Nat /\ accidents' \in Nat
  BY DEF CertInv, CertTypes
<1>2. Ticks(generated, generated', MaxPairsTogether) /\ Ticks(accidents, accidents', 0)
  BY TogetherCount
<1>3. generated' <= MaxPairsTogether
  BY <1>1, <1>2, TicksStay, CertConstants DEF TogetherBound
<1>4. accidents' <= 0
  BY <1>1, <1>2, TicksStay DEF TogetherBound
<1> QED
  BY <1>3, <1>4 DEF TogetherBound

\* A file that can be parsed has a pair; who does something is at one of the files.
LEMMA CertShape ==
  ASSUME NEW H, CertInv(H)
  PROVE  /\ \A f \in One!File : One!Parses(f) => file[f].pair \in 1 .. generated
         /\ keyring \in [One!KeyFile -> H \cup {Gone}] /\ trusted \subseteq 1 .. generated
         /\ \A c \in H : holding[c].file \in One!File /\ holding[c].ca \in 0 .. generated
         /\ generated \in Nat /\ accidents \in Nat
         /\ sound \in BOOLEAN /\ installed \in BOOLEAN
<1>1. ASSUME NEW f \in One!File, One!Parses(f) PROVE file[f].pair \in 1 .. generated
  <2>1. file[f] \in Content(H, f)
    BY <1>1 DEF CertInv, CertTypes, One!Parses
  <2> QED
    BY <1>1, <2>1, CertFacts DEF Content
<1>2. ASSUME NEW c \in H PROVE holding[c].file \in One!File /\ holding[c].ca \in 0 .. generated
  BY <1>2 DEF CertInv, CertTypes, Holding
<1> QED
  BY <1>1, <1>2 DEF CertInv, CertTypes

LEMMA PairsTyped ==
  CertInv(Lone) /\ PairsBound => One!CertificatesTypeOK
<1> SUFFICES ASSUME CertInv(Lone), PairsBound PROVE One!CertificatesTypeOK
  OBVIOUS
<1>1. generated \in 0 .. MaxPairs /\ accidents \in 0 .. MaxAccidents
  BY CertShape, CertConstants DEF PairsBound
<1> QED
  BY <1>1, CertShape DEF One!CertificatesTypeOK

LEMMA TogetherTyped ==
  CertInv(Holder) /\ TogetherBound => Two!CertificatesTypeOK
<1> SUFFICES ASSUME CertInv(Holder), TogetherBound PROVE Two!CertificatesTypeOK
  OBVIOUS
<1>1. generated \in 0 .. MaxPairsTogether /\ accidents \in 0 .. 0
  BY CertShape, CertConstants DEF TogetherBound
<1>2. /\ Two!File = One!File /\ Two!KeyFile = One!KeyFile
      /\ \A f : Two!Parses(f) = One!Parses(f)
  BY DEF Two!File, One!File, Two!KeyFile, One!KeyFile, Two!Parses, One!Parses
<1> QED
  BY <1>1, <1>2, CertShape DEF Two!CertificatesTypeOK

-----------------------------------------------------------------------------
(* From what is invariant to the types of these parts. *)

LEMMA InternalTyped == InternalInv => InternalTypeOK
<1> SUFFICES ASSUME InternalInv PROVE InternalTypeOK
  OBVIOUS
<1>1. \A p \in Provisioner : provision[p].state \subseteq Install
  BY DEF InternalInv, InternalTypes, Provision
<1> QED
  BY <1>1 DEF InternalInv, InternalTypes, InternalTypeOK, Choice

LEMMA BuildTyped == BuildBounds => Built!BuildTypeOK
<1> SUFFICES ASSUME BuildBounds PROVE Built!BuildTypeOK
  OBVIOUS
<1>1. BuildTypes /\ BuildLocks /\ NumbersBound
  BY DEF BuildBounds, BuildInv
<1>2. MaxBuilds \in Nat
  BY PartsAssumption DEF Built!BuildAssumption
<1>3. begun \in 0 .. MaxBuilds /\ killed \in 0 .. MaxKills
  BY <1>1, <1>2 DEF BuildTypes, NumbersBound
<1>4. ASSUME NEW l \in Label PROVE cached[l].number \in 0 .. begun
  <2>1. cached[l].number \in Nat /\ cached[l].number <= begun /\ begun \in Nat
    BY <1>1, <1>4 DEF BuildTypes, BuildLocks, Payload
  <2> QED
    BY <2>1
<1>5. \A n \in left : n \in 1 .. begun
  BY <1>1 DEF BuildLocks
<1>6. buildLock \in [Label -> Builder \cup {Unlocked}]
  BY <1>1 DEF BuildTypes
<1> QED
  BY <1>1, <1>3, <1>4, <1>5, <1>6 DEF BuildTypes, NumbersBound, Built!BuildTypeOK

-----------------------------------------------------------------------------
(* The behaviours of MCProject: a step is one of the specification that the *)
(* behaviour is of, and what the others use keeps its value.                *)

PartInv == /\ part = "internal" => InternalInv
           /\ part = "build" => BuildInv
           /\ part = "one" => CertInv(Lone)
           /\ part = "two" => CertInv(Holder)

LEMMA PartInitInv == Init => PartInv
<1> SUFFICES ASSUME Init PROVE PartInv
  OBVIOUS
<1>1. part = "internal" => InternalInit
  BY DEF Init
<1>2. part = "build" => Built!BuildInit
  BY DEF Init
<1>3. /\ part = "one" => One!CertificatesInit
      /\ part = "two" => Two!CertificatesInit
  BY DEF Init
<1> QED
  BY <1>1, <1>2, <1>3, InternalInitInv, BuildInitInv, CertBegins DEF PartInv

LEMMA PartSteps ==
  ASSUME [Next]_projectPartVars
  PROVE  /\ UNCHANGED part
         /\ part = "internal" => [InternalNext]_internalVars
         /\ part = "build" => [Built!BuildNext]_builtVars
         /\ part = "database" => [Data!DatabaseNext]_dataVars
         /\ part = "one" => [One!CertificatesNext]_certificateVars
         /\ part = "two" => [Two!CertificatesNext]_certificateVars
<1>1. CASE Next
  BY <1>1 DEF Next
<1>2. CASE UNCHANGED projectPartVars
  BY <1>2 DEF projectPartVars
<1> QED
  BY <1>1, <1>2

LEMMA PartStep == PartInv /\ [Next]_projectPartVars => PartInv'
  BY PartSteps, InternalStep, BuildStep, LoneStep, TogetherStep DEF PartInv

LEMMA PartInvariant == Spec => []PartInv
  BY PartInitInv, PartStep, PTL DEF Spec

\* An internal tool that EnsureInternalTool returned is on record and whole on the disk,
\* however many commands install and provision at one time, as long as no mishap has blurred
\* what the lock says (EnsureInternalTool).
THEOREM InternalToolsWhole == Spec => []InternalWhole
<1>1. PartInv => InternalWhole
  BY DEF PartInv, InternalInv, RecordsInv, InternalWhole, ReturnedIsWhole
<1> QED
  BY <1>1, PartInvariant, PTL

\* A payload holds the files of one build, except where a compiler of a killed build may still
\* write; and an internal install on record is made from the payload of its label, once the
\* build that replaced it has told, except where BuildsRight names how the record outlives
\* that: the build did not drop it, an install overlapped, or another tool's copy of
\* installed.json put it back (runBuild, Store.BuildTool, EnsureInternalTool).
THEOREM PayloadsOfOneBuild == Spec => []BuildsRight
<1>1. PartInv => BuildsRight
  BY DEF PartInv, BuildInv, BuildFiles, InternalFollows, BuildsRight
<1> QED
  BY <1>1, PartInvariant, PTL

\* The certificates can be used: the files are consistent, a webserver that is started alone
\* has the key of its certificate, and the authority of cert-install stays trusted, as far
\* as CertificatesUsable promises it, for any number of commands and keys
\* (ensureGlobalTLSCertificateWithOptions, runCertInstall).
THEOREM HTTPSStaysUsable == Spec => []HTTPSUsable
<1>1. PartInv => HTTPSUsable
  BY BothUsable DEF PartInv, HTTPSUsable
<1> QED
  BY <1>1, PartInvariant, PTL
=============================================================================
