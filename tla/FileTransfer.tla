---------------------------- MODULE FileTransfer ----------------------------
(***************************************************************************)
(* What downloadFileWithProgress promises its caller (tools/               *)
(* ranged_download.go).  The remote file may be replaced at any time.  A   *)
(* call ends once, either with an error or with a file every part of which *)
(* belongs to one version the server published; a finished file is never   *)
(* touched again.                                                          *)
(***************************************************************************)
EXTENDS Naturals

CONSTANTS Files,       \* the concurrent downloads
          Part,        \* the parts a file's content is divided into
          Blank,       \* content of a part of an undelivered file
          MaxVersion   \* bound on the number of times a remote file changes

VARIABLES version,     \* version[f]: the version the server has now
          result,      \* result[f]: how the call ended, if it has
          content      \* content[f][p]: the version part p belongs to

vars == <<version, result, content>>

Init ==
  /\ version = [f \in Files |-> 0]
  /\ result = [f \in Files |-> "running"]
  /\ content = [f \in Files |-> [p \in Part |-> Blank]]

\* The owner of the remote file replaces it.
Publish(f) ==
  /\ version[f] < MaxVersion
  /\ version' = [version EXCEPT ![f] = @ + 1]
  /\ UNCHANGED <<result, content>>

\* The call returns nil: one published version is on disk.
Deliver(f) ==
  /\ result[f] = "running"
  /\ result' = [result EXCEPT ![f] = "ok"]
  /\ \E v \in 0 .. version[f] :
        content' = [content EXCEPT ![f] = [p \in Part |-> v]]
  /\ UNCHANGED version

\* The call returns an error; the caller must not use the file.
Fail(f) ==
  /\ result[f] = "running"
  /\ result' = [result EXCEPT ![f] = "failed"]
  /\ UNCHANGED <<version, content>>

Next == \E f \in Files : Publish(f) \/ Deliver(f) \/ Fail(f)

Spec == Init /\ [][Next]_vars

\* Every call ends.
FairSpec == Spec /\ \A f \in Files : WF_vars(Deliver(f) \/ Fail(f))
=============================================================================
