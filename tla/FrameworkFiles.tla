---------------------------- MODULE FrameworkFiles ----------------------------
(***************************************************************************)
(* The configuration files of a framework that polka edits after Composer  *)
(* has run (plugins/framework_actions.go, framework_composer.go,           *)
(* framework_php.go, cli/composer_hooks.go).  A hook runs the actions of a *)
(* framework's manifest: each reads its file, edits the text in memory,    *)
(* stages the result and renames it over the file.  There is no lock: the  *)
(* user and another command may write the file meanwhile.                  *)
(*                                                                         *)
(* A file is the sequence of the items an edit tells apart: assignments of *)
(* a key (a dotenv line, an entry of an array, a define call), commented   *)
(* ones, include statements, polka's include block, and anything else.     *)
(***************************************************************************)
EXTENDS Naturals, Sequences, FiniteSets, SequencesExt

CONSTANTS Runner,    \* commands that run Composer
          Key,       \* the managed keys, in order
          Anchor,    \* the define before which constants are added
          Credential,\* values of the keys: a database's credentials
          Own,       \* the user's value of a key
          Absent,    \* no file
          MaxItems,  \* bound: items of the file before polka edits it
          MaxHooks,  \* bound: hooks
          MaxEdits   \* bound: edits by the user, and changes of the credentials

\* Items.
Entry == [kind : {"set", "comment", "text", "require", "block", "blank", "odd", "open"},
          key : Range(Key) \cup {Anchor}, value : Credential \cup {Own, 0, 1}]
Set(k, v)  == [kind |-> "set", key |-> k, value |-> v]
Comment(k) == [kind |-> "comment", key |-> k, value |-> Own]
Text(n)    == [kind |-> "text", key |-> Anchor, value |-> n]
Item(kind) == [kind |-> kind, key |-> Anchor, value |-> Own]

FrameworkAssumption ==
  /\ Key \in Seq(Range(Key)) /\ Key # <<>> /\ IsInjective(Key) /\ Anchor \notin Range(Key)
  /\ Own \notin Credential /\ Absent \notin Credential /\ Absent \notin Seq(Entry)
  /\ MaxItems \in Nat /\ MaxHooks \in Nat /\ MaxEdits \in Nat

Managed(item) == item.key \in Range(Key)
Active(s) == {s[i].key : i \in {j \in DOMAIN s : s[j].kind = "set"}}
\* What is not polka's: the text, the includes and the user's other assignments.
Foreign(item) == item.kind \in {"text", "require"} \/ (item.kind = "set" /\ item.key = Anchor)

\* The items of s at some positions, in their order.
Nth(positions, n) ==
  CHOOSE i \in positions : Cardinality({j \in positions : j <= i}) = n
Picked(s, positions) == [n \in 1 .. Cardinality(positions) |-> s[Nth(positions, n)]]
Foreigns(s) == Picked(s, {i \in DOMAIN s : Foreign(s[i])})

\* The actions of a manifest, and what the edited file may look like before.
Manifest == {<<"dotenv">>, <<"php-array">>, <<"php-constants">>, <<"write-file", "php-include">>}
Alphabet(m) ==
  CASE m[1] = "dotenv"        -> {Set(Key[1], Own), Comment(Key[1]), Text(0), Item("blank")}
    [] m[1] = "php-array"     -> {Set(Key[1], Own), Text(0), Item("odd")}
    [] m[1] = "php-constants" -> {Set(Key[1], Own), Set(Anchor, Own), Item("require"), Text(0)}
    [] OTHER                  -> {Item("block"), Item("open"), Text(0)}

VARIABLES
  text,       \* the file that is edited, and the one that is written as a whole
  protected,  \* the edited file is read-only
  readonly,   \* it was so at first
  windows,    \* the system
  manifest,   \* the framework's actions
  credentials,\* the database's credentials
  hook,       \* of each command: where its hook is
  hooks,      \* hooks so far
  edits,      \* edits so far
  others,     \* history: what is in the edited file beside polka's items
  raced,      \* history: a file was replaced that had changed since it was read
  stopped,    \* history: a hook was killed
  delivered  \* history: the credentials of the last event, if that is the end of a hook

frameworkVars == <<text, protected, readonly, windows, manifest, credentials, hook, hooks, edits,
                   others, raced, stopped, delivered>>

NoHook == [step |-> "idle", action |-> 1, read |-> Absent, result |-> <<>>, value |-> Absent,
           alone |-> TRUE, open |-> FALSE]

FrameworkInit ==
  /\ manifest \in Manifest
  /\ \E s \in SeqOf(Alphabet(manifest), MaxItems) \cup {Absent} :
       /\ text = [edited |-> s,
                  written |-> IF s # Absent /\ Item("block") \in Range(s) THEN <<>> ELSE Absent]
       /\ others = IF s = Absent THEN <<>> ELSE Foreigns(s)
       /\ readonly \in {FALSE, s # Absent} /\ protected = readonly
  /\ windows \in {FALSE, readonly}
  /\ credentials \in Credential
  /\ hook = [r \in Runner |-> NoHook]
  /\ hooks = 0 /\ edits = 0
  /\ raced = FALSE /\ stopped = FALSE /\ delivered = Absent

-----------------------------------------------------------------------------
(* The edits, as functions of the text. *)

Missing(s) == Picked(Key, {i \in DOMAIN Key : Key[i] \notin Active(s)})
Assignments(keys, v) == [i \in DOMAIN keys |-> Set(keys[i], v)]

\* The entries at some lines get the value.
Rewrite(s, lines, v) == [i \in DOMAIN s |-> IF i \in lines THEN Set(s[i].key, v) ELSE s[i]]
Assigned(s) == {i \in DOMAIN s : Managed(s[i]) /\ s[i].kind = "set"}

\* upsertDotenvAssignments: every active assignment of a key is rewritten, or the first
\* commented one; keys without either follow at the end, after an empty line.
UpsertFirst(s, v) ==
  LET t == Rewrite(s, {i \in Assigned(s) : \A j \in 1 .. i - 1 : s[j] # s[i]}, v)
  IN  t \o Assignments(Missing(t), v)
Commented(s) ==
  {i \in DOMAIN s : /\ Managed(s[i]) /\ s[i].kind = "comment" /\ s[i].key \notin Active(s)
                    /\ \A j \in 1 .. i - 1 : s[j] # s[i]}
Upsert(s, v) ==
  LET t == Rewrite(s, Assigned(s) \cup Commented(s), v)
      blank == IF t # <<>> /\ Last(t).kind # "blank" THEN <<Item("blank")>> ELSE <<>>
  IN  IF Missing(t) = <<>> THEN t ELSE t \o (blank \o Assignments(Missing(t), v))

\* patchPHPArrayValue for one key after the other: the entry of the key is rewritten, or one
\* is added at the end.
PatchArray(s, v) == Rewrite(s, Assigned(s), v) \o Assignments(Missing(s), v)

\* patchPHPConstants: defines are rewritten; those that are missing come before the anchor,
\* or else before the first include, or at the end.
Place(s) ==
  LET anchor  == SelectInSeq(s, LAMBDA i : i.kind = "set" /\ i.key = Anchor)
      require == SelectInSeq(s, LAMBDA i : i.kind = "require")
  IN  IF anchor # 0 THEN anchor ELSE IF require # 0 THEN require ELSE Len(s) + 1
PatchConstants(s, v) ==
  LET t == Rewrite(s, Assigned(s), v)
      n == Place(t)
  IN  SubSeq(t, 1, n - 1) \o (Assignments(Missing(t), v) \o SubSeq(t, n, Len(t)))

\* patchPHPInclude: the block stays where it is when nothing follows it, or moves to the end.
PatchInclude(s) ==
  Append(Picked(s, {i \in DOMAIN s : s[i].kind # "block"}), Item("block"))

Edited(type, s, v) ==
  CASE type = "dotenv"        -> Upsert(s, v)
    [] type = "php-array"     -> PatchArray(s, v)
    [] type = "php-constants" -> PatchConstants(s, v)
    [] type = "php-include"   -> PatchInclude(s)
    [] type = "write-file"    -> Assignments(Key, v)

\* What the edits refuse to touch: PHP that they do not understand, keys of an array and
\* constants that are there twice, include markers that do not match.
Twice(s, kind, key) ==
  \E i, j \in DOMAIN s : i # j /\ \A n \in {i, j} : s[n].kind = kind /\ s[n].key = key
Refused(type, s) ==
  \/ type = "php-array" /\ Item("odd") \in Range(s)
  \/ /\ type \in {"php-array", "php-constants"}
     /\ \E k \in Range(Key) : Twice(s, "set", k)
  \/ type = "php-include" /\ (Item("open") \in Range(s) \/ Twice(s, "block", Anchor))

\* readFrameworkActionFile: a fallback, an empty text, or nothing to go on with.
Source(type) ==
  LET s == text.edited
  IN  IF type = "write-file" THEN {<<>>}
      ELSE IF s # Absent THEN {s}
      ELSE CASE type = "dotenv"      -> {<<>>, <<Comment(Key[1])>>}
             [] type = "php-include" -> {<<>>}
             [] OTHER                -> {<<Set(Key[1], Own)>>}

-----------------------------------------------------------------------------
(* A hook. *)

On(r, step) == hook[r].step = step
Action(r) == manifest[hook[r].action]
File(r) == IF Action(r) = "write-file" THEN "written" ELSE "edited"
Busy == {r \in Runner : ~On(r, "idle")}
Kept == UNCHANGED <<readonly, windows, manifest, credentials, hooks, edits>>

\* runPostComposerHook: the values are those of the credentials now.
BeginHook(r) ==
  /\ On(r, "idle") /\ hooks < MaxHooks /\ hooks' = hooks + 1
  /\ hook' = [q \in Runner |->
       IF q = r THEN [NoHook EXCEPT !.step = "read", !.value = credentials, !.alone = Busy = {}]
       ELSE [hook[q] EXCEPT !.alone = @ /\ q \notin Busy]]
  /\ delivered' = Absent
  /\ UNCHANGED <<text, protected, readonly, windows, manifest, credentials, edits, others, raced, stopped>>

\* The hook ends, well or with an error.
Leave(r, well) ==
  /\ hook' = [hook EXCEPT ![r] = NoHook]
  /\ delivered' = IF well /\ hook[r].alone THEN hook[r].value ELSE Absent

\* runFrameworkAction, up to the result in memory.
EditText(r) ==
  /\ On(r, "read")
  /\ \E s \in Source(Action(r)) :
       IF Refused(Action(r), s) THEN Leave(r, FALSE)
       ELSE /\ hook' = [hook EXCEPT ![r].step = "stage", ![r].read = text[File(r)],
                                    ![r].result = Edited(Action(r), s, hook[r].value)]
            /\ UNCHANGED delivered
  /\ UNCHANGED <<text, protected, others, raced, stopped>> /\ Kept

\* writeFrameworkFile: the result is complete in a file of its own, or it is not used.
StageText(r) ==
  /\ On(r, "stage")
  /\ \/ Leave(r, FALSE)
     \/ hook' = [hook EXCEPT ![r].step = "replace"] /\ UNCHANGED delivered
  /\ UNCHANGED <<text, protected, others, raced, stopped>> /\ Kept

\* replaceFrameworkFile: on Windows the attribute goes first and comes back at the end.
Unprotect(r) ==
  /\ On(r, "replace") /\ windows /\ File(r) = "edited" /\ protected
  /\ protected' = FALSE
  /\ hook' = [hook EXCEPT ![r].open = TRUE]
  /\ UNCHANGED <<text, others, raced, stopped, delivered>> /\ Kept

Replace(r) ==
  /\ On(r, "replace") /\ ~(windows /\ File(r) = "edited" /\ protected)
  /\ text' = [text EXCEPT ![File(r)] = hook[r].result]
  /\ hook' = [hook EXCEPT ![r].step = "restore"]
  /\ raced' = (raced \/ (File(r) = "edited" /\ text.edited # hook[r].read))
  /\ protected' = (protected /\ (File(r) # "edited" \/ windows))
  /\ UNCHANGED <<others, stopped, delivered>> /\ Kept

ReplaceFails(r) ==
  /\ On(r, "replace")
  /\ protected' = (protected \/ hook[r].open)
  /\ Leave(r, FALSE)
  /\ UNCHANGED <<text, others, raced, stopped>> /\ Kept

\* The attribute is back; then the next action, or the end.
Restore(r) ==
  /\ On(r, "restore")
  /\ protected' = (protected \/ hook[r].open)
  /\ IF hook[r].action < Len(manifest)
     THEN /\ hook' = [hook EXCEPT ![r].step = "read", ![r].action = @ + 1, ![r].read = Absent,
                                  ![r].result = <<>>, ![r].open = FALSE]
          /\ UNCHANGED delivered
     ELSE Leave(r, TRUE)
  /\ UNCHANGED <<text, others, raced, stopped>> /\ Kept

Kill(r) ==
  /\ ~On(r, "idle")
  /\ Leave(r, FALSE) /\ stopped' = TRUE
  /\ UNCHANGED <<text, protected, others, raced>> /\ Kept

-----------------------------------------------------------------------------
(* The user. *)

Disturb == hook' = [r \in Runner |-> [hook[r] EXCEPT !.alone = @ /\ r \notin Busy]]

\* The user, or a Composer plugin, writes more into the file.
EditByHand ==
  /\ edits < MaxEdits /\ edits' = edits + 1
  /\ text.edited # Absent
  /\ text' = [text EXCEPT !.edited = Append(@, Text(1))]
  /\ others' = Append(others, Text(1))
  /\ Disturb /\ delivered' = Absent
  /\ UNCHANGED <<protected, readonly, windows, manifest, credentials, hooks, raced, stopped>>

ChangeCredentials ==
  /\ edits < MaxEdits /\ edits' = edits + 1
  /\ \E v \in Credential \ {credentials} : credentials' = v
  /\ delivered' = Absent
  /\ UNCHANGED <<text, protected, readonly, windows, manifest, hook, hooks, others, raced, stopped>>

FrameworkNext ==
  \/ \E r \in Runner :
       \/ BeginHook(r) \/ EditText(r) \/ StageText(r) \/ Unprotect(r) \/ Replace(r)
       \/ ReplaceFails(r) \/ Restore(r) \/ Kill(r)
  \/ EditByHand \/ ChangeCredentials

FrameworkSpec == FrameworkInit /\ [][FrameworkNext]_frameworkVars

-----------------------------------------------------------------------------

\* The types.
FrameworkTypeOK ==
  /\ DOMAIN text = {"edited", "written"}
  /\ \A f \in DOMAIN text : text[f] # Absent =>
       \A i \in DOMAIN text[f] : DOMAIN text[f][i] = {"kind", "key", "value"}
  /\ protected \in BOOLEAN /\ readonly \in BOOLEAN /\ windows \in BOOLEAN
  /\ manifest \in Manifest /\ credentials \in Credential
  /\ \A r \in Runner :
       /\ DOMAIN hook[r] = DOMAIN NoHook
       /\ hook[r].step \in {"idle", "read", "stage", "replace", "restore"}
       /\ hook[r].action \in DOMAIN manifest /\ hook[r].value \in Credential \cup {Absent}
  /\ hooks \in 0 .. MaxHooks /\ edits \in 0 .. MaxEdits
  /\ raced \in BOOLEAN /\ stopped \in BOOLEAN /\ delivered \in Credential \cup {Absent}

\* The file that an action is for.
Target(type) == IF type = "write-file" THEN text.written ELSE text.edited
Values(s, k) == {s[i].value : i \in {j \in DOMAIN s : s[j].kind = "set" /\ s[j].key = k}}

\* After a hook that nothing came in between of, the framework gets the credentials: each
\* key has their value and no other, and a second hook would change nothing.  What is not
\* polka's is still there, in its order, unless it was written between a hook's reading of
\* the file and its replacement; the include block is there only when the file that it
\* includes is; and on Windows a read-only file is read-only again unless a hook was killed
\* (runFrameworkAction, writeFrameworkFile).
ConfiguredAndKept ==
  /\ delivered # Absent =>
       \A i \in DOMAIN manifest :
         LET s == Target(manifest[i])
         IN  /\ s # Absent /\ ~Refused(manifest[i], s)
             /\ Edited(manifest[i], s, delivered) = s
             /\ manifest[i] # "php-include" =>
                  \A k \in Range(Key) : Values(s, k) = {delivered}
  /\ ~raced /\ text.edited # Absent => Foreigns(text.edited) = others
  /\ text.edited # Absent /\ Item("block") \in Range(text.edited) => text.written # Absent
  /\ windows /\ ~stopped /\ Busy = {} => protected = readonly
===============================================================================
