------------------------------ MODULE PHPRuntime ------------------------------
(***************************************************************************)
(* The installed PHP of one environment: its php.ini, the OpenSSL config   *)
(* and the CA bundle beside it, and the extensions that PIE places in its  *)
(* extension directory (tools/php.go, php_extensions.go, frankenphp.go,    *)
(* backend/pie.go, cli/command_ext.go).  polka install derives the files   *)
(* from the config; polka ext runs PIE, then writes the config, then the   *)
(* files.  Each of these steps may be the last: the command fails or is    *)
(* killed there.  The user edits the config at any time.                   *)
(***************************************************************************)
EXTENDS Naturals

CONSTANTS Module,   \* PHP extensions
          ByPIE,    \* those that a PIE package brings
          Zend,     \* those that are Zend extensions
          Secure,   \* those that need the CA bundle
          MaxTweaks, \* bound: edits by hand
          MaxCuts    \* bound: commands that end early

PHPAssumption ==
  /\ ByPIE \subseteq Module /\ Zend \subseteq Module /\ Secure \subseteq Module
  /\ MaxTweaks \in Nat /\ MaxCuts \in Nat

\* What the config says: switches for extensions, the PIE packages, and whether there is
\* a memory limit or an OPcache directive.
Wants == [switch : [Module -> {"unset", "on", "off"}], packages : SUBSET ByPIE, other : BOOLEAN]
NoWants == [switch |-> [m \in Module |-> "unset"], packages |-> {}, other |-> FALSE]

VARIABLES
  flavor,   \* "built" from source, with an ext directory; "windows"; or "frankenphp"
  builtin,  \* extensions that are compiled in; never changes
  suggested, \* extensions that the framework and the tools ask for; never changes
  wants,    \* the config
  ini,      \* php.ini
  library,  \* PIE's libraries in the extension directory
  ssl,    \* the OpenSSL config and the CA bundle
  act,      \* the command that runs
  tweaks,   \* edits so far
  cuts      \* commands that ended early so far

phpVars == <<flavor, builtin, suggested, wants, ini, library, ssl, act, tweaks, cuts>>

Line == {"none", "extension", "zend_extension", "off"}
Blank == [m \in Module |-> "none"]
Ini(at, lines, other) == [at |-> at, lines |-> lines, other |-> other]
Act(step, job, module, w, todo) ==
  [step |-> step, job |-> job, module |-> module, wants |-> w, todo |-> todo]
None == "none"
Resting == Act("idle", None, None, NoWants, {})

PHPInit ==
  /\ flavor \in {"built", "windows", "frankenphp"}
  /\ builtin \in SUBSET (Module \ ByPIE) /\ suggested \in SUBSET (Module \ ByPIE)
  /\ wants = NoWants /\ ini = Ini("absent", Blank, FALSE) /\ library = {}
  /\ ssl = [openssl |-> "absent", bundle |-> "absent"]
  /\ act = Resting /\ tweaks = 0 /\ cuts = 0

-----------------------------------------------------------------------------
(* The config of PHP. *)

\* withFrameworkPHPConfig and EffectivePHPExtensionsForInstall: a switch of the user comes
\* first; the framework, the tools and PIE only add.
Effective(w) ==
  [m \in Module |-> IF w.switch[m] = "unset" /\ m \in suggested \cup w.packages
                    THEN "on" ELSE w.switch[m]]

NeedsBundle(w) == \E m \in Secure : Effective(w)[m] = "on"

\* PHPInstallConfig.IsZero: a PHP that was built declares its extension directory.
IsZero(w) ==
  /\ \A m \in Module : Effective(w)[m] = "unset"
  /\ ~w.other /\ flavor # "built"

\* skipBuiltInPHPExtensions and renderPHPConfig.
Rendered(w) ==
  [m \in Module |->
     CASE m \in builtin \/ Effective(w)[m] = "unset" -> "none"
       [] m \notin builtin /\ Effective(w)[m] = "off" -> "off"
       [] OTHER -> IF m \in Zend THEN "zend_extension" ELSE "extension"]

\* php -m, with the php.ini: PHP loads a Zend extension by its own directive only.  What
\* PIE does not bring is there.
Loaded(m) ==
  \/ m \in builtin
  \/ /\ ini.at = "written" /\ ini.lines[m] = (IF m \in Zend THEN "zend_extension" ELSE "extension")
     /\ m \in ByPIE => m \in library

-----------------------------------------------------------------------------
(* Commands. *)

Still == UNCHANGED <<flavor, builtin, suggested, tweaks, cuts>>
Waiting == act.step \in {"idle", "done"}
To(step) == act' = [act EXCEPT !.step = step]

\* polka install, once the tools are in place: also where there was nothing to install.
Install ==
  /\ Waiting /\ act' = Act("openssl", "install", None, wants, {})
  /\ UNCHANGED <<wants, ini, library, ssl>> /\ Still

\* polka ext install and polka ext remove: not for FrankenPHP.
ExtInstall(m) ==
  /\ Waiting /\ flavor # "frankenphp" /\ act' = Act("run", "add", m, NoWants, {})
  /\ UNCHANGED <<wants, ini, library, ssl>> /\ Still
ExtRemove(m) ==
  /\ Waiting /\ flavor # "frankenphp" /\ act' = Act("run", "drop", m, NoWants, {})
  /\ UNCHANGED <<wants, ini, library, ssl>> /\ Still

\* RunPIE, with the internal PHP.
RunPIE ==
  /\ act.step = "run" /\ To("configure")
  /\ library' = IF act.job = "add" THEN library \cup {act.module} ELSE library \ {act.module}
  /\ UNCHANGED <<wants, ini, ssl>> /\ Still

\* ConfigureValue reads the config and writes it: an edit in between is lost.
ConfigureValue ==
  /\ act.step = "configure"
  /\ act' = [act EXCEPT !.step = "save",
                        !.wants = [wants EXCEPT !.packages =
                          IF act.job = "add" THEN @ \cup {act.module} ELSE @ \ {act.module}]]
  /\ UNCHANGED <<wants, ini, library, ssl>> /\ Still

SaveConfig ==
  /\ act.step = "save" /\ To("sync") /\ wants' = act.wants
  /\ UNCHANGED <<ini, library, ssl>> /\ Still

\* SyncPHPRuntimeConfig reads the config once more.
SyncPHPRuntimeConfig ==
  /\ act.step = "sync" /\ act' = [act EXCEPT !.step = "openssl", !.wants = wants]
  /\ UNCHANGED <<wants, ini, library, ssl>> /\ Still

\* ensureInstalledPHPOpenSSLConfig, and ensureInstalledPHPCABundle where an extension needs
\* it: written in place, and only if there is no such file.  Where the system has a
\* bundle, that one is used.
Ensure(file, from, filling, to) ==
  \/ /\ act.step = from
     /\ IF ssl[file] = "absent"
        THEN To(filling) /\ ssl' = [ssl EXCEPT ![file] = "torn"]
        ELSE To(to) /\ UNCHANGED ssl
     /\ UNCHANGED <<wants, ini, library>> /\ Still
  \/ /\ act.step = filling /\ To(to) /\ ssl' = [ssl EXCEPT ![file] = "whole"]
     /\ UNCHANGED <<wants, ini, library>> /\ Still

EnsureOpenSSLConfig ==
  Ensure("openssl", "openssl", "fill openssl",
         IF NeedsBundle(act.wants) THEN "bundle" ELSE "decide")

EnsureCABundle ==
  IF flavor = "windows" THEN Ensure("bundle", "bundle", "fill bundle", "decide")
  ELSE /\ act.step = "bundle" /\ To("decide")
       /\ UNCHANGED <<wants, ini, library, ssl>> /\ Still

\* syncInstalledPHPRuntimeConfig: an install with nothing to say leaves php.ini alone.
NeverForce == FALSE
Force == act.job # "install"
Decide ==
  /\ act.step = "decide"
  /\ To(IF IsZero(act.wants) /\ ~Force THEN "extensions" ELSE "write")
  /\ UNCHANGED <<wants, ini, library, ssl>> /\ Still

\* writePHPConfigFile: in place.
Truncate ==
  /\ act.step = "write" /\ To("fill")
  /\ ini' = Ini("torn", Blank, FALSE)
  /\ UNCHANGED <<wants, library, ssl>> /\ Still

WriteIni ==
  /\ act.step = "fill" /\ To(IF act.job = "install" THEN "extensions" ELSE "done")
  /\ ini' = Ini("written", Rendered(act.wants), act.wants.other)
  /\ UNCHANGED <<wants, library, ssl>> /\ Still

\* installPIEExtensions: what PHP does not load and nobody has switched off.
ListMissing ==
  /\ act.step = "extensions"
  /\ act.wants.packages # {} => flavor # "frankenphp"
  /\ act' = [act EXCEPT !.step = "provide",
                        !.todo = {m \in act.wants.packages :
                                    ~Loaded(m) /\ act.wants.switch[m] # "off"}]
  /\ UNCHANGED <<wants, ini, library, ssl>> /\ Still

Provide ==
  /\ act.step = "provide"
  /\ \/ \E m \in act.todo :
          act' = [act EXCEPT !.todo = @ \ {m}] /\ library' = library \cup {m}
     \/ act.todo = {} /\ To("done") /\ UNCHANGED library
  /\ UNCHANGED <<wants, ini, ssl>> /\ Still

-----------------------------------------------------------------------------

\* A call fails and the command ends with an error, or it is killed.
Abort ==
  /\ ~Waiting /\ cuts < MaxCuts /\ cuts' = cuts + 1 /\ act' = Resting
  /\ UNCHANGED <<flavor, builtin, suggested, wants, ini, library, ssl, tweaks>>

EditWants ==
  /\ tweaks < MaxTweaks /\ tweaks' = tweaks + 1
  /\ \/ \E m \in Module, s \in {"unset", "on", "off"} : wants' = [wants EXCEPT !.switch[m] = s]
     \/ \E m \in ByPIE, add \in BOOLEAN :
          wants' = [wants EXCEPT !.packages = IF add THEN @ \cup {m} ELSE @ \ {m}]
     \/ wants' = [wants EXCEPT !.other = ~@]
  /\ wants' # wants
  /\ UNCHANGED <<flavor, builtin, suggested, ini, library, ssl, act, cuts>>

PHPNext ==
  \/ Install
  \/ \E m \in ByPIE : ExtInstall(m) \/ ExtRemove(m)
  \/ RunPIE \/ ConfigureValue \/ SaveConfig \/ SyncPHPRuntimeConfig
  \/ EnsureOpenSSLConfig \/ EnsureCABundle \/ Decide \/ Truncate \/ WriteIni
  \/ ListMissing \/ Provide
  \/ Abort
  \/ EditWants

PHPSpec == PHPInit /\ [][PHPNext]_phpVars

-----------------------------------------------------------------------------

\* The types.
PHPTypeOK ==
  /\ flavor \in {"built", "windows", "frankenphp"}
  /\ builtin \subseteq Module /\ suggested \subseteq Module /\ wants \in Wants
  /\ ini \in [at : {"absent", "torn", "written"}, lines : [Module -> Line], other : BOOLEAN]
  /\ library \subseteq ByPIE
  /\ ssl \in [openssl : {"absent", "torn", "whole"}, bundle : {"absent", "torn", "whole"}]
  /\ act.wants \in Wants /\ act.todo \subseteq ByPIE
  /\ tweaks \in 0 .. MaxTweaks /\ cuts \in 0 .. MaxCuts

\* Whatever commands that failed or were killed have left behind, one that succeeds puts it
\* right: PHP then loads what the config that the command has read asks for, and no other
\* extension that is not compiled in.  There are two limits.  polka ext places no library
\* but its own package's (runExtInstall), so that an extension may be missing from another
\* package.  And an install that finds nothing to say does not touch an earlier php.ini,
\* which goes on loading what the config has dropped, or stays torn
\* (syncInstalledPHPRuntimeConfig); polka ext never does that.
InstalledPHPFollows ==
  act.step = "done" =>
    \/ act.job = "install" /\ IsZero(act.wants)
    \/ /\ ini.at = "written" /\ ini.other = act.wants.other
       /\ \A m \in Module :
            LET on == Effective(act.wants)[m] = "on"
                placed == act.job = "install" \/ (act.job = "add" /\ m = act.module)
            IN  /\ Loaded(m) => on \/ m \in builtin
                /\ on /\ (m \in ByPIE => m \in act.wants.packages /\ placed) => Loaded(m)
===============================================================================
