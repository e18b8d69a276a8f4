----------------------------- MODULE Certificates -----------------------------
(***************************************************************************)
(* The local HTTPS certificates (cli/serve_tls.go, tls_private_key.go,     *)
(* command_cert.go, cert_trust.go): an authority and one server            *)
(* certificate, four files for all projects of the machine, encrypted with *)
(* random keys of the OS keyring, one per key file.  polka serve creates   *)
(* what is missing, and issues the server certificate again when it does   *)
(* not name its host; polka cert-install replaces everything and tells the *)
(* trust store.  There is no lock.                                         *)
(***************************************************************************)
EXTENDS Naturals

CONSTANTS Holder,       \* the commands
          Host,         \* the host names of projects, but for localhost and its subdomains
          Missing,      \* no file, no key in the keyring, no name beside localhost
          Torn,         \* a file that was truncated
          Plain,        \* a key file that is not encrypted
          MaxGenerated, \* bound: keys generated
          MaxAccidents  \* bound: kills, failed writes and deletions by hand

\* What the files may hold: the authority's certificate, the server's, a key.
Authority == [pair : Nat]
Server == [pair : Nat, by : Nat, host : Host \cup {Missing}]
Key == [pair : Nat, under : Holder \cup {Plain}]

CertificatesAssumption ==
  /\ {Missing, Torn, Plain} \cap Holder = {}
  /\ {Missing, Torn} \cap (Authority \cup Server \cup Key) = {}
  /\ MaxGenerated \in Nat /\ MaxAccidents \in Nat

File == {"cacert", "cakey", "cert", "key"}
KeyFile == {"cakey", "key"}

VARIABLES
  file,      \* the content of each file: the key pair it belongs to, and whose key of the
             \* keyring encrypts it, or who signed it and for which host
  keyring,   \* of each key file: the holder who made its encryption key
  trusted,   \* the authorities in the trust store
  holding,   \* of each command: what it does
  generated, \* key pairs so far
  accidents, \* accidents so far
  sound,     \* history: nothing was cut short, done at the same time or by hand
  installed  \* history: cert-install has ended well since

certificateVars == <<file, keyring, trusted, holding, generated, accidents, sound, installed>>

NoHolding == [step |-> "idle", kind |-> "serve", host |-> Missing, policy |-> "flexible",
              file |-> "cacert", ca |-> 0, pair |-> 0, under |-> Plain, alone |-> TRUE]

CertificatesInit ==
  /\ file = [f \in File |-> Missing] /\ keyring = [f \in KeyFile |-> Missing]
  /\ trusted = {}
  /\ holding = [c \in Holder |-> NoHolding]
  /\ generated = 0 /\ accidents = 0
  /\ sound = TRUE /\ installed = FALSE

On(c, label) == holding[c].step = label
Proceed(c, label) == holding' = [holding EXCEPT ![c].step = label]
End(c) == holding' = [holding EXCEPT ![c] = NoHolding]
Busy(c) == ~On(c, "idle")
Kept == UNCHANGED <<generated, accidents, sound, installed>>

\* certificateFileExists; readCertificateFile; serverCertificateCoversHost.
There(f) == file[f] # Missing
Parses(f) == file[f] \notin {Missing, Torn}
Covers(h) == Parses("cert") /\ h \in {Missing, file["cert"].host}
HasAuthority == There("cacert") /\ There("cakey")

\* decryptTLSPrivateKey: the key of the keyring is the one that the file was encrypted with.
Readable(f) == Parses(f) /\ file[f].under \in {Plain, keyring[f]}

-----------------------------------------------------------------------------
(* ensureGlobalTLSCertificateWithOptions and what it calls. *)

\* A command begins; neither it nor those that are at it are alone if there are any.
Enter(c, r) ==
  /\ On(c, "idle")
  /\ LET others == {d \in Holder : Busy(d)}
     IN  /\ holding' = [d \in Holder |->
              IF d = c THEN [r EXCEPT !.alone = others = {}]
              ELSE IF d \in others THEN [holding[d] EXCEPT !.alone = FALSE] ELSE holding[d]]
         /\ sound' = (sound /\ others = {}) /\ installed' = (installed /\ others = {})

BeginServe(c) ==
  /\ \E h \in Host \cup {Missing} : Enter(c, [NoHolding EXCEPT !.step = "look", !.host = h])
  /\ UNCHANGED <<file, keyring, trusted, generated, accidents>>

LookForAnyHost(c) ==
  /\ On(c, "look")
  /\ Proceed(c, IF There("cert") /\ There("key") /\ HasAuthority
              THEN "materialize" ELSE IF HasAuthority THEN "load" ELSE "authority")
  /\ UNCHANGED <<file, keyring, trusted>> /\ Kept
Look(c) ==
  /\ On(c, "look")
  /\ Proceed(c, IF There("cert") /\ There("key") /\ HasAuthority /\ Covers(holding[c].host)
              THEN "materialize" ELSE IF HasAuthority THEN "load" ELSE "authority")
  /\ UNCHANGED <<file, keyring, trusted>> /\ Kept

\* loadGlobalTLSCA: CreateCertificate refuses a key that is not the certificate's.
LoadAuthority(c) ==
  /\ On(c, "load")
  /\ IF Parses("cacert") /\ Readable("cakey") /\ file["cacert"].pair = file["cakey"].pair
     THEN holding' = [holding EXCEPT ![c].step = "issue", ![c].ca = file["cacert"].pair]
     ELSE End(c)
  /\ UNCHANGED <<file, keyring, trusted>> /\ Kept

\* createGlobalTLSCertificateWithOptions; createGlobalTLSServerCertificateWithCA.
Generate(c, label, first) ==
  /\ On(c, label)
  /\ generated < MaxGenerated /\ generated' = generated + 1
  /\ holding' = [holding EXCEPT ![c].step = "truncate", ![c].file = first,
                                ![c].pair = generated + 1,
                                ![c].ca = IF label = "authority" THEN generated + 1 ELSE @]
  /\ UNCHANGED <<file, keyring, trusted, accidents, sound, installed>>

NewAuthority(c) == Generate(c, "authority", "cacert")
IssueServer(c) == Generate(c, "issue", "cert")

\* os.WriteFile, of a certificate or of a key, for which FindKey has chosen the encryption.
Truncate(c) ==
  /\ On(c, "truncate")
  /\ file' = [file EXCEPT ![holding[c].file] = Torn]
  /\ Proceed(c, "write")
  /\ UNCHANGED <<keyring, trusted>> /\ Kept

Write(c) ==
  /\ On(c, "write")
  /\ LET r == holding[c]
     IN  /\ file' = [file EXCEPT ![r.file] =
              CASE r.file = "cacert"  -> [pair |-> r.pair]
                [] r.file = "cert"    -> [pair |-> r.pair, by |-> r.ca, host |-> r.host]
                [] r.file \in KeyFile -> [pair |-> r.pair, under |-> r.under]]
         /\ holding' = [holding EXCEPT ![c] =
              CASE r.file = "cacert" -> [r EXCEPT !.step = "find", !.file = "cakey"]
                [] r.file = "cert"   -> [r EXCEPT !.step = "find", !.file = "key"]
                [] r.file = "cakey"  -> [r EXCEPT !.step = "issue", !.pair = 0, !.under = Plain]
                [] r.file = "key"    ->
                     [r EXCEPT !.step = IF r.kind = "serve" THEN "materialize" ELSE "trust",
                               !.file = "cacert", !.ca = 0, !.pair = 0, !.under = Plain]]
  /\ UNCHANGED <<keyring, trusted>> /\ Kept

\* writeTLSPrivateKeyFile, ensureTLSPrivateKeyEncryptionKey: the key of the keyring, a new one,
\* or none when the keyring cannot be used and the policy lets it.
FindKey(c) ==
  /\ On(c, "find")
  /\ LET r == holding[c]
     IN  \/ /\ r.policy # "encrypted"
            /\ holding' = [holding EXCEPT ![c].step = "truncate", ![c].under = Plain]
         \/ /\ r.policy # "plain"
            /\ holding' = IF keyring[r.file] = Missing THEN [holding EXCEPT ![c].step = "ring"]
                          ELSE [holding EXCEPT ![c].step = "truncate", ![c].under = keyring[r.file]]
  /\ UNCHANGED <<file, keyring, trusted>> /\ Kept

\* A key of the keyring that another command has just set is replaced.
SetKey(c) ==
  /\ On(c, "ring")
  /\ keyring' = [keyring EXCEPT ![holding[c].file] = c]
  /\ holding' = [holding EXCEPT ![c].step = "truncate", ![c].under = c]
  /\ UNCHANGED <<file, trusted>> /\ Kept

\* materializeTLSPrivateKeyFile, and the webserver that loads the copy and the certificate.
Materialize(c) ==
  /\ On(c, "materialize")
  /\ IF Readable("key")
     THEN holding' = [holding EXCEPT ![c].step = "launch", ![c].pair = file["key"].pair]
     ELSE End(c)
  /\ UNCHANGED <<file, keyring, trusted>> /\ Kept

LaunchHTTPS(c) == On(c, "launch") /\ End(c) /\ UNCHANGED <<file, keyring, trusted>> /\ Kept

-----------------------------------------------------------------------------
(* runCertInstall. *)

BeginInstall(c) ==
  /\ \E p \in {"plain", "encrypted"} :
        Enter(c, [NoHolding EXCEPT !.step = IF p = "plain" THEN "distrust" ELSE "prepare",
                                   !.kind = "install", !.policy = p, !.file = "cakey"])
  /\ UNCHANGED <<file, keyring, trusted, generated, accidents>>

\* ensureCertInstallEncryptionKeys; without a keyring, or a trust store, the command ends
\* and nothing else was changed.
PrepareKeys(c) ==
  /\ On(c, "prepare")
  /\ \/ End(c) /\ UNCHANGED keyring
     \/ LET f == holding[c].file
        IN  /\ keyring' = IF keyring[f] = Missing THEN [keyring EXCEPT ![f] = c] ELSE keyring
            /\ holding' = IF f = "cakey" THEN [holding EXCEPT ![c].file = "key"]
                          ELSE [holding EXCEPT ![c].step = "distrust"]
  /\ UNCHANGED <<file, trusted>> /\ Kept

\* The authority on disk, when it can be read, leaves the trust store.
Distrust(c) ==
  /\ On(c, "distrust")
  /\ trusted' = IF Parses("cacert") THEN trusted \ {file["cacert"].pair} ELSE trusted
  /\ holding' = [holding EXCEPT ![c].step = "remove", ![c].file = "cert"]
  /\ UNCHANGED <<file, keyring>> /\ Kept

\* regenerateGlobalTLSCertificateWithOptions removes the four files in this order.
RemoveFiles(c) ==
  /\ On(c, "remove")
  /\ LET f == holding[c].file
     IN  /\ file' = [file EXCEPT ![f] = Missing]
         /\ holding' = CASE f = "cert"   -> [holding EXCEPT ![c].file = "key"]
                         [] f = "key"    -> [holding EXCEPT ![c].file = "cacert"]
                         [] f = "cacert" -> [holding EXCEPT ![c].file = "cakey"]
                         [] f = "cakey"  -> [holding EXCEPT ![c].step = "authority"]
  /\ UNCHANGED <<keyring, trusted>> /\ Kept

\* Whatever authority is on disk by now; with it a command that was alone ends well.
Trust(c) ==
  /\ On(c, "trust")
  /\ trusted' = IF Parses("cacert") THEN trusted \cup {file["cacert"].pair} ELSE trusted
  /\ sound' = (sound \/ holding[c].alone) /\ installed' = (installed \/ holding[c].alone)
  /\ End(c)
  /\ UNCHANGED <<file, keyring, generated, accidents>>

-----------------------------------------------------------------------------
(* Accidents. *)

Accident ==
  /\ accidents < MaxAccidents /\ accidents' = accidents + 1
  /\ sound' = FALSE /\ installed' = FALSE

\* The command is killed, or a write, a removal or the trust store fails it.
CutOff(c) ==
  /\ Busy(c) /\ Accident /\ End(c)
  /\ UNCHANGED <<file, keyring, trusted, generated>>

\* Files and keys are deleted by hand.
DeleteByHand ==
  /\ Accident
  /\ \/ \E f \in File : There(f) /\ file' = [file EXCEPT ![f] = Missing] /\ UNCHANGED keyring
     \/ \E f \in KeyFile : /\ keyring[f] # Missing /\ UNCHANGED file
                            /\ keyring' = [keyring EXCEPT ![f] = Missing]
  /\ holding' = [c \in Holder |-> IF Busy(c) THEN [holding[c] EXCEPT !.alone = FALSE] ELSE holding[c]]
  /\ UNCHANGED <<trusted, generated>>

CertificatesNext ==
  \/ \E c \in Holder :
        \/ BeginServe(c) \/ Look(c) \/ LoadAuthority(c) \/ NewAuthority(c) \/ IssueServer(c)
        \/ FindKey(c) \/ SetKey(c) \/ Truncate(c) \/ Write(c)
        \/ Materialize(c) \/ LaunchHTTPS(c)
        \/ BeginInstall(c) \/ PrepareKeys(c) \/ Distrust(c) \/ RemoveFiles(c) \/ Trust(c)
        \/ CutOff(c)
  \/ DeleteByHand

CertificatesSpec == CertificatesInit /\ [][CertificatesNext]_certificateVars

-----------------------------------------------------------------------------
(* Correctness. *)

\* The types.
CertificatesTypeOK ==
  /\ \A f \in File : Parses(f) => file[f].pair \in 1..generated
  /\ keyring \in [KeyFile -> Holder \cup {Missing}] /\ trusted \subseteq 1..generated
  /\ \A c \in Holder : holding[c].file \in File /\ holding[c].ca \in 0..generated
  /\ generated \in 0..MaxGenerated /\ accidents \in 0..MaxAccidents
  /\ sound \in BOOLEAN /\ installed \in BOOLEAN

\* The four files belong together: the keys can be read and are those of their certificates,
\* and the authority has signed the server's.
Consistent ==
  /\ Readable("cakey") /\ Parses("cacert") /\ file["cakey"].pair = file["cacert"].pair
  /\ Readable("key") /\ Parses("cert") /\ file["key"].pair = file["cert"].pair
  /\ file["cert"].by = file["cacert"].pair

\* When no command was cut off, overtaken by another one or disturbed by hand since the last
\* cert-install that was not, or ever: the files are consistent or were never made, a
\* webserver that was started alone has the key of its certificate, which names its host;
\* and after a cert-install the authority of the files is trusted, although serve issues
\* certificates at will (ensureGlobalTLSCertificateWithOptions, runCertInstall).
CertificatesUsable ==
  sound =>
    /\ (\A c \in Holder : ~Busy(c)) => Consistent \/ \A f \in File : ~There(f)
    /\ installed /\ (\A c \in Holder : ~Busy(c)) => file["cacert"].pair \in trusted
    /\ \A c \in Holder : On(c, "launch") /\ holding[c].alone =>
          Covers(holding[c].host) /\ file["cert"].pair = holding[c].pair
=============================================================================
