---------------------------- MODULE ReleaseDownload ----------------------------
(***************************************************************************)
(* One download of a tool by its manifest (tools/downloader.go,            *)
(* github_archive.go, and the resolve hook of script_hooks.go): the request*)
(* is resolved to a version, upstream's answers to several calls are put   *)
(* together, the archive is checked against what was published for it, and *)
(* goes to the payload cache.  Upstream changes between any two calls, and *)
(* may publish a release, replace its archive, or withdraw it.             *)
(*                                                                         *)
(* A version is its dot-separated numbers, and whether a suffix like -rc1  *)
(* follows them.  The transfer of the archive is RangedDownload's subject, *)
(* its publication PayloadCache's.                                         *)
(***************************************************************************)
EXTENDS Naturals, Sequences, SequencesExt

CONSTANTS Tag,      \* versions that upstream may release
          Draft,    \* those that are drafts
          Requested, \* versions that are asked for
          Allowed,  \* the manifest's version constraint
          PageSize, \* releases on a page of the list
          MaxTries, \* attempts of a call
          MaxNews,  \* bound: changes upstream
          Damaged   \* an archive that is none of upstream's

ReleaseAssumption ==
  /\ \A v \in Tag \cup Requested :
       DOMAIN v = {"parts", "pre"} /\ v.parts \in Seq(Nat) /\ v.pre \in BOOLEAN
  /\ Draft \subseteq Tag /\ Allowed \subseteq Tag \cup Requested
  /\ PageSize \in Nat \ {0} /\ MaxTries \in Nat \ {0} /\ MaxNews \in Nat
  /\ Damaged \notin Nat

\* A manifest: how it finds versions; what it verifies an archive with (embedded-commit-id
\* needs a repository); whether it names a file of checksums, which goes unread when the commit
\* is asked for; and the checksum that is told along with a release, a digest of the asset
\* upstream or what a resolve hook has found, by the declared algorithm or by another one.
Tool ==
  {tool \in [mode : {"fixed", "index", "tag", "releases", "script"},
             algorithm : {"none", "declared", "commit"}, url : BOOLEAN,
             told : {"nothing", "same", "other"}] :
     /\ tool.algorithm = "commit" => tool.mode \in {"tag", "releases"} /\ ~tool.url
     /\ tool.told # "nothing" =>
          \/ tool.mode = "releases"
          \/ tool.mode = "script" /\ tool.algorithm = "declared" /\ tool.told = "same"}

\* An archive: what it holds, and the commit in the comment of a zip, 0 where none is to be
\* read.  Damage to the rest of it leaves the comment alone.
NoArchive == [content |-> Damaged, comment |-> 0]
Arriving(c) == {[content |-> c, comment |-> c]} \cup [content : {Damaged}, comment : {0, c}]

VARIABLES
  offered,  \* the list of releases, the latest first
  copy,     \* of each release: which of its archives, with their checksums, is up
  news,     \* changes upstream so far
  download  \* the download: its request, where it is, and what it knows

releaseVars == <<offered, copy, news, download>>

ReleaseInit ==
  /\ offered \in {s \in SeqOf(Tag, 3) : IsInjective(s)}
  /\ copy = [t \in Tag |-> 1] /\ news = 0
  /\ \E tool \in Tool, r \in Requested :
       download = [step |-> "resolve", tool |-> tool, request |-> r, page |-> 1, tries |-> 1,
                   got |-> <<>>, version |-> r, sum |-> 0, archive |-> NoArchive,
                   lasting |-> {}, steady |-> TRUE]

-----------------------------------------------------------------------------
(* Versions. *)

\* versionMatchesRequest: equal, or the request and then more numbers.
Matches(v, r) == v = r \/ (~r.pre /\ IsStrictPrefix(r.parts, v.parts))

\* compareVersions: a missing number is a zero.
Part(v, i) == IF i <= Len(v.parts) THEN v.parts[i] ELSE 0
Newer(v, w) ==
  \E i \in 1 .. Len(v.parts) :
    Part(v, i) > Part(w, i) /\ \A j \in 1 .. i - 1 : Part(v, j) = Part(w, j)

NeedsResolution(r) == ~r.pre /\ Len(r.parts) < 3

\* Prereleases are for requests with a suffix, drafts are for nobody.
InIndex(v, r)   == Matches(v, r) /\ (r.pre \/ ~v.pre)
InReleases(v, r) == Matches(v, r) /\ (r.pre \/ ~v.pre) /\ v \notin Draft
\* resolveMatchingVersion, of a resolve hook: prereleases as well.
InHook(v, r)    == Matches(v, r)
Candidate(v, r, mode) ==
  CASE mode = "releases" -> InReleases(v, r)
    [] mode = "script"   -> InHook(v, r)
    [] OTHER             -> InIndex(v, r)

\* The newest of a list, and the first of those.
FirstCandidate(s, r, mode) ==
  {i \in DOMAIN s : /\ Candidate(s[i], r, mode)
                    /\ \A j \in 1 .. i - 1 : ~Candidate(s[j], r, mode)}
Selected(s, r, mode) ==
  {i \in DOMAIN s :
     /\ Candidate(s[i], r, mode)
     /\ \A j \in DOMAIN s : Candidate(s[j], r, mode) =>
          ~Newer(s[j], s[i]) /\ (j < i => Newer(s[i], s[j]))}

-----------------------------------------------------------------------------
(* Upstream. *)

Listing == download.step = "resolve" /\ download.page > 1

Change == news < MaxNews /\ news' = news + 1 /\ download.step \notin {"cached", "failed"}

PublishRelease(t) ==
  /\ Change /\ t \notin Range(offered)
  /\ offered' = <<t>> \o offered
  /\ UNCHANGED <<copy, download>>

ReplaceArchive(t) ==
  /\ Change /\ t \in Range(offered)
  /\ copy' = [copy EXCEPT ![t] = @ + 1]
  /\ UNCHANGED <<offered, download>>

WithdrawRelease(t) ==
  /\ Change
  /\ \E i \in DOMAIN offered : offered[i] = t /\ offered' = RemoveAt(offered, i)
  /\ download' = [download EXCEPT !.steady = @ /\ ~Listing]
  /\ UNCHANGED copy

-----------------------------------------------------------------------------
(* The download. *)

At(label) == download.step = label
Mode == download.tool.mode
Upstream == UNCHANGED <<offered, copy, news>>

\* The version is the one that was asked for, and no call is made to find it.
Immediate ==
  Mode \in {"fixed", "tag"} \/ (Mode = "index" /\ ~NeedsResolution(download.request))

Fail == download' = [download EXCEPT !.step = "failed"]

\* doDownloadRequest: a call that was not answered, or with a status that may pass, is made
\* again after a while, until the attempts are used up.
Calling == download.step \in {"commit", "sum"} \/ (At("resolve") /\ ~Immediate)

TryOnceTooMany ==
  /\ Calling
  /\ download.tries <= MaxTries
  /\ download' = [download EXCEPT !.tries = @ + 1]
  /\ Upstream
TryAgain ==
  /\ Calling
  /\ download.tries < MaxTries
  /\ download' = [download EXCEPT !.tries = @ + 1]
  /\ Upstream

GiveUp ==
  /\ Calling \/ At("archive")
  /\ Fail /\ Upstream

\* resolveManifestRequest goes on with a version, if the constraint allows it; the commit of
\* its tag comes last.
Resolved(v, sum, lasting) ==
  IF v \notin Allowed THEN Fail
  ELSE download' =
         [download EXCEPT !.step = IF download.tool.algorithm = "commit" THEN "commit"
                                     ELSE "archive",
                          !.version = v, !.sum = sum, !.got = <<>>, !.lasting = lasting,
                          !.tries = 1, !.page = 1]

\* manifestBuildRequired, before any call: the platform has no archive and has to compile.
Refuse == At("resolve") /\ download.page = 1 /\ download.tries = 1 /\ Fail /\ Upstream

\* resolveManifestDownloadVersion without a call.
TakeRequest ==
  /\ At("resolve") /\ Immediate
  /\ Resolved(download.request, 0, {})
  /\ Upstream

\* resolveReleaseIndexVersion: one page names all that there is.
ReadIndex ==
  /\ At("resolve") /\ Mode = "index" /\ ~Immediate
  /\ LET best == Selected(offered, download.request, Mode)
     IN  IF best = {} THEN Fail
         ELSE \E i \in best : Resolved(offered[i], 0, Range(offered))
  /\ Upstream

\* applyGitHubAssetDigest: unless another algorithm is declared.  A hook's checksum is of
\* the algorithm that it names.
Digest(c) ==
  IF \/ download.tool.told = "same" /\ download.tool.algorithm # "commit"
     \/ download.tool.told = "other" /\ download.tool.algorithm = "none"
  THEN c ELSE 0

\* resolveScriptRequest: the page that the hook reads may have the checksums as well.
ResolveByHook ==
  /\ At("resolve") /\ Mode = "script"
  /\ LET best == Selected(offered, download.request, Mode)
     IN  IF best = {} THEN Fail
         ELSE \E i \in best : Resolved(offered[i], Digest(copy[offered[i]]), Range(offered))
  /\ Upstream

\* fetchGitHubReleases asks for pages until one is short, and resolveGitHubReleaseVersion
\* takes the newest of all of them.
FetchPage ==
  /\ At("resolve") /\ Mode = "releases"
  /\ LET page == SubSeq(offered, (download.page - 1) * PageSize + 1,
                        IF download.page * PageSize < Len(offered)
                        THEN download.page * PageSize ELSE Len(offered))
         got  == download.got \o [i \in DOMAIN page |-> [tag |-> page[i], copy |-> copy[page[i]]]]
         lasting == IF download.page = 1 THEN Range(offered) ELSE download.lasting
         best == Selected([i \in DOMAIN got |-> got[i].tag], download.request, Mode)
     IN  IF Len(page) = PageSize
         THEN download' = [download EXCEPT !.got = got, !.page = @ + 1, !.tries = 1,
                                           !.lasting = lasting]
         ELSE IF best = {} THEN Fail
         ELSE \E i \in best : Resolved(got[i].tag, Digest(got[i].copy), lasting)
  /\ Upstream

\* resolveGitHubTagCommit.
ResolveCommit ==
  /\ At("commit")
  /\ IF download.version \in Range(offered)
     THEN download' = [download EXCEPT !.step = "archive", !.sum = copy[download.version],
                                       !.tries = 1]
     ELSE Fail
  /\ Upstream

\* The archive is staged.  Without a checksum so far, the file of them is read after it.
FetchArchive ==
  /\ At("archive") /\ download.version \in Range(offered)
  /\ \E a \in Arriving(copy[download.version]) :
       download' = [download EXCEPT !.archive = a,
                      !.step = IF download.tool.url /\ download.sum = 0 THEN "sum" ELSE "verify"]
  /\ Upstream

\* downloadChecksumValue: a file that cannot be read, for want of an algorithm too, ends the
\* download.
FetchChecksum ==
  /\ At("sum")
  /\ IF download.version \in Range(offered) /\ download.tool.algorithm # "none"
     THEN download' = [download EXCEPT !.step = "verify", !.sum = copy[download.version]]
     ELSE Fail
  /\ Upstream

\* verifyFileChecksum.
Verified == download.sum = download.archive.content

\* An algorithm that is declared wants a checksum; without either the archive is taken as it
\* is.  A nested archive comes next.
VerifyWhatThereIs ==
  /\ At("verify") /\ download.tool.algorithm # "commit"
  /\ IF download.sum = 0 \/ Verified
     THEN download' = [download EXCEPT !.step = "unwrap"]
     ELSE Fail
  /\ Upstream
VerifyChecksum ==
  /\ At("verify") /\ download.tool.algorithm # "commit"
  /\ IF Verified \/ (download.sum = 0 /\ download.tool.algorithm = "none")
     THEN download' = [download EXCEPT !.step = "unwrap"]
     ELSE Fail
  /\ Upstream

\* unwrapDownloadedAsset: the nested archive has no checksum of its own.  Where it is not
\* in the archive that was verified, the download ends.
Unwrap ==
  /\ At("unwrap")
  /\ download' = [download EXCEPT !.step = "cached"] \/ Fail
  /\ Upstream

\* downloadGitHubSourceArchive: the comment is the tag's commit.  Nothing else of the archive
\* is looked at.
VerifyCommit ==
  /\ At("verify") /\ download.tool.algorithm = "commit"
  /\ IF download.archive.comment = download.sum
     THEN download' = [download EXCEPT !.step = "cached"]
     ELSE Fail
  /\ Upstream

Download ==
  \/ Refuse \/ TakeRequest \/ ReadIndex \/ ResolveByHook \/ FetchPage \/ ResolveCommit
  \/ FetchArchive \/ FetchChecksum \/ VerifyChecksum \/ Unwrap \/ VerifyCommit
  \/ TryAgain \/ GiveUp

ReleaseNext ==
  \/ \E t \in Tag : PublishRelease(t) \/ ReplaceArchive(t) \/ WithdrawRelease(t)
  \/ Download

ReleaseSpec == ReleaseInit /\ [][ReleaseNext]_releaseVars

-----------------------------------------------------------------------------

\* The types.
ReleaseTypeOK ==
  /\ Range(offered) \subseteq Tag /\ IsInjective(offered)
  /\ copy \in [Tag -> 1 .. MaxNews + 1] /\ news \in 0 .. MaxNews
  /\ DOMAIN download = {"step", "tool", "request", "page", "tries", "got", "version", "sum",
                        "archive", "lasting", "steady"}
  /\ download.step \in {"resolve", "commit", "archive", "sum", "verify", "unwrap",
                        "cached", "failed"}
  /\ download.tool \in Tool /\ download.request \in Requested
  /\ download.page \in Nat \ {0} /\ download.tries \in 1 .. MaxTries
  /\ Range(download.got) \subseteq [tag : Tag, copy : 1 .. MaxNews + 1]
  /\ download.version \in Tag \cup Requested /\ download.sum \in 0 .. MaxNews + 1
  /\ download.archive \in [content : (1 .. MaxNews + 1) \cup {Damaged}, comment : 0 .. MaxNews + 1]
  /\ download.lasting \subseteq Tag /\ download.steady \in BOOLEAN

\* What enters the cache is an archive of a version that was asked for and is allowed.  It is
\* the one whose checksum was published for that version, if an algorithm is declared or a
\* digest was told; by its commit it is one of the commit that the tag had, in which damage
\* goes unnoticed (verifyGitHubArchiveCommit).  And no release on the list all the while would
\* have been a newer answer to the request, unless one was withdrawn while the pages were read:
\* then a release moves to a page that has been read already (fetchGitHubReleases).
NewestAndVerified ==
  At("cached") =>
    /\ Matches(download.version, download.request) /\ download.version \in Allowed
    /\ IF download.tool.algorithm = "commit"
       THEN download.archive.comment = download.sum /\ download.archive.content \in {download.sum, Damaged}
       ELSE Verified \/ (download.tool.algorithm = "none" /\ download.tool.told = "nothing")
    /\ download.steady =>
         \A t \in download.lasting :
           Candidate(t, download.request, Mode) => ~Newer(t, download.version)
===============================================================================
