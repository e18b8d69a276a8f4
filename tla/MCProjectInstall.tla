-------------------------- MODULE MCProjectInstall --------------------------
(***************************************************************************)
(* Instances of ProjectInstall for TLC: the two PHP flavors, the headers   *)
(* that both of them need, and a database that needs nothing.  The plan of *)
(* layers that ProjectInstall takes as sets is compared with the search of *)
(* the code on every catalog of three tools.                               *)
(***************************************************************************)
EXTENDS ProjectInstall, SequencesExt

CONSTANTS nts, zts, devel, db

PHPNeeds  == [l \in Label |-> IF l \in {nts, zts} THEN {devel} ELSE {}]
PHPRivals == [l \in Label |-> IF l \in {nts, zts} THEN {nts, zts} \ {l} ELSE {}]

Symmetric == Permutations(Command)

\* Bound: once the settings have been edited, no command installs the database.  What
\* edits do to a tree and how the tools of one layer overlap are explored apart.
EditedWithoutDatabase ==
  config.settings > 0 => \A c \in Command : job[c][db] = "none" /\ db \notin remaining[c]

-----------------------------------------------------------------------------
(* The search, on every catalog of three tools of which p has two versions. *)

Search == INSTANCE InstallLayers
            WITH Tool <- {"p", "q", "r"}, Version <- {"1", "2"}, NoVersion <- ""

Ask(t, v) == [tool |-> t, version |-> v]
Asked     == {Ask("p", "1"), Ask("p", "2"), Ask("q", "1"), Ask("r", "1")}

\* What a tool needs: p and q at most two requests, in either order, r at most one.
AtMostOne == {<<>>} \cup {<<x>> : x \in Asked}
AtMostTwo == AtMostOne \cup {s \in Asked \X Asked : s[1] # s[2]}

Needed(p, q, r) == [t \in {"p", "q", "r"} |-> CASE t = "p" -> p
                                                [] t = "q" -> q
                                                [] t = "r" -> r]
Catalogs == {[plugins |-> tools, needs |-> Needed(p, q, r)] :
               tools \in {{"p", "q"}, {"p", "q", "r"}},
               p \in AtMostTwo, q \in AtMostTwo, r \in AtMostOne}
Roots    == {<<Ask("p", "1")>>, <<Ask("p", "1"), Ask("q", "1")>>,
             <<Ask("q", "1"), Ask("p", "2")>>, <<Ask("q", "")>>}

\* The search and the layering loop of InstallRequestLayers give the plan that the
\* reference definition asks for, whatever the order of the roots.
ASSUME LayersAssumption ==
  \A catalog \in Catalogs, roots \in Roots :
    /\ Search!RightLayers(catalog, roots)
    /\ Search!SameLayers(catalog, roots, <<roots[Len(roots)], roots[1]>>)

\* On the labels of this instance it finds the requests that ProjectInstall plans.
Labels == INSTANCE InstallLayers
            WITH Tool <- Label, Version <- {"1"}, NoVersion <- ""

Asks(labels) == SetToSeq({Ask(l, "1") : l \in labels})

ASSUME PlanAssumption ==
  LET catalog == [plugins |-> Label, needs |-> [l \in Label |-> Asks(Needs[l])]]
  IN  \A roots \in SUBSET (Label \ Internal) :
        LET plan == Labels!InstallRequestLayers(catalog, Asks(roots))
        IN  plan.found /\ {r.tool : r \in plan.requests} = Requests(roots)
=============================================================================
