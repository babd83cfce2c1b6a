-------------------------- MODULE MCSiteLifecycle --------------------------
(***************************************************************************)
(* Instances of SiteLifecycle for TLC.                                     *)
(***************************************************************************)
EXTENDS SiteLifecycle

CONSTANTS i1, i2, c1, c2, slug

OneSite == {i1}
TwoSites == {i1, i2}

(* Both ids have the one slug: the second is a later site of the same name.*)
OneSlug == {slug}
SameSlug == [i \in Ids |-> slug]

(* Two database images; the second reads what the first wrote.             *)
TwoImages == 1..2
Forward == {p \in TwoImages \X TwoImages : p[1] <= p[2]}

=============================================================================
