---------------------------- MODULE MCDeployment ----------------------------
(***************************************************************************)
(* Instances of Deployment for TLC.                                        *)
(***************************************************************************)
EXTENDS Deployment, TLC

CONSTANTS s1, s2, x1, x2, p1, p2

\* The version store: one version of a skill, or one version of each of two.
OneVersion == {<<s1, x1>>}
TwoSkills == {<<s1, x1>>, <<s2, x2>>}

\* Every version, also a collected one, has a row in `versions`.
EveryVersion == Versions

\* A plan deploys to one place, or to two of them.
OneTarget == {{p1}}
BothTargets == {{p1, p2}}

RowsAndPlansAreAlike == Permutations(Deployments) \union Permutations(Operations)
=============================================================================
