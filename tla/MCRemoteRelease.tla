-------------------------- MODULE MCRemoteRelease --------------------------
(* Instances of RemoteRelease for TLC: a version, one that adds a migration of the project, *)
(* and one that adds a migration of a package that is not Oro's.                            *)
EXTENDS RemoteRelease

CONSTANTS v1, v2, v3, m1, m2, m3
MCVersions == {v1, v2, v3}
MCMigrations == [v \in Versions |->
  CASE v = v1 -> {m1} [] v = v2 -> {m1, m2} [] OTHER -> {m1, m3}]
MCSrc == {m2}
MCOro == {m1}
=============================================================================
