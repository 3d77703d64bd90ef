-------------------------- MODULE ReleaseArtifacts --------------------------
(***************************************************************************)
(* The artifacts of a release, whether they lie in dist or are assets of a *)
(* draft: an archive and an SBOM for each platform, and the Registry       *)
(* manifest.  Others may add those of a platform there is none for.        *)
(***************************************************************************)
EXTENDS Integers, FiniteSets

CONSTANTS
    Platforms,    \* releasePlatforms, numbered
    Stray,        \* a platform that is not one of them
    Builds,       \* builds of the release
    MaxChanges,   \* bound: changes by others
    None

ASSUME PlatformsAssumption ==
    IsFiniteSet(Platforms) /\ Platforms # {} /\ Platforms \subseteq Nat /\ Stray \in Nat \ Platforms

ASSUME BuildsAssumption == Builds \subseteq Nat \ {0} /\ 1 \in Builds

Archive(p) == <<"zip", p>>
SBOM(p) == <<"spdx", p>>
Registry == <<"registry", 0>>

AllPlatforms == Platforms \cup {Stray}
Artifacts == {Archive(p) : p \in AllPlatforms} \cup {SBOM(p) : p \in AllPlatforms} \cup {Registry}
IsArchive(f) == f[1] = "zip"
IsSBOM(f) == f[1] = "spdx"

=============================================================================
