--------------------------- MODULE ReleaseSigning ---------------------------
(***************************************************************************)
(* The release verifier on the build machine: it verifies what is in dist, *)
(* signs the two checksum inventories and puts what it verified back.      *)
(* Files may change under it at any time, each step may fail, and it may   *)
(* be run again.  A digest stands for the contents it is of.  Directories  *)
(* are flat, and the release identity of the file names is right.          *)
(***************************************************************************)
EXTENDS ReleaseArtifacts, Sequences

CONSTANT MaxRuns   \* bound: runs of the verifier

Contents(f) ==
    CASE IsArchive(f) -> Builds
      [] IsSBOM(f) -> [of : AllPlatforms, build : Builds]
      [] OTHER -> {"sound", "unsound"}

ASSUME NoneIsNoContents == \A f \in Artifacts : None \notin Contents(f)

VARIABLES
    disk,         \* disk[f]: contents of artifact f, None if there is none
    sums,         \* _SHA256SUMS: a function of artifacts to digests
    sbomSums,     \* _sbom_checksums.txt
    sig,          \* what the signature of _SHA256SUMS signs
    sbomSig,      \* what the signature of _sbom_checksums.txt signs
    pc,
    manifest,     \* the run's checksums
    found,        \* artifacts its walk of dist found
    snapshot,     \* contents it verified
    verified,     \* their artifacts, in order
    published,    \* artifacts it put back and nobody changed since
    leftover,     \* a signature was there when the run began
    changes, runs

outputs == <<sbomSums, sig, sbomSig>>
vars == <<disk, sums, outputs, pc, manifest, found, snapshot, verified, published, leftover, changes, runs>>

Nothing == [f \in {} |-> None]
With(g, f, c) == [h \in DOMAIN g \cup {f} |-> IF h = f THEN c ELSE g[h]]

Built(f) ==
    IF f \in {Archive(Stray), SBOM(Stray)} THEN None
    ELSE CASE IsArchive(f) -> 1
           [] IsSBOM(f) -> [of |-> f[2], build |-> 1]
           [] OTHER -> "sound"

\* GoReleaser's inventory has archives and the Registry manifest; older ones have SBOMs too.
Init ==
    /\ disk = [f \in Artifacts |-> Built(f)]
    /\ sums \in {[f \in {g \in Artifacts : Built(g) # None /\ ~IsSBOM(g)} |-> Built(f)],
                 [f \in {g \in Artifacts : Built(g) # None} |-> Built(f)]}
    /\ sbomSums = None /\ sig = None /\ sbomSig = None
    /\ pc = "start"
    /\ manifest = Nothing /\ found = {} /\ snapshot = Nothing /\ verified = <<>> /\ published = {}
    /\ leftover = FALSE /\ changes = 0 /\ runs = 1

(***************************************************************************)
(* Verification                                                            *)
(***************************************************************************)

Refuse == pc' = "refused" /\ UNCHANGED <<manifest, found, snapshot, verified>>

\* readArtifactSnapshot: what is read is kept.
ReadManifest ==
    /\ pc = "start"
    /\ manifest' = sums
    /\ pc' = IF \E f \in DOMAIN sums : IsSBOM(f) THEN "discover" ELSE "complete"
    /\ UNCHANGED <<found, snapshot, verified>>

Unlisted == {p \in AllPlatforms : Archive(p) \in DOMAIN manifest /\ SBOM(p) \notin DOMAIN manifest}

\* Mutant: an inventory without SBOMs is taken as it is.
NothingToComplete == {}

ToComplete == Unlisted

\* completeSBOMChecksums: the SBOMs of the archives listed, in order.
CompleteChecksum ==
    /\ pc = "complete"
    /\ \E p \in ToComplete :
          /\ \A q \in ToComplete : p <= q
          /\ IF disk[SBOM(p)] = None THEN Refuse
             ELSE /\ manifest' = With(manifest, SBOM(p), disk[SBOM(p)])
                  /\ UNCHANGED <<pc, found, snapshot, verified>>

EndCompletion ==
    /\ pc = "complete"
    /\ ToComplete = {}
    /\ pc' = "discover"
    /\ UNCHANGED <<manifest, found, snapshot, verified>>

Matches(f) == f \in DOMAIN manifest /\ manifest[f] = disk[f]

Keep(f) ==
    /\ snapshot' = With(snapshot, f, disk[f])
    /\ verified' = Append(verified, f)

\* The walk of dist, then the Registry manifest beside it.
Discover ==
    /\ pc = "discover"
    /\ LET here == {f \in Artifacts : disk[f] # None} IN
       IF /\ \E f \in here : IsArchive(f)
          /\ Cardinality({f \in here : IsArchive(f)}) = Cardinality({f \in here : IsSBOM(f)})
       THEN found' = here /\ pc' = "registry" /\ UNCHANGED <<manifest, snapshot, verified>>
       ELSE Refuse

VerifyRegistry ==
    /\ pc = "registry"
    /\ IF disk[Registry] # None /\ Matches(Registry) /\ disk[Registry] = "sound"
       THEN Keep(Registry) /\ pc' = "archives" /\ UNCHANGED <<manifest, found>>
       ELSE Refuse

\* Archives in the order of a map, each followed by its SBOM.
VerifyArchive(p) ==
    /\ pc = "archives"
    /\ Archive(p) \in found \ DOMAIN snapshot
    /\ IF p \in Platforms /\ SBOM(p) \in found /\ disk[Archive(p)] # None /\ Matches(Archive(p))
       THEN Keep(Archive(p)) /\ pc' = "sbom" /\ UNCHANGED <<manifest, found>>
       ELSE Refuse

\* Mutant: the SBOM need not be of these bytes of the archive.
DescribesName(sbom, p, archive) == sbom.of = p

\* verifyArchiveSPDX
Describes(sbom, p, archive) == sbom.of = p /\ sbom.build = archive

VerifySBOM ==
    /\ pc = "sbom"
    /\ LET p == verified[Len(verified)][2] IN
       IF disk[SBOM(p)] # None /\ Matches(SBOM(p)) /\ Describes(disk[SBOM(p)], p, snapshot[Archive(p)])
       THEN Keep(SBOM(p)) /\ pc' = "archives" /\ UNCHANGED <<manifest, found>>
       ELSE Refuse

\* No archive is left: the inventory lists what was found and has every platform.
VerifyInventory ==
    /\ pc = "archives"
    /\ \A p \in AllPlatforms : Archive(p) \notin found \ DOMAIN snapshot
    /\ IF DOMAIN manifest \subseteq found \cup {Registry} /\ \A p \in Platforms : Archive(p) \in found
       THEN pc' = "sign" /\ UNCHANGED <<manifest, found, snapshot, verified>>
       ELSE Refuse

Verify ==
    /\ \/ ReadManifest \/ CompleteChecksum \/ EndCompletion \/ Discover \/ VerifyRegistry
       \/ VerifySBOM \/ VerifyInventory
       \/ \E p \in AllPlatforms : VerifyArchive(p)
    /\ UNCHANGED <<disk, sums, outputs, published, leftover, changes, runs>>

(***************************************************************************)
(* Signatures and publication                                              *)
(***************************************************************************)

RegistryChecksums == [f \in {g \in DOMAIN manifest : ~IsSBOM(g)} |-> manifest[f]]
SBOMChecksums == [f \in {g \in DOMAIN manifest : IsSBOM(g)} |-> manifest[f]]

\* Mutant: the SBOM inventory's signature goes where GoReleaser wants the other one.
OneDestination == sig

\* What lies where the SBOM inventory's signature goes.
SBOMDestination == sbomSig

\* gpg --batch --output does not overwrite a file.
Sign ==
    /\ \/ pc = "sign" /\ sig = None /\ sig' = RegistryChecksums /\ pc' = "sign sboms" /\ UNCHANGED sbomSig
       \/ pc = "sign sboms" /\ SBOMDestination = None /\ sbomSig' = SBOMChecksums /\ pc' = "publish" /\ UNCHANGED sig
       \/ /\ (pc = "sign" /\ sig # None) \/ (pc = "sign sboms" /\ SBOMDestination # None)
          /\ pc' = "unsigned" /\ UNCHANGED <<sig, sbomSig>>
    /\ UNCHANGED <<disk, sums, sbomSums, manifest, found, snapshot, verified, published, leftover, changes, runs>>

\* Mutant: a file is left as it is rather than put back.
AsItIs(f) == disk[f]

Verified(f) == snapshot[f]

\* publishVerifiedSnapshot: a temporary file renamed over the artifact.
PublishArtifact ==
    /\ pc = "publish"
    /\ verified # <<>>
    /\ LET f == Head(verified) IN
       disk' = [disk EXCEPT ![f] = Verified(f)] /\ published' = published \cup {f}
    /\ verified' = Tail(verified)
    /\ UNCHANGED <<sums, outputs, pc, manifest, found, snapshot, leftover, changes, runs>>

PublishChecksums ==
    /\ \/ pc = "publish" /\ verified = <<>> /\ sbomSums' = SBOMChecksums /\ pc' = "manifest" /\ UNCHANGED sums
       \/ pc = "manifest" /\ sums' = RegistryChecksums /\ pc' = "done" /\ UNCHANGED sbomSums
    /\ UNCHANGED <<disk, sig, sbomSig, manifest, found, snapshot, verified, published, leftover, changes, runs>>

(***************************************************************************)
(* Failures, reruns and others                                             *)
(***************************************************************************)

Ended == pc \in {"refused", "unsigned", "failed", "done"}

\* A step fails, or the machine does; what was renamed stays.
Fail ==
    /\ ~Ended
    /\ pc' = "failed"
    /\ UNCHANGED <<disk, sums, outputs, manifest, found, snapshot, verified, published, leftover, changes, runs>>

\* Signatures of earlier runs may be removed before the next.
Rerun ==
    /\ Ended
    /\ runs < MaxRuns
    /\ runs' = runs + 1
    /\ pc' = "start"
    /\ manifest' = Nothing /\ found' = {} /\ snapshot' = Nothing /\ verified' = <<>> /\ published' = {}
    /\ sig' \in {sig, None} /\ sbomSig' \in {sbomSig, None}
    /\ leftover' = (sig' # None \/ sbomSig' # None)
    /\ UNCHANGED <<disk, sums, sbomSums, changes>>

ChangeFile(f) ==
    /\ changes < MaxChanges
    /\ \E c \in (Contents(f) \cup {None}) \ {disk[f]} : disk' = [disk EXCEPT ![f] = c]
    /\ published' = published \ {f}
    /\ changes' = changes + 1
    /\ UNCHANGED <<sums, outputs, pc, manifest, found, snapshot, verified, leftover, runs>>

\* One line of the inventory is removed, changed or added.
ChangeChecksums(f) ==
    /\ changes < MaxChanges
    /\ \/ sums' = [g \in DOMAIN sums \ {f} |-> sums[g]]
       \/ \E c \in Contents(f) : sums' = With(sums, f, c)
    /\ sums' # sums
    /\ changes' = changes + 1
    /\ UNCHANGED <<disk, outputs, pc, manifest, found, snapshot, verified, published, leftover, runs>>

Next ==
    \/ Verify \/ Sign \/ PublishArtifact \/ PublishChecksums
    \/ Fail \/ Rerun
    \/ \E f \in Artifacts : ChangeFile(f) \/ ChangeChecksums(f)

Spec == Init /\ [][Next]_vars

(***************************************************************************)
(* Properties                                                              *)
(***************************************************************************)

\* Once both inventories are signed they describe one release, however files changed
\* meanwhile: every platform, no more, each archive with an SBOM of these very bytes; and
\* what was put back is what was signed.
SignedIsVerified ==
    pc \in {"publish", "manifest", "done"} =>
        /\ DOMAIN sig = {Archive(p) : p \in Platforms} \cup {Registry}
        /\ DOMAIN sbomSig = {SBOM(p) : p \in Platforms}
        /\ sig[Registry] = "sound"
        /\ \A p \in Platforms : sbomSig[SBOM(p)].of = p /\ sbomSig[SBOM(p)].build = sig[Archive(p)]
        /\ \A f \in published : disk[f] = IF IsSBOM(f) THEN sbomSig[f] ELSE sig[f]

\* A run that fails half-way leaves files that the next run verifies: only a change by others
\* makes it refuse them.  What stops it at signing is only a signature that was left in place.
StopsHaveCauses ==
    /\ pc = "refused" => changes > 0
    /\ pc = "unsigned" => leftover

=============================================================================
