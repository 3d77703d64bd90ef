------------------------- MODULE ReleasePublication -------------------------
(***************************************************************************)
(* The release verifier on the uploaded draft: it downloads every asset,   *)
(* verifies signatures and contents, looks at the draft again and makes it *)
(* public.  Others may replace, add or delete assets, or publish the draft *)
(* themselves, at any time.                                                *)
(***************************************************************************)
EXTENDS ReleaseArtifacts

Sums(kind) == <<"sums", kind>>
Sig(kind) == <<"sig", kind>>
Kinds == {1, 2}   \* _SHA256SUMS, _sbom_checksums.txt

Names == Artifacts \cup {Sums(k) : k \in Kinds} \cup {Sig(k) : k \in Kinds}

\* Contents are of one build: an archive is that build's, an SBOM describes that build's
\* archive, an inventory has the digests of that build's artifacts, and a signature is by
\* the release key over that build's inventory, by another key for build 0.  An unsound
\* Registry manifest is of build 0.
DraftContents == Builds \cup {0}

ASSUME NoneIsNoAsset == None \notin [id : Nat, contents : DraftContents]

VARIABLES
    draft,      \* draft[n]: id and contents of asset n, None if there is none
    lists,      \* lists[kind]: the artifacts that an inventory of this kind lists
    public,     \* "draft", "published" by the verifier, "taken" by others
    nextId,     \* ids given to assets
    draftPc,
    assets,     \* the listing the run works on
    checked,    \* artifacts it downloaded and verified
    late,       \* assets changed since it looked at the draft again
    draftChanges

draftVars == <<draft, lists, public, nextId, draftPc, assets, checked, late, draftChanges>>

Uploaded(n) == n # Archive(Stray) /\ n # SBOM(Stray)

\* A whole release, as an inventory of this kind lists it.
Whole(kind) == IF kind = 1 THEN {Archive(p) : p \in Platforms} \cup {Registry} ELSE {SBOM(p) : p \in Platforms}

\* Entries too many and entries missing.
Departures == {e \in Kinds \X Artifacts : ~(e[2] \in lists[e[1]] <=> e[2] \in Whole(e[1]))}

\* Others may have signed inventories of another extent; each entry counts as a change.
DraftInit ==
    /\ lists \in [Kinds -> SUBSET Artifacts]
    /\ draftChanges = Cardinality(Departures) /\ draftChanges <= MaxChanges
    /\ \E b \in Builds : draft = [n \in Names |-> IF Uploaded(n) THEN [id |-> 0, contents |-> b] ELSE None]
    /\ public = "draft"
    /\ nextId = 1
    /\ draftPc = "list"
    /\ assets = None
    /\ checked = {}
    /\ late = {}

Listed == {n \in Names : assets[n] # None}

RefuseDraft == draftPc' = "refused" /\ UNCHANGED <<assets, checked>>

\* downloadReleaseAsset: by name, and compared with the digest in the listing.
Downloads(n) == draft[n] # None /\ draft[n].contents = assets[n].contents

ReadDraftAssets ==
    /\ draftPc = "list"
    /\ IF public = "draft" THEN assets' = draft /\ draftPc' = "inventory" ELSE draftPc' = "refused" /\ UNCHANGED assets
    /\ UNCHANGED checked

\* Mutant: entries are not told apart by kind.
AnyEntry(kind, n) == TRUE

\* Archives and the Registry manifest in the one inventory, SBOMs in the other.
Expected(kind, n) == IsSBOM(n) <=> kind = 2

\* Mutant: a signature over any inventory will do.
AnySignature(kind) == assets[Sig(kind)].contents # 0

SignatureIsOf(kind) == assets[Sig(kind)].contents # 0 /\ assets[Sig(kind)].contents = assets[Sums(kind)].contents

VerifySums(kind, next) ==
    IF /\ {Sums(kind), Sig(kind)} \subseteq Listed
       /\ Downloads(Sums(kind)) /\ Downloads(Sig(kind))
       /\ SignatureIsOf(kind)
       /\ \A n \in lists[kind] : Expected(kind, n)
    THEN draftPc' = next /\ UNCHANGED <<assets, checked>>
    ELSE RefuseDraft

VerifyInventories ==
    \/ draftPc = "inventory" /\ VerifySums(1, "sbom inventory")
    \/ draftPc = "sbom inventory" /\ VerifySums(2, "artifacts")

Entries == lists[1] \cup lists[2]

\* The digest the signed inventories have for an artifact.
Digest(n) == assets[Sums(IF IsSBOM(n) THEN 2 ELSE 1)].contents

VerifyArtifact(n) ==
    /\ draftPc = "artifacts"
    /\ n \in Listed \cap Artifacts
    /\ n \notin checked
    /\ IF Downloads(n) /\ n \in Entries /\ Digest(n) = assets[n].contents
       THEN checked' = checked \cup {n} /\ UNCHANGED <<draftPc, assets>>
       ELSE RefuseDraft

\* Mutant: the four inventories and signatures are not counted.
AllAreListed == Cardinality(Entries) = Cardinality(Listed)

\* Mutant: what is signed and not uploaded is not noticed.
NothingTooMany == Cardinality(Entries) >= Cardinality(Listed) - 4

InventoryIsComplete == Cardinality(Entries) = Cardinality(Listed) - 4

\* verifyDraftArtifacts once all are downloaded: archives are of platforms of the release,
\* each has its SBOM, the Registry manifest is there and sound, and nothing is missing.
VerifyRelease ==
    /\ draftPc = "artifacts"
    /\ Listed \cap Artifacts \subseteq checked
    /\ IF /\ \A p \in AllPlatforms : Archive(p) \in checked => p \in Platforms /\ SBOM(p) \in checked
          /\ \A p \in AllPlatforms : SBOM(p) \in checked =>
                 Archive(p) \in checked /\ assets[SBOM(p)].contents = assets[Archive(p)].contents
          /\ Registry \in checked /\ assets[Registry].contents # 0
          /\ InventoryIsComplete
          /\ \A p \in Platforms : Archive(p) \in Listed
       THEN draftPc' = "look again" /\ UNCHANGED <<assets, checked>>
       ELSE RefuseDraft

\* Mutant: the draft has as many assets as before.
SameNumber == Cardinality({n \in Names : draft[n] # None}) = Cardinality(Listed)

SameAssets == \A n \in Names : draft[n] = assets[n]

LookAgain ==
    /\ draftPc = "look again"
    /\ IF public = "draft" /\ SameAssets THEN draftPc' = "edit" /\ UNCHANGED <<assets, checked>> ELSE RefuseDraft

VerifyDraft ==
    /\ \/ ReadDraftAssets \/ VerifyInventories \/ VerifyRelease \/ LookAgain
       \/ \E n \in Artifacts : VerifyArtifact(n)
    /\ UNCHANGED <<draft, lists, public, nextId, late, draftChanges>>

\* gh release edit --draft=false
PublishDraft ==
    /\ draftPc = "edit"
    /\ public' = IF public = "draft" THEN "published" ELSE public
    /\ draftPc' = "done"
    /\ UNCHANGED <<draft, lists, nextId, assets, checked, late, draftChanges>>

\* A command fails.
FailDraft ==
    /\ draftPc \notin {"refused", "done"}
    /\ draftPc' = "failed"
    /\ UNCHANGED <<draft, lists, public, nextId, assets, checked, late, draftChanges>>

\* Others upload an asset under a new id, or delete one.
ChangeAsset(n) ==
    /\ public = "draft"
    /\ draftChanges < MaxChanges
    /\ \E a \in [id : {nextId}, contents : DraftContents] \cup {None} :
           a # draft[n] /\ draft' = [draft EXCEPT ![n] = a]
    /\ nextId' = nextId + 1
    /\ late' = IF draftPc = "edit" THEN late \cup {n} ELSE late
    /\ draftChanges' = draftChanges + 1
    /\ UNCHANGED <<lists, public, draftPc, assets, checked>>

TakeDraft ==
    /\ public = "draft"
    /\ draftChanges < MaxChanges
    /\ public' = "taken"
    /\ draftChanges' = draftChanges + 1
    /\ UNCHANGED <<draft, lists, nextId, draftPc, assets, checked, late>>

DraftNext ==
    \/ VerifyDraft \/ PublishDraft \/ FailDraft \/ TakeDraft
    \/ \E n \in Names : ChangeAsset(n)

DraftSpec == DraftInit /\ [][DraftNext]_draftVars

(***************************************************************************)
(* Properties                                                              *)
(***************************************************************************)

\* What becomes public is one signed build, complete and nothing else, and the inventories
\* list just that, whatever happened to the draft while it was verified.  Only what others
\* change between the second look and the edit, which no command can rule out, is not covered.
PublishedIsVerified ==
    public = "published" =>
        /\ \A kind \in Kinds : lists[kind] = Whole(kind)
        /\ \E b \in Builds : \A n \in Names \ late :
               IF Uploaded(n) THEN draft[n] # None /\ draft[n].contents = b ELSE draft[n] = None

\* A draft that was signed and uploaded whole and left alone is not refused.
SoundDraftsPass == draftPc = "refused" => draftChanges > 0

=============================================================================
