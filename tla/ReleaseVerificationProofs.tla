---------------------- MODULE ReleaseVerificationProofs ----------------------
(***************************************************************************)
(* Proofs about the two commands of the release verifier, for any          *)
(* platforms and builds and any number of changes by others and of runs:   *)
(* ReleasePublication, then ReleaseSigning, then the command that chooses. *)
(***************************************************************************)
EXTENDS ReleaseVerification, FiniteSetTheorems, TLAPS

(***************************************************************************)
(* Names                                                                   *)
(***************************************************************************)

\* Archives, SBOMs and the Registry manifest are told apart by their names.
LEMMA ArtifactNames ==
    /\ \A p \in AllPlatforms : Archive(p) \in Artifacts /\ IsArchive(Archive(p)) /\ ~IsSBOM(Archive(p))
    /\ \A p \in AllPlatforms : SBOM(p) \in Artifacts /\ IsSBOM(SBOM(p)) /\ ~IsArchive(SBOM(p))
    /\ Registry \in Artifacts /\ ~IsSBOM(Registry) /\ ~IsArchive(Registry)
    /\ \A p, q \in AllPlatforms : Archive(p) = Archive(q) => p = q
    /\ \A p, q \in AllPlatforms : SBOM(p) = SBOM(q) => p = q
    /\ \A p, q \in AllPlatforms : Archive(p) # SBOM(q) /\ Archive(p) # Registry /\ SBOM(p) # Registry
BY DEF Archive, SBOM, Registry, IsArchive, IsSBOM, Artifacts

\* The stray platform is not one of the release.
LEMMA StrayIsNoPlatform == Stray \notin Platforms /\ Platforms \subseteq AllPlatforms /\ Stray \in AllPlatforms
BY PlatformsAssumption DEF AllPlatforms

\* The inventories and their signatures are four assets that are not artifacts.
LEMMA InventoryNames ==
    /\ \A k \in Kinds : Sums(k) \in Names \ Artifacts /\ Sig(k) \in Names \ Artifacts
    /\ \A k, l \in Kinds : Sums(k) # Sig(l)
    /\ Sums(1) # Sums(2) /\ Sig(1) # Sig(2)
    /\ \A k \in Kinds : Uploaded(Sums(k)) /\ Uploaded(Sig(k))
BY DEF Archive, SBOM, Registry, Artifacts, Sums, Sig, Kinds, Names, Uploaded

WholeRelease == Whole(1) \cup Whole(2)

\* What is uploaded is a whole release, its inventories and their signatures.
LEMMA UploadedNames ==
    {n \in Names : Uploaded(n)} = WholeRelease \cup {Sums(1), Sums(2), Sig(1), Sig(2)}
<1>1. ASSUME NEW n \in Names, Uploaded(n)
      PROVE  n \in WholeRelease \cup {Sums(1), Sums(2), Sig(1), Sig(2)}
    BY <1>1 DEF Names, Artifacts, AllPlatforms, Uploaded, WholeRelease, Whole, Kinds
<1>2. ASSUME NEW n \in WholeRelease
      PROVE  n \in Names /\ Uploaded(n)
    BY ArtifactNames, StrayIsNoPlatform DEF Names, WholeRelease, Whole, Uploaded
<1> QED BY <1>1, <1>2, InventoryNames DEF Kinds

LEMMA WholeIsOfArtifacts ==
    /\ WholeRelease \subseteq Artifacts
    /\ \A kind \in Kinds : Whole(kind) = {n \in WholeRelease : Expected(kind, n)}
<1>1. WholeRelease \subseteq Artifacts
    BY ArtifactNames, StrayIsNoPlatform DEF WholeRelease, Whole
<1>2. \A n \in Whole(1) : ~IsSBOM(n)
    BY ArtifactNames, StrayIsNoPlatform DEF Whole
<1>3. \A n \in Whole(2) : IsSBOM(n)
    BY ArtifactNames, StrayIsNoPlatform DEF Whole
<1>4. Whole(1) = {n \in WholeRelease : Expected(1, n)}
    BY <1>2, <1>3 DEF WholeRelease, Expected
<1>5. Whole(2) = {n \in WholeRelease : Expected(2, n)}
    BY <1>2, <1>3 DEF WholeRelease, Expected
<1> QED BY <1>1, <1>4, <1>5 DEF Kinds

\* There are as many archives, or SBOMs, as platforms.
LEMMA ArchivesAreCounted ==
    ASSUME NEW P \in SUBSET AllPlatforms, IsFiniteSet(P)
    PROVE  /\ IsFiniteSet({Archive(p) : p \in P})
           /\ Cardinality({Archive(p) : p \in P}) = Cardinality(P)
<1> DEFINE S == {Archive(p) : p \in P}
           f == [p \in P |-> Archive(p)]
<1>1. f \in Bijection(P, S)
    BY ArtifactNames DEF Bijection, Injection, Surjection, IsInjective
<1>2. ExistsBijection(P, S)
    BY <1>1 DEF ExistsBijection
<1> HIDE DEF S
<1>3. IsFiniteSet(S) /\ Cardinality(S) = Cardinality(P)
    BY <1>2, FS_Bijection
<1> QED BY <1>3 DEF S

LEMMA SBOMsAreCounted ==
    ASSUME NEW P \in SUBSET AllPlatforms, IsFiniteSet(P)
    PROVE  /\ IsFiniteSet({SBOM(p) : p \in P})
           /\ Cardinality({SBOM(p) : p \in P}) = Cardinality(P)
<1> DEFINE S == {SBOM(p) : p \in P}
           f == [p \in P |-> SBOM(p)]
<1>1. f \in Bijection(P, S)
    BY ArtifactNames DEF Bijection, Injection, Surjection, IsInjective
<1>2. ExistsBijection(P, S)
    BY <1>1 DEF ExistsBijection
<1> HIDE DEF S
<1>3. IsFiniteSet(S) /\ Cardinality(S) = Cardinality(P)
    BY <1>2, FS_Bijection
<1> QED BY <1>3 DEF S

LEMMA ArtifactsAreFinite == IsFiniteSet(Artifacts)
<1>1. IsFiniteSet(AllPlatforms)
    BY PlatformsAssumption, FS_AddElement DEF AllPlatforms
<1>2. IsFiniteSet({Archive(p) : p \in AllPlatforms}) /\ IsFiniteSet({SBOM(p) : p \in AllPlatforms})
    BY <1>1, ArchivesAreCounted, SBOMsAreCounted
<1>3. IsFiniteSet({Archive(p) : p \in AllPlatforms} \cup {SBOM(p) : p \in AllPlatforms})
    BY <1>2, FS_Union
<1>4. IsFiniteSet({Archive(p) : p \in AllPlatforms} \cup {SBOM(p) : p \in AllPlatforms} \cup {Registry})
    BY <1>3, FS_AddElement
<1> QED BY <1>4 DEF Artifacts

\* The inventories and their signatures are four.
LEMMA FourMore ==
    ASSUME NEW E \in SUBSET Artifacts
    PROVE  /\ IsFiniteSet(E) /\ Cardinality(E) \in Nat
           /\ Cardinality(E) = Cardinality(E \cup {Sums(1), Sums(2), Sig(1), Sig(2)}) - 4
<1>1. IsFiniteSet(E)
    BY ArtifactsAreFinite, FS_Subset
<1>2. Sums(1) \notin E /\ Sums(2) \notin E /\ Sig(1) \notin E /\ Sig(2) \notin E
    BY InventoryNames DEF Kinds
<1>3. IsFiniteSet(E \cup {Sums(1)}) /\ Cardinality(E \cup {Sums(1)}) = Cardinality(E) + 1
    BY <1>1, <1>2, FS_AddElement
<1>4. /\ IsFiniteSet(E \cup {Sums(1)} \cup {Sums(2)})
      /\ Cardinality(E \cup {Sums(1)} \cup {Sums(2)}) = Cardinality(E) + 1 + 1
    <2>1. Sums(2) \notin E \cup {Sums(1)}
        BY <1>2, InventoryNames DEF Kinds
    <2> QED BY <2>1, <1>3, FS_AddElement
<1>5. /\ IsFiniteSet(E \cup {Sums(1)} \cup {Sums(2)} \cup {Sig(1)})
      /\ Cardinality(E \cup {Sums(1)} \cup {Sums(2)} \cup {Sig(1)}) = Cardinality(E) + 1 + 1 + 1
    <2>1. Sig(1) \notin E \cup {Sums(1)} \cup {Sums(2)}
        BY <1>2, InventoryNames DEF Kinds
    <2> QED BY <2>1, <1>4, FS_AddElement
<1>6. Cardinality(E \cup {Sums(1)} \cup {Sums(2)} \cup {Sig(1)} \cup {Sig(2)}) = Cardinality(E) + 1 + 1 + 1 + 1
    <2>1. Sig(2) \notin E \cup {Sums(1)} \cup {Sums(2)} \cup {Sig(1)}
        BY <1>2, InventoryNames DEF Kinds
    <2> QED BY <2>1, <1>5, FS_AddElement
<1>7. E \cup {Sums(1), Sums(2), Sig(1), Sig(2)} = E \cup {Sums(1)} \cup {Sums(2)} \cup {Sig(1)} \cup {Sig(2)}
    OBVIOUS
<1>8. Cardinality(E) \in Nat
    BY <1>1, FS_CardinalityType
<1>9. Cardinality(E \cup {Sums(1), Sums(2), Sig(1), Sig(2)}) = Cardinality(E) + 1 + 1 + 1 + 1
    BY <1>6, <1>7
<1> QED BY <1>1, <1>8, <1>9

\* Inventories that list a whole release depart from it nowhere, and those that do not, do.
LEMMA DeparturesAreCounted ==
    ASSUME lists \in [Kinds -> SUBSET Artifacts]
    PROVE  /\ Cardinality(Departures) \in Nat
           /\ Cardinality(Departures) = 0 => \A kind \in Kinds : lists[kind] = Whole(kind)
<1>1. IsFiniteSet(Kinds)
    <2>1. IsFiniteSet({}) /\ IsFiniteSet({} \cup {1}) /\ IsFiniteSet({} \cup {1} \cup {2})
        BY FS_EmptySet, FS_AddElement
    <2>2. Kinds = {} \cup {1} \cup {2}
        BY DEF Kinds
    <2> QED BY <2>1, <2>2
<1>2. IsFiniteSet(Kinds \X Artifacts)
    BY <1>1, ArtifactsAreFinite, FS_Product
<1>3. Departures \subseteq Kinds \X Artifacts
    BY DEF Departures
<1>4. IsFiniteSet(Departures) /\ Cardinality(Departures) \in Nat
    BY <1>2, <1>3, FS_Subset, FS_CardinalityType
<1>5. ASSUME Cardinality(Departures) = 0, NEW kind \in Kinds PROVE lists[kind] = Whole(kind)
    <2>1. Departures = {}
        BY <1>4, <1>5, FS_EmptySet
    <2>2. \A n \in Artifacts : <<kind, n>> \in Kinds \X Artifacts /\ <<kind, n>> \notin Departures
        BY <2>1
    <2>3. \A n \in Artifacts : n \in lists[kind] <=> n \in Whole(kind)
        BY <2>2 DEF Departures
    <2>4. lists[kind] \subseteq Artifacts /\ Whole(kind) \subseteq Artifacts
        BY WholeIsOfArtifacts
    <2> QED BY <2>3, <2>4
<1> QED BY <1>4, <1>5

(***************************************************************************)
(* Publication: the invariant                                              *)
(***************************************************************************)

Asset == [id : Nat, contents : DraftContents] \cup {None}
Working == {"inventory", "sbom inventory", "artifacts", "look again", "edit"}
SignaturesRead == {"artifacts", "look again", "edit"}
ReleaseRead == {"look again", "edit"}

DraftTypes ==
    /\ draft \in [Names -> Asset]
    /\ lists \in [Kinds -> SUBSET Artifacts]
    /\ public \in {"draft", "published", "taken"}
    /\ nextId \in Nat
    /\ draftPc \in Working \cup {"list", "refused", "failed", "done"}
    /\ draftPc \in Working => assets \in [Names -> Asset]
    /\ checked \in SUBSET Artifacts
    /\ late \in SUBSET Names
    /\ draftChanges \in Nat

\* The signature of an inventory whose turn is over is by the release key, and its entries
\* are of its kind.
SignaturesHold ==
    /\ draftPc \in SignaturesRead \cup {"sbom inventory"} =>
           /\ {Sums(1), Sig(1)} \subseteq Listed /\ SignatureIsOf(1)
           /\ \A n \in lists[1] : Expected(1, n)
    /\ draftPc \in SignaturesRead =>
           /\ {Sums(2), Sig(2)} \subseteq Listed /\ SignatureIsOf(2)
           /\ \A n \in lists[2] : Expected(2, n)

\* What was downloaded is listed, and in a signed inventory with these contents.
CheckedIsSigned ==
    /\ draftPc \in {"list", "inventory", "sbom inventory"} => checked = {}
    /\ draftPc \in SignaturesRead =>
           \A n \in checked : n \in Listed /\ n \in Entries /\ Digest(n) = assets[n].contents

\* After the last download everything listed has been, and nothing is missing.
ReleaseIsWhole ==
    draftPc \in ReleaseRead =>
        /\ Listed \cap Artifacts \subseteq checked
        /\ \A p \in AllPlatforms : Archive(p) \in checked => p \in Platforms /\ SBOM(p) \in checked
        /\ \A p \in AllPlatforms : SBOM(p) \in checked =>
               Archive(p) \in checked /\ assets[SBOM(p)].contents = assets[Archive(p)].contents
        /\ Registry \in checked
        /\ InventoryIsComplete
        /\ \A p \in Platforms : Archive(p) \in Listed

\* Until the edit the draft is what was verified, but for what others changed since.
LookedAgain ==
    /\ draftPc = "edit" => \A n \in Names \ late : draft[n] = assets[n]
    /\ public = "published" => draftPc = "done"

IsUpload(d, b) == d = [n \in Names |-> IF Uploaded(n) THEN [id |-> 0, contents |-> b] ELSE None]

\* While nobody changes it the draft is as uploaded, and so is the listing.
LeftAlone ==
    draftChanges = 0 =>
        /\ \A kind \in Kinds : lists[kind] = Whole(kind)
        /\ \E b \in Builds : IsUpload(draft, b)
        /\ draftPc \in Working => assets = draft
        /\ draftPc # "done" => public = "draft"
        /\ draftPc # "refused"

DraftInv ==
    /\ DraftTypes /\ SignaturesHold /\ CheckedIsSigned /\ ReleaseIsWhole
    /\ LookedAgain /\ LeftAlone /\ PublishedIsVerified

\* A draft is uploaded by its release workflow.
LEMMA DraftInitHolds == DraftInit => DraftInv
<1> SUFFICES ASSUME DraftInit PROVE DraftInv
    OBVIOUS
<1>1. PICK b \in Builds : IsUpload(draft, b)
    BY DEF DraftInit, IsUpload
<1>2. b \in DraftContents
    BY DEF DraftContents
<1>3. draft \in [Names -> Asset]
    BY <1>1, <1>2 DEF IsUpload, Asset
<1>4. DraftTypes
    BY <1>3, DeparturesAreCounted DEF DraftInit, DraftTypes, Working
<1>5. SignaturesHold /\ CheckedIsSigned /\ ReleaseIsWhole /\ LookedAgain /\ PublishedIsVerified
    BY DEF DraftInit, SignaturesHold, CheckedIsSigned, ReleaseIsWhole, LookedAgain, PublishedIsVerified,
           SignaturesRead, ReleaseRead
<1>6. LeftAlone
    BY <1>1, DeparturesAreCounted DEF DraftInit, LeftAlone, Working
<1> QED BY <1>4, <1>5, <1>6 DEF DraftInv

\* A listed asset is a record, and only those that are there are listed.
LEMMA ListedAreAssets ==
    ASSUME assets \in [Names -> Asset], NEW n \in Listed
    PROVE  n \in Names /\ assets[n] # None /\ assets[n] \in [id : Nat, contents : DraftContents]
BY DEF Listed, Asset

\* What a sound draft holds: each asset that is uploaded, of one build of the release.
LEMMA UploadIsSound ==
    ASSUME NEW b \in Builds, NEW d, IsUpload(d, b)
    PROVE  \A n \in Names : IF Uploaded(n) THEN d[n] # None /\ d[n].contents = b /\ b # 0 ELSE d[n] = None
<1>1. b # 0 /\ b \in DraftContents
    BY BuildsAssumption DEF DraftContents
<1>2. [id |-> 0, contents |-> b] \in [id : Nat, contents : DraftContents]
    BY <1>1
<1>3. [id |-> 0, contents |-> b] # None
    BY <1>2, NoneIsNoAsset
<1> QED BY <1>1, <1>3 DEF IsUpload

\* Any command may refuse a draft that somebody changed.
LEMMA RefusalKeepsDraftInv ==
    ASSUME DraftInv, RefuseDraft, draftChanges > 0, UNCHANGED <<draft, lists, public, nextId, late, draftChanges>>,
           draftPc # "done"
    PROVE  DraftInv'
<1>1. DraftTypes'
    BY DEF DraftInv, DraftTypes, RefuseDraft, Working
<1>2. (SignaturesHold /\ CheckedIsSigned /\ ReleaseIsWhole)'
    BY DEF SignaturesHold, CheckedIsSigned, ReleaseIsWhole, RefuseDraft, SignaturesRead, ReleaseRead
<1>3. LookedAgain' /\ LeftAlone'
    BY DEF DraftInv, DraftTypes, LookedAgain, LeftAlone, RefuseDraft
<1>4. PublishedIsVerified'
    BY DEF DraftInv, PublishedIsVerified, RefuseDraft
<1> QED BY <1>1, <1>2, <1>3, <1>4 DEF DraftInv

\* While nobody changes it: what is listed is there, can be downloaded, and is signed.
LEMMA SoundDraftIsAccepted ==
    ASSUME DraftInv, draftChanges = 0, draftPc \in Working
    PROVE  /\ assets = draft
           /\ Listed = {n \in Names : Uploaded(n)}
           /\ \E b \in Builds : b # 0 /\ \A n \in Listed : assets[n] # None /\ assets[n].contents = b
           /\ \A n \in Listed : Downloads(n)
<1>1. assets = draft
    BY DEF DraftInv, LeftAlone
<1>2. PICK b \in Builds : IsUpload(draft, b)
    BY DEF DraftInv, LeftAlone
<1>3. \A n \in Names : IF Uploaded(n) THEN draft[n] # None /\ draft[n].contents = b /\ b # 0 ELSE draft[n] = None
    BY <1>2, UploadIsSound
<1>4. Listed = {n \in Names : Uploaded(n)}
    BY <1>1, <1>3 DEF Listed
<1>5. b # 0
    BY BuildsAssumption
<1>6. \A n \in Listed : assets[n] # None /\ assets[n].contents = b /\ Downloads(n)
    BY <1>1, <1>3, <1>4 DEF Downloads
<1> QED BY <1>1, <1>4, <1>5, <1>6

LEMMA ReadDraftAssetsKeepsDraftInv ==
    ASSUME DraftInv, ReadDraftAssets, UNCHANGED <<draft, lists, public, nextId, late, draftChanges>>
    PROVE  DraftInv'
<1>1. CASE public = "draft"
    <2>1. assets' = draft /\ draftPc' = "inventory" /\ checked' = checked /\ draftPc = "list"
        BY <1>1 DEF ReadDraftAssets
    <2>2. DraftTypes'
        BY <2>1 DEF DraftInv, DraftTypes, Working
    <2>3. (SignaturesHold /\ CheckedIsSigned /\ ReleaseIsWhole /\ LookedAgain)'
        BY <1>1, <2>1 DEF DraftInv, SignaturesHold, CheckedIsSigned, ReleaseIsWhole, LookedAgain, SignaturesRead, ReleaseRead
    <2>4. LeftAlone'
        BY <2>1 DEF DraftInv, LeftAlone
    <2>5. PublishedIsVerified'
        BY <1>1 DEF PublishedIsVerified
    <2> QED BY <2>2, <2>3, <2>4, <2>5 DEF DraftInv
<1>2. CASE public # "draft"
    <2>1. RefuseDraft /\ draftPc = "list"
        BY <1>2 DEF ReadDraftAssets, RefuseDraft
    <2>2. draftChanges > 0
        BY <1>2, <2>1 DEF DraftInv, LeftAlone, DraftTypes
    <2> QED BY <2>1, <2>2, RefusalKeepsDraftInv
<1> QED BY <1>1, <1>2

LEMMA VerifyInventoriesKeepsDraftInv ==
    ASSUME DraftInv, VerifyInventories, UNCHANGED <<draft, lists, public, nextId, late, draftChanges>>
    PROVE  DraftInv'
<1> DEFINE accepted(kind) == /\ {Sums(kind), Sig(kind)} \subseteq Listed
                             /\ Downloads(Sums(kind)) /\ Downloads(Sig(kind))
                             /\ SignatureIsOf(kind)
                             /\ \A n \in lists[kind] : Expected(kind, n)
<1>1. ASSUME NEW kind \in Kinds, draftPc \in Working, ~accepted(kind)
      PROVE  draftChanges > 0
    <2> SUFFICES ASSUME draftChanges = 0 PROVE accepted(kind)
        BY <1>1 DEF DraftInv, DraftTypes
    <2>1. {Sums(kind), Sig(kind)} \subseteq Listed
        BY <1>1, SoundDraftIsAccepted, InventoryNames
    <2>2. \A n \in lists[kind] : Expected(kind, n)
        BY WholeIsOfArtifacts DEF DraftInv, LeftAlone
    <2> QED BY <1>1, <2>1, <2>2, SoundDraftIsAccepted DEF SignatureIsOf
<1>2. ASSUME draftPc = "inventory", VerifySums(1, "sbom inventory") PROVE DraftInv'
    <2>1. CASE accepted(1)
        <3>1. draftPc' = "sbom inventory" /\ UNCHANGED <<assets, checked>>
            BY <1>2, <2>1 DEF VerifySums
        <3>2. DraftTypes'
            BY <1>2, <3>1 DEF DraftInv, DraftTypes, Working
        <3>3. SignaturesHold'
            BY <2>1, <3>1 DEF SignaturesHold, SignaturesRead, Listed, SignatureIsOf
        <3>4. (CheckedIsSigned /\ ReleaseIsWhole /\ LookedAgain)'
            BY <1>2, <3>1 DEF DraftInv, CheckedIsSigned, ReleaseIsWhole, LookedAgain, SignaturesRead, ReleaseRead
        <3>5. LeftAlone' /\ PublishedIsVerified'
            BY <1>2, <3>1 DEF DraftInv, LeftAlone, PublishedIsVerified, Working
        <3> QED BY <3>2, <3>3, <3>4, <3>5 DEF DraftInv
    <2>2. CASE ~accepted(1)
        <3>1. RefuseDraft
            BY <1>2, <2>2 DEF VerifySums
        <3>2. draftChanges > 0
            BY <1>1, <1>2, <2>2 DEF Working, Kinds
        <3> QED BY <1>2, <3>1, <3>2, RefusalKeepsDraftInv
    <2> QED BY <2>1, <2>2
<1>3. ASSUME draftPc = "sbom inventory", VerifySums(2, "artifacts") PROVE DraftInv'
    <2>1. CASE accepted(2)
        <3>1. draftPc' = "artifacts" /\ UNCHANGED <<assets, checked>>
            BY <1>3, <2>1 DEF VerifySums
        <3>2. DraftTypes'
            BY <1>3, <3>1 DEF DraftInv, DraftTypes, Working
        <3>3. SignaturesHold'
            BY <1>3, <2>1, <3>1 DEF DraftInv, SignaturesHold, SignaturesRead, Listed, SignatureIsOf
        <3>4. (CheckedIsSigned /\ ReleaseIsWhole /\ LookedAgain)'
            BY <1>3, <3>1 DEF DraftInv, CheckedIsSigned, ReleaseIsWhole, LookedAgain, SignaturesRead, ReleaseRead
        <3>5. LeftAlone' /\ PublishedIsVerified'
            BY <1>3, <3>1 DEF DraftInv, LeftAlone, PublishedIsVerified, Working
        <3> QED BY <3>2, <3>3, <3>4, <3>5 DEF DraftInv
    <2>2. CASE ~accepted(2)
        <3>1. RefuseDraft
            BY <1>3, <2>2 DEF VerifySums
        <3>2. draftChanges > 0
            BY <1>1, <1>3, <2>2 DEF Working, Kinds
        <3> QED BY <1>3, <3>1, <3>2, RefusalKeepsDraftInv
    <2> QED BY <2>1, <2>2
<1> QED BY <1>2, <1>3 DEF VerifyInventories

LEMMA VerifyArtifactKeepsDraftInv ==
    ASSUME DraftInv, NEW n \in Artifacts, VerifyArtifact(n), UNCHANGED <<draft, lists, public, nextId, late, draftChanges>>
    PROVE  DraftInv'
<1> DEFINE accepted == Downloads(n) /\ n \in Entries /\ Digest(n) = assets[n].contents
<1>1. draftPc = "artifacts" /\ n \in Listed
    BY DEF VerifyArtifact
<1>2. CASE accepted
    <2>1. checked' = checked \cup {n} /\ UNCHANGED <<draftPc, assets>>
        BY <1>2 DEF VerifyArtifact
    <2>2. DraftTypes'
        BY <1>1, <2>1 DEF DraftInv, DraftTypes
    <2>3. SignaturesHold' /\ LookedAgain' /\ PublishedIsVerified'
        BY <1>1, <2>1 DEF DraftInv, SignaturesHold, LookedAgain, PublishedIsVerified, Listed, SignatureIsOf
    <2>4. CheckedIsSigned'
        BY <1>1, <1>2, <2>1 DEF DraftInv, CheckedIsSigned, SignaturesRead, Listed, Digest, Entries
    <2>5. ReleaseIsWhole' /\ LeftAlone'
        BY <1>1, <2>1 DEF DraftInv, ReleaseIsWhole, ReleaseRead, LeftAlone
    <2> QED BY <2>2, <2>3, <2>4, <2>5 DEF DraftInv
<1>3. CASE ~accepted
    <2>1. RefuseDraft
        BY <1>3 DEF VerifyArtifact
    <2>2. draftChanges > 0
        <3> SUFFICES ASSUME draftChanges = 0 PROVE accepted
            BY <1>3 DEF DraftInv, DraftTypes
        <3>1. draftPc \in Working
            BY <1>1 DEF Working
        <3>2. PICK b \in Builds : \A m \in Listed : assets[m] # None /\ assets[m].contents = b
            BY <3>1, SoundDraftIsAccepted
        <3>3. Downloads(n) /\ Listed = {m \in Names : Uploaded(m)}
            BY <1>1, <3>1, SoundDraftIsAccepted
        <3>4. n \in Entries
            <4>1. n \in WholeRelease
                BY <1>1, <3>3, UploadedNames, InventoryNames DEF Kinds
            <4> QED BY <4>1 DEF DraftInv, LeftAlone, WholeRelease, Entries, Kinds
        <3>5. Sums(IF IsSBOM(n) THEN 2 ELSE 1) \in Listed
            BY <1>1 DEF DraftInv, SignaturesHold, SignaturesRead
        <3> QED BY <1>1, <3>2, <3>3, <3>4, <3>5 DEF Digest
    <2> QED BY <1>1, <2>1, <2>2, RefusalKeepsDraftInv
<1> QED BY <1>2, <1>3

LEMMA VerifyReleaseKeepsDraftInv ==
    ASSUME DraftInv, VerifyRelease, UNCHANGED <<draft, lists, public, nextId, late, draftChanges>>
    PROVE  DraftInv'
<1> DEFINE accepted == /\ \A p \in AllPlatforms : Archive(p) \in checked => p \in Platforms /\ SBOM(p) \in checked
                       /\ \A p \in AllPlatforms : SBOM(p) \in checked =>
                              Archive(p) \in checked /\ assets[SBOM(p)].contents = assets[Archive(p)].contents
                       /\ Registry \in checked /\ assets[Registry].contents # 0
                       /\ InventoryIsComplete
                       /\ \A p \in Platforms : Archive(p) \in Listed
<1>1. draftPc = "artifacts" /\ Listed \cap Artifacts \subseteq checked
    BY DEF VerifyRelease
<1>2. CASE accepted
    <2>1. draftPc' = "look again" /\ UNCHANGED <<assets, checked>>
        BY <1>2 DEF VerifyRelease
    <2>2. DraftTypes'
        BY <1>1, <2>1 DEF DraftInv, DraftTypes, Working
    <2>3. SignaturesHold' /\ CheckedIsSigned'
        BY <1>1, <2>1 DEF DraftInv, SignaturesHold, CheckedIsSigned, SignaturesRead, Listed, SignatureIsOf, Digest, Entries
    <2>4. ReleaseIsWhole'
        BY <1>1, <1>2, <2>1 DEF ReleaseIsWhole, Listed, InventoryIsComplete, Entries
    <2>5. LookedAgain' /\ LeftAlone' /\ PublishedIsVerified'
        BY <1>1, <2>1 DEF DraftInv, LookedAgain, LeftAlone, PublishedIsVerified, Working
    <2> QED BY <2>2, <2>3, <2>4, <2>5 DEF DraftInv
<1>3. CASE ~accepted
    <2>1. RefuseDraft
        BY <1>3 DEF VerifyRelease
    <2>2. draftChanges > 0
        <3> SUFFICES ASSUME draftChanges = 0 PROVE accepted
            BY <1>3 DEF DraftInv, DraftTypes
        <3>1. draftPc \in Working
            BY <1>1 DEF Working
        <3>2. PICK b \in Builds : b # 0 /\ \A m \in Listed : assets[m] # None /\ assets[m].contents = b
            BY <3>1, SoundDraftIsAccepted
        <3>3. Listed = {m \in Names : Uploaded(m)}
            BY <3>1, SoundDraftIsAccepted
        <3>4. WholeRelease = Entries
            BY DEF DraftInv, LeftAlone, WholeRelease, Entries, Kinds
        <3>5. Listed = WholeRelease \cup {Sums(1), Sums(2), Sig(1), Sig(2)}
            BY <3>3, UploadedNames
        <3>6. InventoryIsComplete
            BY <3>4, <3>5, WholeIsOfArtifacts, FourMore DEF InventoryIsComplete
        <3>7. checked = WholeRelease
            <4>1. WholeRelease \subseteq checked
                BY <1>1, <3>5, WholeIsOfArtifacts
            <4>2. checked \subseteq WholeRelease
                BY <1>1, <3>4 DEF DraftInv, CheckedIsSigned, SignaturesRead
            <4> QED BY <4>1, <4>2
        <3>8. \A p \in AllPlatforms : Archive(p) \in WholeRelease <=> p \in Platforms
            BY ArtifactNames, StrayIsNoPlatform DEF WholeRelease, Whole
        <3>9. \A p \in AllPlatforms : SBOM(p) \in WholeRelease <=> p \in Platforms
            BY ArtifactNames, StrayIsNoPlatform DEF WholeRelease, Whole
        <3>10. Registry \in WholeRelease
            BY DEF WholeRelease, Whole
        <3>11. \A n \in checked : n \in Listed /\ assets[n].contents = b
            BY <3>2, <3>5, <3>7
        <3>12. \A p \in Platforms : Archive(p) \in Listed
            BY <3>5, <3>8, StrayIsNoPlatform
        <3> QED BY <3>2, <3>6, <3>7, <3>8, <3>9, <3>10, <3>11, <3>12
    <2> QED BY <1>1, <2>1, <2>2, RefusalKeepsDraftInv
<1> QED BY <1>2, <1>3

LEMMA LookAgainKeepsDraftInv ==
    ASSUME DraftInv, LookAgain, UNCHANGED <<draft, lists, public, nextId, late, draftChanges>>
    PROVE  DraftInv'
<1>1. draftPc = "look again"
    BY DEF LookAgain
<1>2. CASE public = "draft" /\ SameAssets
    <2>1. draftPc' = "edit" /\ UNCHANGED <<assets, checked>>
        BY <1>2 DEF LookAgain
    <2>2. DraftTypes'
        BY <1>1, <2>1 DEF DraftInv, DraftTypes, Working
    <2>3. SignaturesHold' /\ CheckedIsSigned'
        BY <1>1, <2>1 DEF DraftInv, SignaturesHold, CheckedIsSigned, SignaturesRead, Listed, SignatureIsOf, Digest, Entries
    <2>4. ReleaseIsWhole' /\ LeftAlone'
        BY <1>1, <2>1 DEF DraftInv, ReleaseIsWhole, ReleaseRead, Listed, InventoryIsComplete, Entries, LeftAlone, Working
    <2>5. LookedAgain' /\ PublishedIsVerified'
        BY <1>2, <2>1 DEF LookedAgain, SameAssets, PublishedIsVerified
    <2> QED BY <2>2, <2>3, <2>4, <2>5 DEF DraftInv
<1>3. CASE ~(public = "draft" /\ SameAssets)
    <2>1. RefuseDraft
        BY <1>3 DEF LookAgain
    <2>2. draftChanges > 0
        <3>1. draftChanges = 0 => public = "draft" /\ SameAssets
            BY <1>1 DEF DraftInv, LeftAlone, Working, SameAssets
        <3> QED BY <1>3, <3>1 DEF DraftInv, DraftTypes
    <2> QED BY <1>1, <2>1, <2>2, RefusalKeepsDraftInv
<1> QED BY <1>2, <1>3

\* At the edit the listing is a whole release, and so is what the inventories list.
LEMMA EditedReleaseIsWhole ==
    ASSUME DraftInv, draftPc = "edit"
    PROVE  /\ checked = WholeRelease
           /\ Listed = WholeRelease \cup {Sums(1), Sums(2), Sig(1), Sig(2)}
           /\ \A kind \in Kinds : lists[kind] = Whole(kind)
<1>1. /\ {Sums(1), Sig(1), Sums(2), Sig(2)} \subseteq Listed
      /\ \A kind \in Kinds : \A n \in lists[kind] : Expected(kind, n)
    BY DEF DraftInv, SignaturesHold, SignaturesRead, Kinds
<1>2. /\ \A n \in checked : n \in Listed /\ n \in Entries
      /\ Listed \cap Artifacts \subseteq checked
      /\ \A p \in AllPlatforms : Archive(p) \in checked => p \in Platforms /\ SBOM(p) \in checked
      /\ \A p \in AllPlatforms : SBOM(p) \in checked => Archive(p) \in checked
      /\ Registry \in checked
      /\ InventoryIsComplete
      /\ \A p \in Platforms : Archive(p) \in Listed
    BY DEF DraftInv, CheckedIsSigned, ReleaseIsWhole, SignaturesRead, ReleaseRead
<1>3. checked \in SUBSET Artifacts /\ Entries \in SUBSET Artifacts
    BY DEF DraftInv, DraftTypes, Entries, Kinds
<1>4. checked = WholeRelease
    <2>1. WholeRelease \subseteq checked
        <3>1. \A p \in Platforms : Archive(p) \in checked
            BY <1>2, ArtifactNames, StrayIsNoPlatform
        <3>2. \A p \in Platforms : SBOM(p) \in checked
            BY <1>2, <3>1, StrayIsNoPlatform
        <3> QED BY <1>2, <3>1, <3>2 DEF WholeRelease, Whole
    <2>2. checked \subseteq WholeRelease
        BY <1>2, <1>3 DEF WholeRelease, Whole, Artifacts
    <2> QED BY <2>1, <2>2
<1>5. Listed = WholeRelease \cup {Sums(1), Sums(2), Sig(1), Sig(2)}
    <2>1. Listed \subseteq Artifacts \cup {Sums(1), Sums(2), Sig(1), Sig(2)}
        BY DEF Listed, Names, Kinds
    <2>2. checked = Listed \cap Artifacts
        BY <1>2, <1>3
    <2> QED BY <1>1, <1>4, <2>1, <2>2
<1>6. Cardinality(Entries) = Cardinality(WholeRelease)
    BY <1>2, <1>5, WholeIsOfArtifacts, FourMore DEF InventoryIsComplete
<1>7. Entries = WholeRelease
    <2>1. WholeRelease \subseteq Entries
        BY <1>2, <1>4
    <2>2. IsFiniteSet(Entries)
        BY <1>3, FourMore
    <2> QED BY <1>6, <2>1, <2>2, FS_Subset
<1>8. ASSUME NEW kind \in Kinds PROVE lists[kind] = Whole(kind)
    <2>1. lists[kind] = {n \in Entries : Expected(kind, n)}
        BY <1>1, <1>8 DEF Entries, Kinds, Expected
    <2> QED BY <1>7, <2>1, WholeIsOfArtifacts
<1> QED BY <1>4, <1>5, <1>8

\* It is of one signed build.
LEMMA EditedReleaseIsVerified ==
    ASSUME DraftInv, draftPc = "edit"
    PROVE  \E b \in Builds : \A n \in Names :
               IF Uploaded(n) THEN assets[n] # None /\ assets[n].contents = b ELSE assets[n] = None
<1> DEFINE b == assets[Sums(1)].contents
<1>1. /\ {Sums(1), Sig(1), Sums(2), Sig(2)} \subseteq Listed
      /\ SignatureIsOf(1) /\ SignatureIsOf(2)
    BY DEF DraftInv, SignaturesHold, SignaturesRead
<1>2. /\ \A n \in checked : Digest(n) = assets[n].contents
      /\ \A p \in AllPlatforms : SBOM(p) \in checked => assets[SBOM(p)].contents = assets[Archive(p)].contents
    BY DEF DraftInv, CheckedIsSigned, ReleaseIsWhole, SignaturesRead, ReleaseRead
<1>3. b \in Builds
    <2>1. b # 0
        BY <1>1 DEF SignatureIsOf
    <2>2. assets \in [Names -> Asset]
        BY DEF DraftInv, DraftTypes, Working
    <2>3. b \in DraftContents
        BY <1>1, <2>2, ListedAreAssets
    <2> QED BY <2>1, <2>3 DEF DraftContents
<1>4. \A p \in Platforms : Archive(p) \in checked /\ SBOM(p) \in checked
    BY EditedReleaseIsWhole DEF WholeRelease, Whole
<1>5. \A p \in Platforms : assets[Archive(p)].contents = b /\ assets[SBOM(p)].contents = b
    BY <1>2, <1>4, ArtifactNames, StrayIsNoPlatform DEF Digest
<1>6. assets[Registry].contents = b
    <2>1. Registry \in checked
        BY EditedReleaseIsWhole DEF WholeRelease, Whole
    <2> QED BY <1>2, <2>1, ArtifactNames DEF Digest
<1>7. assets[Sums(2)].contents = b
    <2>1. PICK p : p \in Platforms
        BY PlatformsAssumption
    <2> QED BY <1>2, <1>4, <1>5, <2>1, ArtifactNames, StrayIsNoPlatform DEF Digest
<1>8. assets[Sig(1)].contents = b /\ assets[Sig(2)].contents = b
    BY <1>1, <1>7 DEF SignatureIsOf
<1>9. \A n \in WholeRelease : assets[n].contents = b
    BY <1>5, <1>6 DEF WholeRelease, Whole
<1>10. Listed = {n \in Names : Uploaded(n)}
    BY EditedReleaseIsWhole, UploadedNames
<1>11. ASSUME NEW n \in Listed PROVE assets[n].contents = b
    BY <1>7, <1>8, <1>9, <1>11, EditedReleaseIsWhole
<1> QED BY <1>3, <1>10, <1>11 DEF Listed

LEMMA PublishDraftKeepsDraftInv ==
    ASSUME DraftInv, PublishDraft
    PROVE  DraftInv'
<1>1. draftPc = "edit" /\ draftPc' = "done" /\ UNCHANGED <<draft, lists, nextId, assets, checked, late, draftChanges>>
    BY DEF PublishDraft
<1>2. DraftTypes'
    BY <1>1 DEF DraftInv, DraftTypes, PublishDraft, Working
<1>3. (SignaturesHold /\ CheckedIsSigned /\ ReleaseIsWhole /\ LookedAgain)'
    BY <1>1 DEF SignaturesHold, CheckedIsSigned, ReleaseIsWhole, LookedAgain, SignaturesRead, ReleaseRead
<1>4. LeftAlone'
    BY <1>1 DEF DraftInv, LeftAlone, Working
<1>5. PublishedIsVerified'
    <2>1. PICK b \in Builds : \A n \in Names :
              IF Uploaded(n) THEN assets[n] # None /\ assets[n].contents = b ELSE assets[n] = None
        BY <1>1, EditedReleaseIsVerified
    <2>2. \A n \in Names \ late : draft[n] = assets[n]
        BY <1>1 DEF DraftInv, LookedAgain
    <2>3. \A kind \in Kinds : lists[kind] = Whole(kind)
        BY <1>1, EditedReleaseIsWhole
    <2> QED BY <1>1, <2>1, <2>2, <2>3 DEF PublishedIsVerified
<1> QED BY <1>2, <1>3, <1>4, <1>5 DEF DraftInv

LEMMA FailDraftKeepsDraftInv ==
    ASSUME DraftInv, FailDraft
    PROVE  DraftInv'
<1>1. DraftTypes'
    BY DEF DraftInv, DraftTypes, FailDraft, Working
<1>2. (SignaturesHold /\ CheckedIsSigned /\ ReleaseIsWhole)'
    BY DEF SignaturesHold, CheckedIsSigned, ReleaseIsWhole, FailDraft, SignaturesRead, ReleaseRead
<1>3. LookedAgain' /\ LeftAlone' /\ PublishedIsVerified'
    BY DEF DraftInv, LookedAgain, LeftAlone, FailDraft, PublishedIsVerified, Working
<1> QED BY <1>1, <1>2, <1>3 DEF DraftInv

\* What others change is excused if it is too late to be noticed, and shows in the count.
LEMMA ChangeAssetKeepsDraftInv ==
    ASSUME DraftInv, NEW n \in Names, ChangeAsset(n)
    PROVE  DraftInv'
<1>1. /\ public = "draft" /\ draftChanges' = draftChanges + 1 /\ nextId' = nextId + 1
      /\ late' = IF draftPc = "edit" THEN late \cup {n} ELSE late
      /\ UNCHANGED <<lists, public, draftPc, assets, checked>>
    BY DEF ChangeAsset
<1>2. PICK a \in [id : {nextId}, contents : DraftContents] \cup {None} : draft' = [draft EXCEPT ![n] = a]
    BY DEF ChangeAsset
<1>3. a \in Asset
    BY <1>2 DEF Asset, DraftInv, DraftTypes
<1>4. DraftTypes'
    BY <1>1, <1>2, <1>3 DEF DraftInv, DraftTypes
<1>5. (SignaturesHold /\ CheckedIsSigned /\ ReleaseIsWhole)'
    BY <1>1 DEF DraftInv, SignaturesHold, CheckedIsSigned, ReleaseIsWhole, Listed, SignatureIsOf, Digest, Entries, InventoryIsComplete
<1>6. LookedAgain'
    BY <1>1, <1>2 DEF DraftInv, DraftTypes, LookedAgain
<1>7. LeftAlone' /\ PublishedIsVerified'
    BY <1>1 DEF DraftInv, DraftTypes, LeftAlone, PublishedIsVerified
<1> QED BY <1>4, <1>5, <1>6, <1>7 DEF DraftInv

LEMMA TakeDraftKeepsDraftInv ==
    ASSUME DraftInv, TakeDraft
    PROVE  DraftInv'
<1>1. DraftTypes'
    BY DEF DraftInv, DraftTypes, TakeDraft
<1>2. (SignaturesHold /\ CheckedIsSigned /\ ReleaseIsWhole)'
    BY DEF DraftInv, SignaturesHold, CheckedIsSigned, ReleaseIsWhole, Listed, SignatureIsOf, Digest, Entries, InventoryIsComplete, TakeDraft
<1>3. LookedAgain' /\ LeftAlone' /\ PublishedIsVerified'
    BY DEF DraftInv, DraftTypes, LookedAgain, LeftAlone, TakeDraft, PublishedIsVerified
<1> QED BY <1>1, <1>2, <1>3 DEF DraftInv

LEMMA DraftStepKeepsInv == DraftInv /\ [DraftNext]_draftVars => DraftInv'
<1> SUFFICES ASSUME DraftInv, [DraftNext]_draftVars PROVE DraftInv'
    OBVIOUS
<1>1. CASE VerifyDraft
    <2>1. UNCHANGED <<draft, lists, public, nextId, late, draftChanges>>
        BY <1>1 DEF VerifyDraft
    <2>2. ASSUME NEW n \in Artifacts, VerifyArtifact(n) PROVE DraftInv'
        BY <2>1, <2>2, VerifyArtifactKeepsDraftInv
    <2> QED BY <1>1, <2>1, <2>2, ReadDraftAssetsKeepsDraftInv, VerifyInventoriesKeepsDraftInv, VerifyReleaseKeepsDraftInv,
               LookAgainKeepsDraftInv DEF VerifyDraft
<1>2. CASE PublishDraft
    BY <1>2, PublishDraftKeepsDraftInv
<1>3. CASE FailDraft
    BY <1>3, FailDraftKeepsDraftInv
<1>4. CASE TakeDraft
    BY <1>4, TakeDraftKeepsDraftInv
<1>5. ASSUME NEW n \in Names, ChangeAsset(n) PROVE DraftInv'
    BY <1>5, ChangeAssetKeepsDraftInv
<1>6. CASE UNCHANGED draftVars
    <2>1. DraftTypes'
        BY <1>6 DEF DraftInv, DraftTypes, draftVars
    <2>2. (SignaturesHold /\ CheckedIsSigned /\ ReleaseIsWhole)'
        BY <1>6 DEF DraftInv, SignaturesHold, CheckedIsSigned, ReleaseIsWhole, Listed, SignatureIsOf, Digest, Entries, InventoryIsComplete, draftVars
    <2>3. LookedAgain' /\ LeftAlone' /\ PublishedIsVerified'
        BY <1>6 DEF DraftInv, LookedAgain, LeftAlone, draftVars, PublishedIsVerified
    <2> QED BY <2>1, <2>2, <2>3 DEF DraftInv
<1> QED BY <1>1, <1>2, <1>3, <1>4, <1>5, <1>6 DEF DraftNext

(***************************************************************************)
(* Signing: the invariant                                                  *)
(***************************************************************************)

\* A function of some artifacts to contents that they may have.
IsInventory(g) == DOMAIN g \subseteq Artifacts /\ \A f \in DOMAIN g : g[f] \in Contents(f)

Reading == {"start", "complete", "discover", "registry"}
VerifyingArchives == {"archives", "sbom"}
Signed == {"sign sboms", "publish", "manifest", "done"}
Complete == Signed \cup {"sign"}

SigningTypes ==
    /\ disk = [f \in Artifacts |-> disk[f]]
    /\ \A f \in Artifacts : disk[f] \in Contents(f) \cup {None}
    /\ IsInventory(sums)
    /\ pc \in Reading \cup VerifyingArchives \cup Complete \cup {"refused", "unsigned", "failed"}
    /\ IsInventory(manifest)
    /\ found \in SUBSET Artifacts
    /\ IsInventory(snapshot)
    /\ verified \in Seq(Artifacts)
    /\ published \in SUBSET Artifacts
    /\ changes \in Nat

\* What was verified is what the checksums say, what is yet to be put back was verified, and
\* what was put back is still what was verified.
SnapshotIsListed ==
    /\ pc \in Reading => DOMAIN snapshot = {}
    /\ \A f \in DOMAIN snapshot : f \in DOMAIN manifest /\ snapshot[f] = manifest[f]
    /\ \A i \in 1..Len(verified) : verified[i] \in DOMAIN snapshot
    /\ \A f \in published : f \in DOMAIN snapshot /\ disk[f] = snapshot[f]

\* As many SBOMs as archives were found.
SBOMsAreAsMany ==
    pc \in VerifyingArchives \cup {"registry"} =>
        Cardinality({f \in found : IsArchive(f)}) = Cardinality({f \in found : IsSBOM(f)})

RegistryIsSound ==
    pc \in VerifyingArchives \cup Complete => Registry \in DOMAIN snapshot /\ snapshot[Registry] = "sound"

Described(p) == SBOM(p) \in DOMAIN snapshot /\ Describes(snapshot[SBOM(p)], p, snapshot[Archive(p)])

\* Each archive that was verified is of a platform of the release and has an SBOM, which was
\* verified with it unless its turn is next.
ArchivesAreDescribed ==
    /\ pc \in VerifyingArchives => \A p \in AllPlatforms : Archive(p) \in DOMAIN snapshot =>
           /\ p \in Platforms /\ Archive(p) \in found /\ SBOM(p) \in found
           /\ Described(p) \/ (pc = "sbom" /\ verified[Len(verified)] = Archive(p))
    /\ pc = "sbom" => verified # <<>> /\ \E p \in Platforms :
           verified[Len(verified)] = Archive(p) /\ Archive(p) \in DOMAIN snapshot

ReleaseFiles == {Archive(p) : p \in Platforms} \cup {SBOM(p) : p \in Platforms} \cup {Registry}

\* The checksums that are signed are of one whole release.
ManifestIsRelease ==
    pc \in Complete =>
        /\ DOMAIN manifest = ReleaseFiles
        /\ manifest[Registry] = "sound"
        /\ \A p \in Platforms : Describes(manifest[SBOM(p)], p, manifest[Archive(p)])

SignaturesAreOfManifest ==
    /\ pc \in Signed => sig = RegistryChecksums
    /\ pc \in Signed \ {"sign sboms"} => sbomSig = SBOMChecksums

IsOfBuild(g) == \A f \in DOMAIN g : g[f] = Built(f)

\* While nobody changes it dist holds what was built, and a run finds that.
NothingDisturbed ==
    changes = 0 =>
        /\ \A f \in Artifacts : disk[f] = Built(f)
        /\ IsOfBuild(sums) /\ DOMAIN sums \in {ReleaseFiles, {f \in ReleaseFiles : ~IsSBOM(f)}}
        /\ IsOfBuild(manifest)
        /\ pc = "complete" => {f \in ReleaseFiles : ~IsSBOM(f)} \subseteq DOMAIN manifest /\ DOMAIN manifest \subseteq ReleaseFiles
        /\ pc \in VerifyingArchives \cup {"discover", "registry"} => DOMAIN manifest = ReleaseFiles
        /\ pc \in VerifyingArchives \cup {"registry"} => found = ReleaseFiles
        /\ pc # "refused"

SigningInv ==
    /\ SigningTypes /\ SnapshotIsListed /\ SBOMsAreAsMany /\ RegistryIsSound /\ ArchivesAreDescribed
    /\ ManifestIsRelease /\ SignaturesAreOfManifest /\ NothingDisturbed

(***************************************************************************)
(* Signing: what a build leaves in dist                                    *)
(***************************************************************************)

LEMMA ReleaseFilesAreArtifacts ==
    /\ ReleaseFiles \subseteq Artifacts
    /\ \A f \in Artifacts : f \in ReleaseFiles <=> f # Archive(Stray) /\ f # SBOM(Stray)
<1>1. ReleaseFiles \subseteq Artifacts
    BY ArtifactNames, StrayIsNoPlatform DEF ReleaseFiles
<1>2. ASSUME NEW f \in ReleaseFiles PROVE f # Archive(Stray) /\ f # SBOM(Stray)
    BY ArtifactNames, StrayIsNoPlatform DEF ReleaseFiles
<1>3. ASSUME NEW f \in Artifacts, f # Archive(Stray), f # SBOM(Stray) PROVE f \in ReleaseFiles
    BY <1>3 DEF ReleaseFiles, Artifacts, AllPlatforms
<1> QED BY <1>1, <1>2, <1>3

LEMMA BuiltContents ==
    /\ \A p \in Platforms : Built(Archive(p)) = 1
    /\ \A p \in Platforms : Built(SBOM(p)) = [of |-> p, build |-> 1]
    /\ Built(Registry) = "sound"
    /\ \A f \in ReleaseFiles : Built(f) \in Contents(f) /\ Built(f) # None
    /\ \A f \in Artifacts \ ReleaseFiles : Built(f) = None
<1>1. \A p \in Platforms : Built(Archive(p)) = 1
    BY ArtifactNames, StrayIsNoPlatform DEF Built
<1>2. \A p \in Platforms : Built(SBOM(p)) = [of |-> p, build |-> 1]
    <2> SUFFICES ASSUME NEW p \in Platforms PROVE Built(SBOM(p)) = [of |-> p, build |-> 1]
        OBVIOUS
    <2>1. SBOM(p)[2] = p
        BY DEF SBOM
    <2>2. p \in AllPlatforms /\ p # Stray
        BY StrayIsNoPlatform
    <2>3. /\ SBOM(p) # Archive(Stray) /\ SBOM(p) # SBOM(Stray)
          /\ ~IsArchive(SBOM(p)) /\ IsSBOM(SBOM(p))
        BY <2>2, ArtifactNames, StrayIsNoPlatform
    <2> QED BY <2>1, <2>3 DEF Built
<1>3. Built(Registry) = "sound"
    BY ArtifactNames, StrayIsNoPlatform DEF Built
<1>4. \A p \in Platforms : Built(Archive(p)) \in Contents(Archive(p))
    BY <1>1, ArtifactNames, StrayIsNoPlatform, BuildsAssumption DEF Contents
<1>5. \A p \in Platforms : Built(SBOM(p)) \in Contents(SBOM(p))
    BY <1>2, ArtifactNames, StrayIsNoPlatform, BuildsAssumption DEF Contents
<1>6. Built(Registry) \in Contents(Registry)
    BY <1>3, ArtifactNames DEF Contents
<1>7. \A f \in ReleaseFiles : Built(f) \in Contents(f)
    BY <1>4, <1>5, <1>6 DEF ReleaseFiles
<1>8. \A f \in ReleaseFiles : Built(f) # None
    BY <1>7, ReleaseFilesAreArtifacts, NoneIsNoContents
<1>9. \A f \in Artifacts \ ReleaseFiles : Built(f) = None
    BY ReleaseFilesAreArtifacts DEF Built
<1> QED BY <1>1, <1>2, <1>3, <1>7, <1>8, <1>9

\* The archives, and the SBOMs, among the files of a release.
LEMMA ReleaseFileKinds ==
    /\ {f \in ReleaseFiles : IsArchive(f)} = {Archive(p) : p \in Platforms}
    /\ {f \in ReleaseFiles : IsSBOM(f)} = {SBOM(p) : p \in Platforms}
    /\ {f \in ReleaseFiles : ~IsSBOM(f)} = {Archive(p) : p \in Platforms} \cup {Registry}
    /\ Cardinality({f \in ReleaseFiles : IsArchive(f)}) = Cardinality({f \in ReleaseFiles : IsSBOM(f)})
<1>1. {f \in ReleaseFiles : IsArchive(f)} = {Archive(p) : p \in Platforms}
    BY ArtifactNames, StrayIsNoPlatform DEF ReleaseFiles
<1>2. {f \in ReleaseFiles : IsSBOM(f)} = {SBOM(p) : p \in Platforms}
    BY ArtifactNames, StrayIsNoPlatform DEF ReleaseFiles
<1>3. {f \in ReleaseFiles : ~IsSBOM(f)} = {Archive(p) : p \in Platforms} \cup {Registry}
    BY ArtifactNames, StrayIsNoPlatform DEF ReleaseFiles
<1>4. Cardinality({Archive(p) : p \in Platforms}) = Cardinality({SBOM(p) : p \in Platforms})
    BY ArchivesAreCounted, SBOMsAreCounted, PlatformsAssumption, StrayIsNoPlatform
<1> QED BY <1>1, <1>2, <1>3, <1>4

\* GoReleaser and syft leave a whole release in dist.
LEMMA SigningInitHolds == Init => SigningInv
<1> SUFFICES ASSUME Init PROVE SigningInv
    OBVIOUS
<1>1. /\ DOMAIN manifest = {} /\ DOMAIN snapshot = {} /\ verified = <<>> /\ published = {} /\ found = {}
      /\ pc = "start" /\ changes = 0
    BY DEF Init, Nothing
<1>2. disk = [f \in Artifacts |-> Built(f)] /\ \A f \in Artifacts : disk[f] = Built(f)
    BY DEF Init
<1>3. {g \in Artifacts : Built(g) # None} = ReleaseFiles
    BY BuiltContents, ReleaseFilesAreArtifacts
<1>4. {g \in Artifacts : Built(g) # None /\ ~IsSBOM(g)} = {f \in ReleaseFiles : ~IsSBOM(f)}
    BY <1>3
<1>5. /\ DOMAIN sums \in {ReleaseFiles, {f \in ReleaseFiles : ~IsSBOM(f)}}
      /\ \A f \in DOMAIN sums : sums[f] = Built(f)
    BY <1>3, <1>4 DEF Init
<1>6. SigningTypes
    <2>1. IsInventory(sums)
        BY <1>5, BuiltContents, ReleaseFilesAreArtifacts DEF IsInventory
    <2>2. \A f \in Artifacts : disk[f] \in Contents(f) \cup {None}
        BY <1>2, BuiltContents
    <2>3. disk = [f \in Artifacts |-> disk[f]]
        BY <1>2
    <2> QED BY <1>1, <2>1, <2>2, <2>3 DEF SigningTypes, IsInventory, Reading
<1>7. SnapshotIsListed
    BY <1>1 DEF SnapshotIsListed
<1>8. SBOMsAreAsMany /\ RegistryIsSound /\ ArchivesAreDescribed /\ ManifestIsRelease /\ SignaturesAreOfManifest
    BY <1>1 DEF SBOMsAreAsMany, RegistryIsSound, ArchivesAreDescribed, ManifestIsRelease, SignaturesAreOfManifest,
                VerifyingArchives, Complete, Signed
<1>9. NothingDisturbed
    BY <1>1, <1>2, <1>5 DEF NothingDisturbed, IsOfBuild, VerifyingArchives
<1> QED BY <1>6, <1>7, <1>8, <1>9 DEF SigningInv

(***************************************************************************)
(* Signing: verification                                                   *)
(***************************************************************************)

\* What Verify leaves alone.
LEMMA VerifyFrame ==
    Verify => UNCHANGED <<disk, sums, sig, sbomSig, published, changes>>
BY DEF Verify, outputs

\* Any step may refuse what somebody changed.
LEMMA RefusalKeepsSigningInv ==
    ASSUME SigningInv, Refuse, changes > 0, UNCHANGED <<disk, sums, sig, sbomSig, published, changes>>
    PROVE  SigningInv'
<1>1. pc' = "refused" /\ UNCHANGED <<manifest, found, snapshot, verified>>
    BY DEF Refuse
<1>2. SigningTypes'
    BY <1>1 DEF SigningInv, SigningTypes, IsInventory
<1>3. SnapshotIsListed'
    BY <1>1 DEF SigningInv, SnapshotIsListed, Reading
<1>4. (SBOMsAreAsMany /\ RegistryIsSound /\ ArchivesAreDescribed /\ ManifestIsRelease /\ SignaturesAreOfManifest)'
    BY <1>1 DEF SBOMsAreAsMany, RegistryIsSound, ArchivesAreDescribed, ManifestIsRelease, SignaturesAreOfManifest,
                VerifyingArchives, Complete, Signed
<1>5. NothingDisturbed'
    BY DEF SigningInv, SigningTypes, NothingDisturbed
<1> QED BY <1>2, <1>3, <1>4, <1>5 DEF SigningInv

LEMMA ReadManifestKeepsSigningInv ==
    ASSUME SigningInv, ReadManifest, UNCHANGED <<disk, sums, sig, sbomSig, published, changes>>
    PROVE  SigningInv'
<1>1. /\ pc = "start" /\ manifest' = sums /\ UNCHANGED <<found, snapshot, verified>>
      /\ pc' = IF \E f \in DOMAIN sums : IsSBOM(f) THEN "discover" ELSE "complete"
    BY DEF ReadManifest
<1>2. pc' \in {"discover", "complete"}
    BY <1>1
<1>3. SigningTypes'
    BY <1>1, <1>2 DEF SigningInv, SigningTypes, IsInventory, Reading
<1>4. SnapshotIsListed'
    BY <1>1, <1>2 DEF SigningInv, SnapshotIsListed, Reading
<1>5. (SBOMsAreAsMany /\ RegistryIsSound /\ ArchivesAreDescribed /\ ManifestIsRelease /\ SignaturesAreOfManifest)'
    BY <1>2 DEF SBOMsAreAsMany, RegistryIsSound, ArchivesAreDescribed, ManifestIsRelease, SignaturesAreOfManifest,
                VerifyingArchives, Complete, Signed
<1>6. NothingDisturbed'
    <2> SUFFICES ASSUME changes = 0 PROVE NothingDisturbed'
        BY DEF NothingDisturbed
    <2>1. /\ \A f \in Artifacts : disk[f] = Built(f)
          /\ IsOfBuild(sums) /\ DOMAIN sums \in {ReleaseFiles, {f \in ReleaseFiles : ~IsSBOM(f)}}
        BY DEF SigningInv, NothingDisturbed
    <2>2. CASE DOMAIN sums = ReleaseFiles
        BY <1>1, <1>2, <2>1, <2>2 DEF NothingDisturbed, IsOfBuild, VerifyingArchives
    <2>3. CASE DOMAIN sums = {f \in ReleaseFiles : ~IsSBOM(f)}
        <3>1. pc' = "complete"
            BY <1>1, <2>3
        <3> QED BY <1>1, <2>1, <2>3, <3>1 DEF NothingDisturbed, IsOfBuild, VerifyingArchives
    <2> QED BY <2>1, <2>2, <2>3
<1> QED BY <1>3, <1>4, <1>5, <1>6 DEF SigningInv

\* completeSBOMChecksums adds the digest of a file that is there.
LEMMA CompleteChecksumKeepsSigningInv ==
    ASSUME SigningInv, CompleteChecksum, UNCHANGED <<disk, sums, sig, sbomSig, published, changes>>
    PROVE  SigningInv'
<1>1. pc = "complete"
    BY DEF CompleteChecksum
<1>2. PICK p \in ToComplete : IF disk[SBOM(p)] = None THEN Refuse
             ELSE /\ manifest' = With(manifest, SBOM(p), disk[SBOM(p)])
                  /\ UNCHANGED <<pc, found, snapshot, verified>>
    BY DEF CompleteChecksum
<1>3. p \in AllPlatforms /\ Archive(p) \in DOMAIN manifest /\ SBOM(p) \in Artifacts
    BY ArtifactNames DEF ToComplete, Unlisted
<1>4. ASSUME changes = 0 PROVE SBOM(p) \in ReleaseFiles /\ disk[SBOM(p)] = Built(SBOM(p))
    <2>1. Archive(p) \in ReleaseFiles
        BY <1>1, <1>3, <1>4 DEF SigningInv, NothingDisturbed
    <2>2. p \in Platforms
        BY <1>3, <2>1, ReleaseFilesAreArtifacts, ArtifactNames DEF AllPlatforms
    <2> QED BY <1>3, <1>4, <2>2 DEF ReleaseFiles, SigningInv, NothingDisturbed
<1>5. CASE disk[SBOM(p)] = None
    <2>1. changes > 0
        BY <1>4, <1>5, BuiltContents DEF SigningInv, SigningTypes
    <2> QED BY <1>2, <1>5, <2>1, RefusalKeepsSigningInv
<1>6. CASE disk[SBOM(p)] # None
    <2>1. manifest' = With(manifest, SBOM(p), disk[SBOM(p)]) /\ UNCHANGED <<pc, found, snapshot, verified>>
        BY <1>2, <1>6
    <2>2. /\ DOMAIN manifest' = DOMAIN manifest \cup {SBOM(p)}
          /\ \A f \in DOMAIN manifest' : manifest'[f] = IF f = SBOM(p) THEN disk[SBOM(p)] ELSE manifest[f]
        BY <2>1 DEF With
    <2>3. disk[SBOM(p)] \in Contents(SBOM(p))
        BY <1>3, <1>6 DEF SigningInv, SigningTypes
    <2>4. IsInventory(manifest)'
        BY <1>3, <2>2, <2>3 DEF SigningInv, SigningTypes, IsInventory
    <2>5. SigningTypes'
        BY <2>1, <2>4 DEF SigningInv, SigningTypes, IsInventory
    <2>6. SnapshotIsListed'
        BY <1>1, <2>1 DEF SigningInv, SnapshotIsListed, Reading
    <2>7. (SBOMsAreAsMany /\ RegistryIsSound /\ ArchivesAreDescribed /\ ManifestIsRelease /\ SignaturesAreOfManifest)'
        BY <1>1, <2>1 DEF SBOMsAreAsMany, RegistryIsSound, ArchivesAreDescribed, ManifestIsRelease,
                SignaturesAreOfManifest, VerifyingArchives, Complete, Signed
    <2>8. NothingDisturbed'
        <3> SUFFICES ASSUME changes = 0 PROVE NothingDisturbed'
            BY DEF NothingDisturbed
        <3>1. IsOfBuild(manifest)'
            BY <1>4, <2>2 DEF SigningInv, NothingDisturbed, IsOfBuild
        <3>2. {f \in ReleaseFiles : ~IsSBOM(f)} \subseteq DOMAIN manifest' /\ DOMAIN manifest' \subseteq ReleaseFiles
            BY <1>1, <1>4, <2>2 DEF SigningInv, NothingDisturbed
        <3> QED BY <1>1, <2>1, <3>1, <3>2 DEF SigningInv, NothingDisturbed, IsOfBuild, VerifyingArchives
    <2> QED BY <2>5, <2>6, <2>7, <2>8 DEF SigningInv
<1> QED BY <1>5, <1>6

LEMMA EndCompletionKeepsSigningInv ==
    ASSUME SigningInv, EndCompletion, UNCHANGED <<disk, sums, sig, sbomSig, published, changes>>
    PROVE  SigningInv'
<1>1. pc = "complete" /\ ToComplete = {} /\ pc' = "discover" /\ UNCHANGED <<manifest, found, snapshot, verified>>
    BY DEF EndCompletion
<1>2. SigningTypes'
    BY <1>1 DEF SigningInv, SigningTypes, IsInventory, Reading
<1>3. SnapshotIsListed'
    BY <1>1 DEF SigningInv, SnapshotIsListed, Reading
<1>4. (SBOMsAreAsMany /\ RegistryIsSound /\ ArchivesAreDescribed /\ ManifestIsRelease /\ SignaturesAreOfManifest)'
    BY <1>1 DEF SBOMsAreAsMany, RegistryIsSound, ArchivesAreDescribed, ManifestIsRelease, SignaturesAreOfManifest,
                VerifyingArchives, Complete, Signed
<1>5. NothingDisturbed'
    <2> SUFFICES ASSUME changes = 0 PROVE NothingDisturbed'
        BY DEF NothingDisturbed
    <2>1. {f \in ReleaseFiles : ~IsSBOM(f)} \subseteq DOMAIN manifest /\ DOMAIN manifest \subseteq ReleaseFiles
        BY <1>1 DEF SigningInv, NothingDisturbed
    <2>2. \A p \in Platforms : Archive(p) \in DOMAIN manifest
        BY <2>1, ReleaseFileKinds
    <2>3. \A p \in Platforms : SBOM(p) \in DOMAIN manifest
        BY <1>1, <2>2, StrayIsNoPlatform DEF ToComplete, Unlisted
    <2>4. {SBOM(p) : p \in Platforms} \subseteq DOMAIN manifest
        BY <2>3
    <2>5. DOMAIN manifest = ReleaseFiles
        BY <2>1, <2>4, ReleaseFileKinds
    <2> QED BY <1>1, <2>5 DEF SigningInv, NothingDisturbed, IsOfBuild, VerifyingArchives
<1> QED BY <1>2, <1>3, <1>4, <1>5 DEF SigningInv

\* The walk counts what it finds.
LEMMA DiscoverKeepsSigningInv ==
    ASSUME SigningInv, Discover, UNCHANGED <<disk, sums, sig, sbomSig, published, changes>>
    PROVE  SigningInv'
<1> DEFINE here == {f \in Artifacts : disk[f] # None}
           many == /\ \E f \in here : IsArchive(f)
                   /\ Cardinality({f \in here : IsArchive(f)}) = Cardinality({f \in here : IsSBOM(f)})
<1>1. pc = "discover"
    BY DEF Discover
<1>2. changes = 0 => here = ReleaseFiles
    BY BuiltContents, ReleaseFilesAreArtifacts DEF SigningInv, NothingDisturbed
<1>3. CASE many
    <2>1. found' = here /\ pc' = "registry" /\ UNCHANGED <<manifest, snapshot, verified>>
        BY <1>3 DEF Discover
    <2>2. SigningTypes'
        BY <2>1 DEF SigningInv, SigningTypes, IsInventory, Reading
    <2>3. SnapshotIsListed'
        BY <1>1, <2>1 DEF SigningInv, SnapshotIsListed, Reading
    <2>4. SBOMsAreAsMany'
        BY <1>3, <2>1 DEF SBOMsAreAsMany
    <2>5. (RegistryIsSound /\ ArchivesAreDescribed /\ ManifestIsRelease /\ SignaturesAreOfManifest)'
        BY <2>1 DEF RegistryIsSound, ArchivesAreDescribed, ManifestIsRelease, SignaturesAreOfManifest,
                    VerifyingArchives, Complete, Signed
    <2>6. NothingDisturbed'
        BY <1>1, <1>2, <2>1 DEF SigningInv, NothingDisturbed, IsOfBuild, VerifyingArchives
    <2> QED BY <2>2, <2>3, <2>4, <2>5, <2>6 DEF SigningInv
<1>4. CASE ~many
    <2>1. Refuse
        BY <1>4 DEF Discover
    <2>2. changes > 0
        <3> SUFFICES ASSUME changes = 0 PROVE many
            BY <1>4 DEF SigningInv, SigningTypes
        <3>1. PICK p : p \in Platforms
            BY PlatformsAssumption
        <3>2. Archive(p) \in here /\ IsArchive(Archive(p))
            BY <1>2, <3>1, ArtifactNames, StrayIsNoPlatform DEF ReleaseFiles
        <3> HIDE DEF here
        <3>3. here = ReleaseFiles
            BY <1>2
        <3> QED BY <3>2, <3>3, ReleaseFileKinds
    <2> QED BY <2>1, <2>2, RefusalKeepsSigningInv
<1> QED BY <1>3, <1>4

\* What is kept was just found to be what the checksums say.
LEMMA KeepsAreListed ==
    ASSUME SigningInv, NEW f \in Artifacts, disk[f] # None, Matches(f), Keep(f), pc' \in VerifyingArchives,
           UNCHANGED <<disk, sums, manifest, found, published, changes>>
    PROVE  /\ SigningTypes' /\ SnapshotIsListed'
           /\ verified' # <<>> /\ verified'[Len(verified')] = f
           /\ DOMAIN snapshot' = DOMAIN snapshot \cup {f}
           /\ \A g \in DOMAIN snapshot : snapshot'[g] = snapshot[g]
           /\ snapshot'[f] = disk[f]
<1>1. /\ DOMAIN snapshot' = DOMAIN snapshot \cup {f}
      /\ \A g \in DOMAIN snapshot' : snapshot'[g] = IF g = f THEN disk[f] ELSE snapshot[g]
    BY DEF Keep, With
<1>2. verified' = Append(verified, f) /\ verified \in Seq(Artifacts)
    BY DEF Keep, SigningInv, SigningTypes
<1>3. /\ verified' \in Seq(Artifacts) /\ Len(verified') = Len(verified) + 1 /\ verified'[Len(verified')] = f
      /\ \A i \in 1..Len(verified) : verified'[i] = verified[i]
      /\ Len(verified) \in Nat
    BY <1>2
<1>4. verified' # <<>>
    BY <1>3
<1>5. f \in DOMAIN manifest /\ manifest[f] = disk[f]
    BY DEF Matches
<1>6. \A g \in DOMAIN snapshot : g \in DOMAIN manifest /\ snapshot[g] = manifest[g]
    BY DEF SigningInv, SnapshotIsListed
<1>7. \A g \in DOMAIN snapshot : snapshot'[g] = snapshot[g]
    BY <1>1, <1>5, <1>6
<1>8. SigningTypes'
    <2>1. IsInventory(snapshot)'
        BY <1>1 DEF SigningInv, SigningTypes, IsInventory
    <2> QED BY <1>3, <2>1 DEF SigningInv, SigningTypes, IsInventory
<1>9. SnapshotIsListed'
    <2>1. \A g \in DOMAIN snapshot' : g \in DOMAIN manifest /\ snapshot'[g] = manifest[g]
        BY <1>1, <1>5, <1>6
    <2>2. \A i \in 1..Len(verified') : verified'[i] \in DOMAIN snapshot'
        <3> SUFFICES ASSUME NEW i \in 1..Len(verified') PROVE verified'[i] \in DOMAIN snapshot'
            OBVIOUS
        <3>1. CASE i = Len(verified')
            BY <1>1, <1>3, <3>1
        <3>2. CASE i # Len(verified')
            <4>1. i \in 1..Len(verified)
                BY <1>3, <3>2
            <4>2. verified[i] \in DOMAIN snapshot
                BY <4>1 DEF SigningInv, SnapshotIsListed
            <4> QED BY <1>1, <1>3, <4>1, <4>2
        <3> QED BY <3>1, <3>2
    <2>3. \A g \in published : g \in DOMAIN snapshot' /\ disk[g] = snapshot'[g]
        BY <1>1, <1>7 DEF SigningInv, SnapshotIsListed
    <2>4. pc' \notin Reading
        BY DEF Reading, VerifyingArchives
    <2> QED BY <2>1, <2>2, <2>3, <2>4 DEF SnapshotIsListed
<1> QED BY <1>1, <1>3, <1>4, <1>7, <1>8, <1>9

\* While nobody changes it, each file of the release is as the checksums say.
LEMMA ReleaseFilesMatch ==
    ASSUME SigningInv, changes = 0, pc \in VerifyingArchives \cup {"registry"}, NEW f \in ReleaseFiles
    PROVE  disk[f] = Built(f) /\ disk[f] # None /\ Matches(f) /\ f \in found
<1>1. disk[f] = Built(f) /\ disk[f] # None
    BY BuiltContents, ReleaseFilesAreArtifacts DEF SigningInv, NothingDisturbed
<1>2. DOMAIN manifest = ReleaseFiles /\ found = ReleaseFiles /\ manifest[f] = Built(f)
    BY DEF SigningInv, NothingDisturbed, IsOfBuild
<1> QED BY <1>1, <1>2 DEF Matches

LEMMA VerifyRegistryKeepsSigningInv ==
    ASSUME SigningInv, VerifyRegistry, UNCHANGED <<disk, sums, sig, sbomSig, published, changes>>
    PROVE  SigningInv'
<1> DEFINE good == disk[Registry] # None /\ Matches(Registry) /\ disk[Registry] = "sound"
<1>1. pc = "registry" /\ DOMAIN snapshot = {}
    BY DEF VerifyRegistry, SigningInv, SnapshotIsListed, Reading
<1>2. CASE good
    <2>1. Keep(Registry) /\ pc' = "archives" /\ UNCHANGED <<manifest, found>>
        BY <1>2 DEF VerifyRegistry
    <2>2. Registry \in Artifacts
        BY ArtifactNames
    <2>3. pc' \in VerifyingArchives
        BY <2>1 DEF VerifyingArchives
    <2>4. /\ SigningTypes' /\ SnapshotIsListed'
          /\ DOMAIN snapshot' = {Registry} /\ snapshot'[Registry] = disk[Registry]
        BY <1>1, <1>2, <2>1, <2>2, <2>3, KeepsAreListed
    <2>5. SBOMsAreAsMany' /\ RegistryIsSound'
        BY <1>1, <1>2, <2>1, <2>4 DEF SigningInv, SBOMsAreAsMany, RegistryIsSound
    <2>6. ArchivesAreDescribed'
        BY <2>1, <2>4, ArtifactNames DEF ArchivesAreDescribed
    <2>7. (ManifestIsRelease /\ SignaturesAreOfManifest)'
        BY <2>1 DEF ManifestIsRelease, SignaturesAreOfManifest, Complete, Signed
    <2>8. NothingDisturbed'
        BY <1>1, <2>1 DEF SigningInv, NothingDisturbed, IsOfBuild, VerifyingArchives
    <2> QED BY <2>4, <2>5, <2>6, <2>7, <2>8 DEF SigningInv
<1>3. CASE ~good
    <2>1. Refuse
        BY <1>3 DEF VerifyRegistry
    <2>2. changes > 0
        <3>1. changes = 0 => good
            <4>1. Registry \in ReleaseFiles
                BY DEF ReleaseFiles
            <4> QED BY <1>1, <4>1, ReleaseFilesMatch, BuiltContents
        <3> QED BY <1>3, <3>1 DEF SigningInv, SigningTypes
    <2> QED BY <2>1, <2>2, RefusalKeepsSigningInv
<1> QED BY <1>2, <1>3

LEMMA VerifyArchiveKeepsSigningInv ==
    ASSUME SigningInv, NEW p \in AllPlatforms, VerifyArchive(p),
           UNCHANGED <<disk, sums, sig, sbomSig, published, changes>>
    PROVE  SigningInv'
<1> DEFINE good == p \in Platforms /\ SBOM(p) \in found /\ disk[Archive(p)] # None /\ Matches(Archive(p))
<1>1. pc = "archives" /\ Archive(p) \in found \ DOMAIN snapshot
    BY DEF VerifyArchive
<1>2. CASE good
    <2>1. Keep(Archive(p)) /\ pc' = "sbom" /\ UNCHANGED <<manifest, found>>
        BY <1>2 DEF VerifyArchive
    <2>2. Archive(p) \in Artifacts
        BY ArtifactNames
    <2>3. pc' \in VerifyingArchives
        BY <2>1 DEF VerifyingArchives
    <2>4. /\ SigningTypes' /\ SnapshotIsListed'
          /\ verified' # <<>> /\ verified'[Len(verified')] = Archive(p)
          /\ DOMAIN snapshot' = DOMAIN snapshot \cup {Archive(p)}
          /\ \A g \in DOMAIN snapshot : snapshot'[g] = snapshot[g]
        BY <1>2, <2>1, <2>2, <2>3, KeepsAreListed
    <2>5. SBOMsAreAsMany' /\ RegistryIsSound'
        BY <1>1, <2>1, <2>4 DEF SigningInv, SBOMsAreAsMany, RegistryIsSound, VerifyingArchives
    <2>6. ArchivesAreDescribed'
        <3>1. ASSUME NEW q \in AllPlatforms, Archive(q) \in DOMAIN snapshot', q # p
              PROVE  q \in Platforms /\ Archive(q) \in found /\ SBOM(q) \in found /\ Described(q)'
            <4>1. Archive(q) \in DOMAIN snapshot
                BY <2>4, <3>1, ArtifactNames
            <4>2. q \in Platforms /\ Archive(q) \in found /\ SBOM(q) \in found /\ Described(q)
                BY <1>1, <4>1 DEF SigningInv, ArchivesAreDescribed, VerifyingArchives
            <4> QED BY <2>4, <4>1, <4>2 DEF Described
        <3> QED BY <1>1, <1>2, <2>1, <2>4, <3>1 DEF ArchivesAreDescribed
    <2>7. (ManifestIsRelease /\ SignaturesAreOfManifest)'
        BY <2>1 DEF ManifestIsRelease, SignaturesAreOfManifest, Complete, Signed
    <2>8. NothingDisturbed'
        BY <1>1, <2>1 DEF SigningInv, NothingDisturbed, IsOfBuild, VerifyingArchives
    <2> QED BY <2>4, <2>5, <2>6, <2>7, <2>8 DEF SigningInv
<1>3. CASE ~good
    <2>1. Refuse
        BY <1>3 DEF VerifyArchive
    <2>2. changes > 0
        <3> SUFFICES ASSUME changes = 0 PROVE good
            BY <1>3 DEF SigningInv, SigningTypes
        <3>1. pc \in VerifyingArchives
            BY <1>1 DEF VerifyingArchives
        <3>2. Archive(p) \in ReleaseFiles
            BY <1>1, <3>1 DEF SigningInv, NothingDisturbed
        <3>3. p \in Platforms
            BY <3>2, ReleaseFilesAreArtifacts, ArtifactNames DEF AllPlatforms
        <3>4. SBOM(p) \in ReleaseFiles
            BY <3>3 DEF ReleaseFiles
        <3> QED BY <3>1, <3>2, <3>3, <3>4, ReleaseFilesMatch
    <2> QED BY <2>1, <2>2, RefusalKeepsSigningInv
<1> QED BY <1>2, <1>3

LEMMA VerifySBOMKeepsSigningInv ==
    ASSUME SigningInv, VerifySBOM, UNCHANGED <<disk, sums, sig, sbomSig, published, changes>>
    PROVE  SigningInv'
<1>1. pc = "sbom"
    BY DEF VerifySBOM
<1>2. PICK p \in Platforms : verified[Len(verified)] = Archive(p) /\ Archive(p) \in DOMAIN snapshot
    BY <1>1 DEF SigningInv, ArchivesAreDescribed
<1>3. p = verified[Len(verified)][2] /\ p \in AllPlatforms
    BY <1>2, StrayIsNoPlatform DEF Archive
<1> DEFINE good == disk[SBOM(p)] # None /\ Matches(SBOM(p)) /\ Describes(disk[SBOM(p)], p, snapshot[Archive(p)])
<1>4. IF good THEN Keep(SBOM(p)) /\ pc' = "archives" /\ UNCHANGED <<manifest, found>> ELSE Refuse
    BY <1>3 DEF VerifySBOM
<1>5. CASE good
    <2>1. Keep(SBOM(p)) /\ pc' = "archives" /\ UNCHANGED <<manifest, found>>
        BY <1>4, <1>5
    <2>2. SBOM(p) \in Artifacts
        BY <1>3, ArtifactNames
    <2>3. pc' \in VerifyingArchives
        BY <2>1 DEF VerifyingArchives
    <2>4. /\ SigningTypes' /\ SnapshotIsListed'
          /\ DOMAIN snapshot' = DOMAIN snapshot \cup {SBOM(p)}
          /\ \A g \in DOMAIN snapshot : snapshot'[g] = snapshot[g]
          /\ snapshot'[SBOM(p)] = disk[SBOM(p)]
        BY <1>5, <2>1, <2>2, <2>3, KeepsAreListed
    <2>5. SBOMsAreAsMany' /\ RegistryIsSound'
        BY <1>1, <2>1, <2>4 DEF SigningInv, SBOMsAreAsMany, RegistryIsSound, VerifyingArchives
    <2>6. ArchivesAreDescribed'
        <3>1. ASSUME NEW q \in AllPlatforms, Archive(q) \in DOMAIN snapshot'
              PROVE  q \in Platforms /\ Archive(q) \in found /\ SBOM(q) \in found /\ Described(q)'
            <4>1. Archive(q) \in DOMAIN snapshot
                BY <1>3, <2>4, <3>1, ArtifactNames
            <4>2. /\ q \in Platforms /\ Archive(q) \in found /\ SBOM(q) \in found
                  /\ Described(q) \/ verified[Len(verified)] = Archive(q)
                BY <1>1, <4>1 DEF SigningInv, ArchivesAreDescribed, VerifyingArchives
            <4>3. CASE q = p
                BY <1>5, <2>4, <4>1, <4>2, <4>3 DEF Described
            <4>4. CASE q # p
                <5>1. Described(q)
                    BY <1>2, <1>3, <4>2, <4>4, ArtifactNames
                <5> QED BY <2>4, <4>1, <4>2, <5>1 DEF Described
            <4> QED BY <4>3, <4>4
        <3> QED BY <2>1, <3>1 DEF ArchivesAreDescribed
    <2>7. (ManifestIsRelease /\ SignaturesAreOfManifest)'
        BY <2>1 DEF ManifestIsRelease, SignaturesAreOfManifest, Complete, Signed
    <2>8. NothingDisturbed'
        BY <1>1, <2>1 DEF SigningInv, NothingDisturbed, IsOfBuild, VerifyingArchives
    <2> QED BY <2>4, <2>5, <2>6, <2>7, <2>8 DEF SigningInv
<1>6. CASE ~good
    <2>1. changes > 0
        <3> SUFFICES ASSUME changes = 0 PROVE good
            BY <1>6 DEF SigningInv, SigningTypes
        <3>1. SBOM(p) \in ReleaseFiles
            BY <1>2 DEF ReleaseFiles
        <3>2. disk[SBOM(p)] = [of |-> p, build |-> 1] /\ disk[SBOM(p)] # None /\ Matches(SBOM(p))
            BY <1>1, <1>2, <3>1, ReleaseFilesMatch, BuiltContents DEF VerifyingArchives
        <3>3. snapshot[Archive(p)] = 1
            BY <1>2, BuiltContents DEF SigningInv, SnapshotIsListed, NothingDisturbed, IsOfBuild
        <3> QED BY <3>2, <3>3 DEF Describes
    <2> QED BY <1>4, <1>6, <2>1, RefusalKeepsSigningInv
<1> QED BY <1>5, <1>6

\* When every archive found is verified, the equal numbers leave no SBOM without its archive.
LEMMA NoSBOMIsLeftOver ==
    ASSUME SigningInv, pc = "archives",
           \A p \in AllPlatforms : Archive(p) \notin found \ DOMAIN snapshot,
           \A p \in Platforms : Archive(p) \in found
    PROVE  found \subseteq ReleaseFiles /\ \A p \in Platforms : Archive(p) \in found /\ SBOM(p) \in found
<1> DEFINE A == {Archive(p) : p \in Platforms}
           B == {SBOM(p) : p \in Platforms}
           S == {f \in found : IsSBOM(f)}
<1>1. ASSUME NEW p \in AllPlatforms, Archive(p) \in found
      PROVE  p \in Platforms /\ SBOM(p) \in found
    <2>1. Archive(p) \in DOMAIN snapshot
        BY <1>1
    <2> QED BY <2>1 DEF SigningInv, ArchivesAreDescribed, VerifyingArchives
<1>2. \A p \in Platforms : SBOM(p) \in found
    BY <1>1, StrayIsNoPlatform
<1>3. \A f \in Artifacts : IsArchive(f) => \E p \in AllPlatforms : f = Archive(p)
    BY ArtifactNames DEF Artifacts
<1>4. found \subseteq Artifacts
    BY DEF SigningInv, SigningTypes
<1>5. {f \in found : IsArchive(f)} = A
    <2>1. \A f \in found : IsArchive(f) => f \in A
        BY <1>1, <1>3, <1>4
    <2>2. \A f \in A : f \in found /\ IsArchive(f)
        BY ArtifactNames, StrayIsNoPlatform
    <2> QED BY <2>1, <2>2
<1>6. Cardinality(S) = Cardinality(A)
    BY <1>5 DEF SigningInv, SBOMsAreAsMany, VerifyingArchives
<1>7. B \subseteq S
    BY <1>2, ArtifactNames, StrayIsNoPlatform
<1>8. /\ Cardinality(A) = Cardinality(B)
      /\ IsFiniteSet(B)
    BY ArchivesAreCounted, SBOMsAreCounted, PlatformsAssumption, StrayIsNoPlatform
<1>9. IsFiniteSet(S)
    <2> DEFINE T == {SBOM(p) : p \in AllPlatforms}
    <2>1. IsFiniteSet(AllPlatforms)
        BY PlatformsAssumption, FS_AddElement DEF AllPlatforms
    <2>2. IsFiniteSet(T)
        BY <2>1, SBOMsAreCounted
    <2>3. S \subseteq T
        BY <1>4, ArtifactNames DEF Artifacts
    <2> HIDE DEF S, T
    <2> QED BY <2>2, <2>3, FS_Subset
<1>10. S = B
    <2> HIDE DEF S, B, A
    <2>1. Cardinality(S) = Cardinality(B)
        BY <1>6, <1>8
    <2> QED BY <1>7, <1>9, <2>1, FS_Subset
<1>11. \A f \in found : f \in A \cup B \cup {Registry}
    <2>1. \A f \in Artifacts : IsArchive(f) \/ IsSBOM(f) \/ f = Registry
        BY ArtifactNames DEF Artifacts
    <2> QED BY <1>4, <1>5, <1>10, <2>1
<1> QED BY <1>2, <1>11 DEF ReleaseFiles

\* What is passed on to be signed is one whole release.
LEMMA VerifyInventoryKeepsSigningInv ==
    ASSUME SigningInv, VerifyInventory, UNCHANGED <<disk, sums, sig, sbomSig, published, changes>>
    PROVE  SigningInv'
<1> DEFINE good == DOMAIN manifest \subseteq found \cup {Registry} /\ \A p \in Platforms : Archive(p) \in found
<1>1. pc = "archives" /\ \A p \in AllPlatforms : Archive(p) \notin found \ DOMAIN snapshot
    BY DEF VerifyInventory
<1>2. CASE good
    <2>1. pc' = "sign" /\ UNCHANGED <<manifest, found, snapshot, verified>>
        BY <1>2 DEF VerifyInventory
    <2>2. found \subseteq ReleaseFiles /\ \A p \in Platforms : Archive(p) \in found /\ SBOM(p) \in found
        BY <1>1, <1>2, NoSBOMIsLeftOver
    <2>3. \A p \in Platforms : Archive(p) \in DOMAIN snapshot /\ Described(p)
        BY <1>1, <2>2, StrayIsNoPlatform, ArtifactNames DEF SigningInv, ArchivesAreDescribed, VerifyingArchives
    <2>4. Registry \in DOMAIN snapshot /\ snapshot[Registry] = "sound"
        BY <1>1 DEF SigningInv, RegistryIsSound, VerifyingArchives
    <2>5. \A f \in DOMAIN snapshot : f \in DOMAIN manifest /\ snapshot[f] = manifest[f]
        BY DEF SigningInv, SnapshotIsListed
    <2>6. ManifestIsRelease'
        <3>1. ReleaseFiles \subseteq DOMAIN manifest
            BY <2>3, <2>4, <2>5 DEF ReleaseFiles, Described
        <3>2. DOMAIN manifest \subseteq ReleaseFiles
            BY <1>2, <2>2 DEF ReleaseFiles
        <3>3. \A p \in Platforms : Describes(manifest[SBOM(p)], p, manifest[Archive(p)])
            BY <2>3, <2>5 DEF Described
        <3> QED BY <2>1, <2>4, <2>5, <3>1, <3>2, <3>3 DEF ManifestIsRelease
    <2>7. SigningTypes'
        BY <2>1 DEF SigningInv, SigningTypes, IsInventory, Complete
    <2>8. SnapshotIsListed' /\ SBOMsAreAsMany' /\ RegistryIsSound' /\ ArchivesAreDescribed'
        BY <1>1, <2>1, <2>4 DEF SigningInv, SnapshotIsListed, SBOMsAreAsMany, RegistryIsSound, ArchivesAreDescribed,
                Reading, VerifyingArchives
    <2>9. SignaturesAreOfManifest'
        BY <2>1 DEF SignaturesAreOfManifest, Signed
    <2>10. NothingDisturbed'
        BY <2>1 DEF SigningInv, NothingDisturbed, IsOfBuild, VerifyingArchives
    <2> QED BY <2>6, <2>7, <2>8, <2>9, <2>10 DEF SigningInv
<1>3. CASE ~good
    <2>1. Refuse
        BY <1>3 DEF VerifyInventory
    <2>2. changes > 0
        <3> SUFFICES ASSUME changes = 0 PROVE good
            BY <1>3 DEF SigningInv, SigningTypes
        <3>1. DOMAIN manifest = ReleaseFiles /\ found = ReleaseFiles
            BY <1>1 DEF SigningInv, NothingDisturbed, VerifyingArchives
        <3> QED BY <3>1 DEF ReleaseFiles
    <2> QED BY <2>1, <2>2, RefusalKeepsSigningInv
<1> QED BY <1>2, <1>3

(***************************************************************************)
(* Signing: signatures, publication, failures, reruns and others           *)
(***************************************************************************)

LEMMA SignKeepsSigningInv ==
    ASSUME SigningInv, Sign
    PROVE  SigningInv'
<1>1. UNCHANGED <<disk, sums, manifest, found, snapshot, verified, published, changes>>
    BY DEF Sign
<1>2. \/ pc = "sign" /\ sig' = RegistryChecksums /\ pc' = "sign sboms"
      \/ pc = "sign sboms" /\ sbomSig' = SBOMChecksums /\ pc' = "publish" /\ sig' = sig
      \/ pc \in {"sign", "sign sboms"} /\ pc' = "unsigned"
    BY DEF Sign
<1>3. pc \in Complete /\ pc' \in Complete \cup {"unsigned"} /\ pc' \notin Reading \cup VerifyingArchives
    BY <1>2 DEF Complete, Signed, Reading, VerifyingArchives
<1>4. SigningTypes' /\ SnapshotIsListed'
    BY <1>1, <1>3 DEF SigningInv, SigningTypes, IsInventory, SnapshotIsListed
<1>5. (SBOMsAreAsMany /\ RegistryIsSound /\ ArchivesAreDescribed)'
    BY <1>1, <1>2, <1>3 DEF SigningInv, SBOMsAreAsMany, RegistryIsSound, ArchivesAreDescribed, VerifyingArchives
<1>6. ManifestIsRelease'
    BY <1>1, <1>2, <1>3 DEF SigningInv, ManifestIsRelease, Complete, Signed
<1>7. SignaturesAreOfManifest'
    BY <1>1, <1>2 DEF SigningInv, SignaturesAreOfManifest, Signed, RegistryChecksums, SBOMChecksums
<1>8. NothingDisturbed'
    BY <1>1, <1>2 DEF SigningInv, NothingDisturbed, IsOfBuild, VerifyingArchives
<1> QED BY <1>4, <1>5, <1>6, <1>7, <1>8 DEF SigningInv

\* A rename puts back what was verified.
LEMMA PublishArtifactKeepsSigningInv ==
    ASSUME SigningInv, PublishArtifact
    PROVE  SigningInv'
<1> DEFINE f == Head(verified)
<1>1. /\ pc = "publish" /\ verified # <<>>
      /\ disk' = [disk EXCEPT ![f] = snapshot[f]] /\ published' = published \cup {f}
      /\ verified' = Tail(verified)
      /\ UNCHANGED <<sums, outputs, pc, manifest, found, snapshot, changes>>
    BY DEF PublishArtifact, Verified
<1>2. UNCHANGED <<sig, sbomSig>>
    BY <1>1 DEF outputs
<1>3. verified \in Seq(Artifacts)
    BY DEF SigningInv, SigningTypes
<1>4. /\ f = verified[1] /\ 1 \in 1..Len(verified)
      /\ Tail(verified) \in Seq(Artifacts) /\ Len(Tail(verified)) = Len(verified) - 1
      /\ \A i \in 1..Len(Tail(verified)) : i + 1 \in 1..Len(verified) /\ Tail(verified)[i] = verified[i + 1]
    BY <1>1, <1>3
<1>5. f \in DOMAIN snapshot /\ f \in Artifacts
    BY <1>3, <1>4 DEF SigningInv, SnapshotIsListed
<1> HIDE DEF f
<1>6. \A g \in Artifacts : disk'[g] = IF g = f THEN snapshot[f] ELSE disk[g]
    BY <1>1 DEF SigningInv, SigningTypes
<1>7. disk' = [g \in Artifacts |-> disk'[g]]
    BY <1>1 DEF SigningInv, SigningTypes
<1>8. SigningTypes'
    <2>1. \A g \in Artifacts : disk'[g] \in Contents(g) \cup {None}
        BY <1>5, <1>6 DEF SigningInv, SigningTypes, IsInventory
    <2> QED BY <1>1, <1>4, <1>5, <1>7, <2>1 DEF SigningInv, SigningTypes, IsInventory
<1>9. SnapshotIsListed'
    <2>1. \A i \in 1..Len(verified') : verified'[i] \in DOMAIN snapshot'
        BY <1>1, <1>4 DEF SigningInv, SnapshotIsListed
    <2>2. \A g \in published' : g \in DOMAIN snapshot' /\ disk'[g] = snapshot'[g]
        BY <1>1, <1>5, <1>6 DEF SigningInv, SigningTypes, SnapshotIsListed
    <2> QED BY <1>1, <2>1, <2>2 DEF SigningInv, SnapshotIsListed
<1>10. (SBOMsAreAsMany /\ RegistryIsSound /\ ArchivesAreDescribed)'
    BY <1>1 DEF SigningInv, SBOMsAreAsMany, RegistryIsSound, ArchivesAreDescribed, VerifyingArchives
<1>11. (ManifestIsRelease /\ SignaturesAreOfManifest)'
    BY <1>1, <1>2 DEF SigningInv, ManifestIsRelease, SignaturesAreOfManifest, RegistryChecksums, SBOMChecksums
<1>12. NothingDisturbed'
    <2> SUFFICES ASSUME changes = 0 PROVE NothingDisturbed'
        BY <1>1 DEF NothingDisturbed
    <2>1. snapshot[f] = Built(f)
        BY <1>5 DEF SigningInv, SnapshotIsListed, NothingDisturbed, IsOfBuild
    <2>2. \A g \in Artifacts : disk'[g] = Built(g)
        BY <1>6, <2>1 DEF SigningInv, NothingDisturbed
    <2> QED BY <1>1, <2>2 DEF SigningInv, NothingDisturbed, IsOfBuild
<1> QED BY <1>8, <1>9, <1>10, <1>11, <1>12 DEF SigningInv

\* The inventory put back is again one a run accepts.
LEMMA PublishChecksumsKeepsSigningInv ==
    ASSUME SigningInv, PublishChecksums
    PROVE  SigningInv'
<1>1. UNCHANGED <<disk, sig, sbomSig, manifest, found, snapshot, verified, published, changes>>
    BY DEF PublishChecksums
<1>2. \/ pc = "publish" /\ pc' = "manifest" /\ sums' = sums
      \/ pc = "manifest" /\ sums' = RegistryChecksums /\ pc' = "done"
    BY DEF PublishChecksums
<1>3. /\ pc \in Signed \ {"sign sboms"} /\ pc' \in Signed \ {"sign sboms"}
      /\ pc' \notin Reading \cup VerifyingArchives
    BY <1>2 DEF Signed, Reading, VerifyingArchives
<1>4. Signed \subseteq Complete
    BY DEF Complete
<1>5. /\ DOMAIN RegistryChecksums = {g \in DOMAIN manifest : ~IsSBOM(g)}
      /\ \A f \in DOMAIN RegistryChecksums : RegistryChecksums[f] = manifest[f]
    BY DEF RegistryChecksums
<1>6. SigningTypes'
    <2>1. IsInventory(sums)'
        BY <1>2, <1>5 DEF SigningInv, SigningTypes, IsInventory
    <2> QED BY <1>1, <1>3, <1>4, <2>1 DEF SigningInv, SigningTypes, IsInventory
<1>7. SnapshotIsListed'
    BY <1>1, <1>3 DEF SigningInv, SnapshotIsListed
<1>8. (SBOMsAreAsMany /\ RegistryIsSound /\ ArchivesAreDescribed)'
    BY <1>1, <1>2, <1>3, <1>4 DEF SigningInv, SBOMsAreAsMany, RegistryIsSound, ArchivesAreDescribed, VerifyingArchives
<1>9. (ManifestIsRelease /\ SignaturesAreOfManifest)'
    BY <1>1, <1>3, <1>4 DEF SigningInv, ManifestIsRelease, SignaturesAreOfManifest, RegistryChecksums, SBOMChecksums
<1>10. NothingDisturbed'
    <2> SUFFICES ASSUME changes = 0 PROVE NothingDisturbed'
        BY <1>1 DEF NothingDisturbed
    <2>1. DOMAIN manifest = ReleaseFiles
        BY <1>3, <1>4 DEF SigningInv, ManifestIsRelease
    <2>2. IsOfBuild(sums)' /\ DOMAIN sums' \in {ReleaseFiles, {f \in ReleaseFiles : ~IsSBOM(f)}}
        BY <1>2, <1>5, <2>1 DEF SigningInv, NothingDisturbed, IsOfBuild
    <2> QED BY <1>1, <1>2, <2>2 DEF SigningInv, NothingDisturbed, IsOfBuild, VerifyingArchives
<1> QED BY <1>6, <1>7, <1>8, <1>9, <1>10 DEF SigningInv

LEMMA FailKeepsSigningInv ==
    ASSUME SigningInv, Fail
    PROVE  SigningInv'
<1>1. pc' = "failed" /\ UNCHANGED <<disk, sums, sig, sbomSig, manifest, found, snapshot, verified, published, changes>>
    BY DEF Fail, outputs
<1>2. SigningTypes' /\ SnapshotIsListed'
    BY <1>1 DEF SigningInv, SigningTypes, IsInventory, SnapshotIsListed, Reading
<1>3. (SBOMsAreAsMany /\ RegistryIsSound /\ ArchivesAreDescribed /\ ManifestIsRelease /\ SignaturesAreOfManifest)'
    BY <1>1 DEF SBOMsAreAsMany, RegistryIsSound, ArchivesAreDescribed, ManifestIsRelease, SignaturesAreOfManifest,
                VerifyingArchives, Complete, Signed
<1>4. NothingDisturbed'
    BY <1>1 DEF SigningInv, NothingDisturbed, IsOfBuild, VerifyingArchives
<1> QED BY <1>2, <1>3, <1>4 DEF SigningInv

LEMMA RerunKeepsSigningInv ==
    ASSUME SigningInv, Rerun
    PROVE  SigningInv'
<1>1. /\ pc' = "start" /\ DOMAIN manifest' = {} /\ found' = {} /\ DOMAIN snapshot' = {} /\ verified' = <<>> /\ published' = {}
      /\ UNCHANGED <<disk, sums, changes>>
    BY DEF Rerun, Nothing
<1>2. SigningTypes' /\ SnapshotIsListed'
    BY <1>1 DEF SigningInv, SigningTypes, IsInventory, SnapshotIsListed, Reading
<1>3. (SBOMsAreAsMany /\ RegistryIsSound /\ ArchivesAreDescribed /\ ManifestIsRelease /\ SignaturesAreOfManifest)'
    BY <1>1 DEF SBOMsAreAsMany, RegistryIsSound, ArchivesAreDescribed, ManifestIsRelease, SignaturesAreOfManifest,
                VerifyingArchives, Complete, Signed
<1>4. NothingDisturbed'
    BY <1>1 DEF SigningInv, NothingDisturbed, IsOfBuild, VerifyingArchives
<1> QED BY <1>2, <1>3, <1>4 DEF SigningInv

\* Others change a file: it is no longer one that was put back.
LEMMA ChangeFileKeepsSigningInv ==
    ASSUME SigningInv, NEW f \in Artifacts, ChangeFile(f)
    PROVE  SigningInv'
<1>1. /\ published' = published \ {f} /\ changes' = changes + 1
      /\ UNCHANGED <<sums, sig, sbomSig, pc, manifest, found, snapshot, verified>>
    BY DEF ChangeFile, outputs
<1>2. PICK c \in Contents(f) \cup {None} : disk' = [disk EXCEPT ![f] = c]
    BY DEF ChangeFile
<1>3. disk' = [g \in Artifacts |-> disk'[g]] /\ \A g \in Artifacts : disk'[g] = IF g = f THEN c ELSE disk[g]
    BY <1>2 DEF SigningInv, SigningTypes
<1>4. SigningTypes'
    BY <1>1, <1>3 DEF SigningInv, SigningTypes, IsInventory
<1>5. SnapshotIsListed'
    BY <1>1, <1>3 DEF SigningInv, SigningTypes, SnapshotIsListed
<1>6. (SBOMsAreAsMany /\ RegistryIsSound /\ ArchivesAreDescribed)'
    BY <1>1 DEF SigningInv, SBOMsAreAsMany, RegistryIsSound, ArchivesAreDescribed, Described
<1>7. (ManifestIsRelease /\ SignaturesAreOfManifest)'
    BY <1>1 DEF SigningInv, ManifestIsRelease, SignaturesAreOfManifest, RegistryChecksums, SBOMChecksums
<1>8. NothingDisturbed'
    BY <1>1 DEF SigningInv, SigningTypes, NothingDisturbed
<1> QED BY <1>4, <1>5, <1>6, <1>7, <1>8 DEF SigningInv

LEMMA ChangeChecksumsKeepsSigningInv ==
    ASSUME SigningInv, NEW f \in Artifacts, ChangeChecksums(f)
    PROVE  SigningInv'
<1>1. changes' = changes + 1 /\ UNCHANGED <<disk, sig, sbomSig, pc, manifest, found, snapshot, verified, published>>
    BY DEF ChangeChecksums, outputs
<1>2. IsInventory(sums)'
    <2>1. CASE sums' = [g \in DOMAIN sums \ {f} |-> sums[g]]
        BY <2>1 DEF SigningInv, SigningTypes, IsInventory
    <2>2. ASSUME NEW c \in Contents(f), sums' = With(sums, f, c) PROVE IsInventory(sums)'
        BY <2>2 DEF SigningInv, SigningTypes, IsInventory, With
    <2> QED BY <2>1, <2>2 DEF ChangeChecksums
<1>3. SigningTypes'
    <2>1. IsInventory(manifest)' /\ IsInventory(snapshot)'
        BY <1>1 DEF SigningInv, SigningTypes, IsInventory
    <2> QED BY <1>1, <1>2, <2>1 DEF SigningInv, SigningTypes
<1>4. (SnapshotIsListed /\ SBOMsAreAsMany /\ RegistryIsSound /\ ArchivesAreDescribed)'
    BY <1>1 DEF SigningInv, SnapshotIsListed, SBOMsAreAsMany, RegistryIsSound, ArchivesAreDescribed, Described
<1>5. (ManifestIsRelease /\ SignaturesAreOfManifest)'
    BY <1>1 DEF SigningInv, ManifestIsRelease, SignaturesAreOfManifest, RegistryChecksums, SBOMChecksums
<1>6. NothingDisturbed'
    BY <1>1 DEF SigningInv, SigningTypes, NothingDisturbed
<1> QED BY <1>3, <1>4, <1>5, <1>6 DEF SigningInv

LEMMA SigningStepKeepsInv == SigningInv /\ [Next]_vars => SigningInv'
<1> SUFFICES ASSUME SigningInv, [Next]_vars PROVE SigningInv'
    OBVIOUS
<1>1. CASE Verify
    <2>1. UNCHANGED <<disk, sums, sig, sbomSig, published, changes>>
        BY <1>1, VerifyFrame
    <2>2. ASSUME NEW p \in AllPlatforms, VerifyArchive(p) PROVE SigningInv'
        BY <2>1, <2>2, VerifyArchiveKeepsSigningInv
    <2>3. CASE ReadManifest \/ CompleteChecksum \/ EndCompletion \/ Discover
        BY <2>1, <2>3, ReadManifestKeepsSigningInv, CompleteChecksumKeepsSigningInv, EndCompletionKeepsSigningInv,
           DiscoverKeepsSigningInv
    <2>4. CASE VerifyRegistry \/ VerifySBOM \/ VerifyInventory
        BY <2>1, <2>4, VerifyRegistryKeepsSigningInv, VerifySBOMKeepsSigningInv, VerifyInventoryKeepsSigningInv
    <2> QED BY <1>1, <2>2, <2>3, <2>4 DEF Verify
<1>2. CASE Sign \/ PublishArtifact \/ PublishChecksums
    BY <1>2, SignKeepsSigningInv, PublishArtifactKeepsSigningInv, PublishChecksumsKeepsSigningInv
<1>3. CASE Fail \/ Rerun
    BY <1>3, FailKeepsSigningInv, RerunKeepsSigningInv
<1>4. ASSUME NEW f \in Artifacts, ChangeFile(f) \/ ChangeChecksums(f) PROVE SigningInv'
    BY <1>4, ChangeFileKeepsSigningInv, ChangeChecksumsKeepsSigningInv
<1>5. CASE UNCHANGED vars
    <2>1. UNCHANGED <<disk, sums, sig, sbomSig, pc, manifest, found, snapshot, verified, published, changes>>
        BY <1>5 DEF vars, outputs
    <2>2. SigningTypes' /\ SnapshotIsListed'
        BY <2>1 DEF SigningInv, SigningTypes, IsInventory, SnapshotIsListed
    <2>3. (SBOMsAreAsMany /\ RegistryIsSound /\ ArchivesAreDescribed)'
        BY <2>1 DEF SigningInv, SBOMsAreAsMany, RegistryIsSound, ArchivesAreDescribed, Described
    <2>4. (ManifestIsRelease /\ SignaturesAreOfManifest)'
        BY <2>1 DEF SigningInv, ManifestIsRelease, SignaturesAreOfManifest, RegistryChecksums, SBOMChecksums
    <2>5. NothingDisturbed'
        BY <2>1 DEF SigningInv, NothingDisturbed, IsOfBuild
    <2> QED BY <2>2, <2>3, <2>4, <2>5 DEF SigningInv
<1> QED BY <1>1, <1>2, <1>3, <1>4, <1>5 DEF Next

(***************************************************************************)
(* Signing: what is in the way of a signature                              *)
(***************************************************************************)

\* When no signature lay there as the run began, there is none until it signs.
SignaturesAreNew ==
    /\ leftover \in BOOLEAN
    /\ pc = "unsigned" => leftover
    /\ ~leftover /\ pc \in Reading \cup VerifyingArchives \cup {"sign"} => sig = None /\ sbomSig = None
    /\ ~leftover /\ pc = "sign sboms" => sbomSig = None

LEMMA SignaturesStayNew == SignaturesAreNew /\ [Next]_vars => SignaturesAreNew'
<1> SUFFICES ASSUME SignaturesAreNew, [Next]_vars PROVE SignaturesAreNew'
    OBVIOUS
<1> USE DEF SignaturesAreNew, Reading, VerifyingArchives
<1>1. CASE Verify
    <2>1. UNCHANGED <<sig, sbomSig, leftover>>
        BY <1>1 DEF Verify, outputs
    <2>2. CASE ReadManifest \/ CompleteChecksum \/ EndCompletion \/ Discover
        <3>1. pc \in Reading /\ pc' \in Reading \cup {"refused"}
            BY <2>2 DEF ReadManifest, CompleteChecksum, EndCompletion, Discover, Refuse
        <3> QED BY <2>1, <3>1
    <2>3. CASE VerifyRegistry \/ VerifySBOM \/ VerifyInventory \/ \E p \in AllPlatforms : VerifyArchive(p)
        <3>1. pc \in Reading \cup VerifyingArchives /\ pc' \in VerifyingArchives \cup {"sign", "refused"}
            BY <2>3 DEF VerifyRegistry, VerifySBOM, VerifyInventory, VerifyArchive, Refuse
        <3> QED BY <2>1, <3>1
    <2> QED BY <1>1, <2>2, <2>3 DEF Verify
<1>2. CASE Sign
    BY <1>2 DEF Sign, SBOMDestination
<1>3. CASE PublishArtifact \/ PublishChecksums
    BY <1>3 DEF PublishArtifact, PublishChecksums, outputs
<1>4. CASE Fail
    BY <1>4 DEF Fail, outputs
<1>5. CASE Rerun
    BY <1>5 DEF Rerun
<1>6. ASSUME NEW f \in Artifacts, ChangeFile(f) \/ ChangeChecksums(f) PROVE SignaturesAreNew'
    BY <1>6 DEF ChangeFile, ChangeChecksums, outputs
<1>7. CASE UNCHANGED vars
    BY <1>7 DEF vars, outputs
<1> QED BY <1>1, <1>2, <1>3, <1>4, <1>5, <1>6, <1>7 DEF Next

\* Signed inventories and the files put back are of the same verified release.
LEMMA InvariantMeansVerified == SigningInv => SignedIsVerified
<1> SUFFICES ASSUME SigningInv, pc \in {"publish", "manifest", "done"} PROVE SignedIsVerified
    BY DEF SignedIsVerified
<1>1. /\ pc \in Complete
      /\ sig = RegistryChecksums /\ sbomSig = SBOMChecksums
    BY DEF SigningInv, SignaturesAreOfManifest, Signed, Complete
<1>2. /\ DOMAIN manifest = ReleaseFiles /\ manifest[Registry] = "sound"
      /\ \A p \in Platforms : Describes(manifest[SBOM(p)], p, manifest[Archive(p)])
    BY <1>1 DEF SigningInv, ManifestIsRelease
<1>3. /\ DOMAIN sig = {g \in ReleaseFiles : ~IsSBOM(g)} /\ \A f \in DOMAIN sig : sig[f] = manifest[f]
      /\ DOMAIN sbomSig = {g \in ReleaseFiles : IsSBOM(g)} /\ \A f \in DOMAIN sbomSig : sbomSig[f] = manifest[f]
    BY <1>1, <1>2 DEF RegistryChecksums, SBOMChecksums
<1>4. /\ DOMAIN sig = {Archive(p) : p \in Platforms} \cup {Registry}
      /\ DOMAIN sbomSig = {SBOM(p) : p \in Platforms}
    BY <1>3, ReleaseFileKinds
<1>5. sig[Registry] = "sound"
    BY <1>2, <1>3, <1>4
<1>6. \A p \in Platforms : sbomSig[SBOM(p)].of = p /\ sbomSig[SBOM(p)].build = sig[Archive(p)]
    BY <1>2, <1>3, <1>4 DEF Describes
<1>7. \A f \in published : disk[f] = IF IsSBOM(f) THEN sbomSig[f] ELSE sig[f]
    <2> SUFFICES ASSUME NEW f \in published PROVE disk[f] = IF IsSBOM(f) THEN sbomSig[f] ELSE sig[f]
        OBVIOUS
    <2>1. f \in DOMAIN manifest /\ disk[f] = manifest[f]
        BY DEF SigningInv, SnapshotIsListed
    <2> QED BY <1>2, <1>3, <2>1
<1> QED BY <1>4, <1>5, <1>6, <1>7 DEF SignedIsVerified

(***************************************************************************)
(* Both commands                                                           *)
(***************************************************************************)

\* The command that runs keeps its invariant, and the other stays idle.
RunInv ==
    \/ command = "sign" /\ SigningInv /\ SignaturesAreNew /\ IdlePublication
    \/ command = "publish" /\ DraftInv /\ IdleSigning

LEMMA IdleStaysIdle ==
    /\ IdlePublication /\ UNCHANGED draftVars => IdlePublication'
    /\ IdleSigning /\ UNCHANGED vars => IdleSigning'
BY DEF IdlePublication, IdleSigning, draftVars, vars, outputs

THEOREM RunInvariant == RunSpec => []RunInv
<1>1. RunInit => RunInv
    <2>1. Init => SignaturesAreNew
        BY DEF Init, SignaturesAreNew
    <2> QED BY <2>1, SigningInitHolds, DraftInitHolds DEF RunInit, RunInv
<1>2. RunInv /\ [RunNext]_runVars => RunInv'
    <2> SUFFICES ASSUME RunInv, [RunNext]_runVars PROVE RunInv'
        OBVIOUS
    <2>1. command' = command
        BY DEF RunNext, RunSigning, RunPublication, runVars
    <2>2. CASE command = "sign" /\ SigningInv /\ SignaturesAreNew /\ IdlePublication
        <3>1. [Next]_vars /\ UNCHANGED draftVars
            BY <2>2 DEF RunNext, RunSigning, RunPublication, runVars
        <3> QED BY <2>1, <2>2, <3>1, SigningStepKeepsInv, SignaturesStayNew, IdleStaysIdle DEF RunInv
    <2>3. CASE command = "publish" /\ DraftInv /\ IdleSigning
        <3>1. [DraftNext]_draftVars /\ UNCHANGED vars
            BY <2>3 DEF RunNext, RunSigning, RunPublication, runVars
        <3> QED BY <2>1, <2>3, <3>1, DraftStepKeepsInv, IdleStaysIdle DEF RunInv
    <2> QED BY <2>2, <2>3 DEF RunInv
<1> QED BY <1>1, <1>2, PTL DEF RunSpec

\* run without --publish: whatever happens to the files meanwhile, the two inventories that
\* are signed describe one whole release, each archive with an SBOM of these very bytes, and
\* a file put back is the one that was signed.
THEOREM OnlyVerifiedIsSigned == RunSpec => []SignedIsVerified
<1>1. RunInv => SignedIsVerified
    BY InvariantMeansVerified DEF RunInv, IdleSigning, SignedIsVerified
<1> QED BY <1>1, RunInvariant, PTL

\* run without --publish: whatever step a run failed at, the next one refuses its files only
\* when others changed something, and is stopped at signing only by a signature left in place.
THEOREM StopsAlwaysHaveCauses == RunSpec => []StopsHaveCauses
<1>1. RunInv => StopsHaveCauses
    <2>1. SigningInv => (pc = "refused" => changes > 0)
        BY DEF SigningInv, SigningTypes, NothingDisturbed
    <2>2. SigningInv /\ SignaturesAreNew => StopsHaveCauses
        BY <2>1 DEF SignaturesAreNew, StopsHaveCauses
    <2>3. IdleSigning => StopsHaveCauses
        BY DEF IdleSigning, StopsHaveCauses
    <2> QED BY <2>2, <2>3 DEF RunInv
<1> QED BY <1>1, RunInvariant, PTL

\* publishReleaseDraft: what the verifier makes public is one signed build, complete and
\* nothing else, and its inventories list just that, whatever others signed and whatever
\* they did to the draft up to its second look.
THEOREM OnlyVerifiedIsPublished == RunSpec => []PublishedIsVerified
<1>1. RunInv => PublishedIsVerified
    BY DEF RunInv, DraftInv, IdlePublication, PublishedIsVerified
<1> QED BY <1>1, RunInvariant, PTL

\* publishReleaseDraft: a draft signed and uploaded whole that nobody touches is never refused, however many
\* platforms there are; in particular the count of its assets is right.
THEOREM SoundDraftsAlwaysPass == RunSpec => []SoundDraftsPass
<1>1. RunInv => SoundDraftsPass
    BY DEF RunInv, DraftInv, DraftTypes, LeftAlone, IdlePublication, SoundDraftsPass
<1> QED BY <1>1, RunInvariant, PTL

=============================================================================
