------------------------------ MODULE StoreProofs ------------------------------
(***************************************************************************)
(* Proofs about what is kept on disk: the artifacts, whatever puts of one  *)
(* name or one content run beside each other; the schema of the database,  *)
(* whoever opens it at the same time or dies doing it; the worktrees, with *)
(* the leases they rest on; the domain repository in the database, which   *)
(* implements the one in memory; and the list of tasks read from it page   *)
(* by page.                                                                *)
(***************************************************************************)
EXTENDS Artifacts, Migrations, Worktrees, SqliteStore, TaskPages,
        FiniteSetTheorems, SequenceTheorems, WellFoundedInduction, TLAPS

(***************************************************************************)
(* Artifacts.                                                              *)
(***************************************************************************)
PutPlaces == {"idle", "looking", "linking", "replaying", "checking", "describing", "naming", "ended"}
PutRecords == [at : PutPlaces, id : ArtifactIds \cup {"none"}, content : Contents \cup {"none"},
               created : {"stated", "unstated", "none"},
               outcome : {"none", "stored", "replayed", "conflict", "integrity error", "io error",
                          "lost"}]
ManifestRecords == [content : Contents \cup {"none"}, created : PutCalls \cup {"stated", "none"}]

PutsTyped ==
  /\ puts \in [PutCalls -> PutRecords]
  /\ \A p \in PutCalls : puts[p].at # "idle" => /\ puts[p].id \in ArtifactIds
                                                /\ puts[p].content \in Contents
  /\ \A p \in PutCalls : puts[p].at # "ended" <=> puts[p].outcome = "none"
FilesTyped ==
  /\ blobs \in [Contents -> {"none", "whole", "damaged"}]
  /\ manifests \in [ArtifactIds -> ManifestRecords]
  /\ references \subseteq ArtifactIds \X Contents
Readings == [id : ArtifactIds \cup {"none"}, content : Contents \cup {"none"},
             outcome : {"none", "open", "read", "not found", "integrity error"}]
Previews == [at : {"idle", "asking", "shown"}, todo : SUBSET ArtifactIds,
             offered : SUBSET ArtifactIds, named : SUBSET ArtifactIds]
ReadersTyped == reading \in Readings /\ preview \in Previews
ArtifactsTyped == PutsTyped /\ FilesTyped /\ ReadersTyped

\* The artifact id has the content c: no put changes that.
Names(id, c) == id \in ArtifactIds /\ Known(id) /\ manifests[id].content = c

\* A manifest is linked after its blob, and a call names what it found or linked.
ManifestsHaveBlobs ==
  /\ \A i \in ArtifactIds : Known(i) => manifests[i].content \in Contents
                                        /\ blobs[manifests[i].content] # "none"
  /\ \A p \in PutCalls : puts[p].at \in {"describing", "naming"} => blobs[puts[p].content] # "none"
NamesHold ==
  /\ \A ref \in references : Names(ref[1], ref[2])
  /\ \A p \in PutCalls : puts[p].at = "replaying" \/ puts[p].outcome \in {"stored", "replayed"} =>
                           Names(puts[p].id, puts[p].content)
  /\ reading.outcome \in {"open", "read"} => Names(reading.id, reading.content)
  /\ reading.outcome # "not found"

\* The content of a call is linked or thrown away before the call goes on.
ContentGone ==
  \A p \in PutCalls :
    \/ puts[p].at \in {"replaying", "checking", "describing", "naming"}
    \/ puts[p].at = "ended" /\ puts[p].outcome # "lost"
    => <<p, "content">> \notin temps

\* A record that names an artifact has its link.
LinksWithRecords == /\ \A ref \in references : ref[1] \in links
                    /\ preview.named \subseteq links
                    /\ preview.offered \cap preview.named = {}

ArtifactsInv == ArtifactsTyped /\ ManifestsHaveBlobs /\ NamesHold /\ ContentGone /\ LinksWithRecords

\* Every field that names an artifact is one the extraction of links looks at.
LEMMA FieldsAreLinked == ArtifactFields \subseteq LinkedFields
BY DEF ArtifactFields, LinkedFields, TaskResultFields, AgentRunFields, HandoffFields, SnapshotFields

LEMMA ArtifactsStart == ArtifactsInit => ArtifactsInv
<1> SUFFICES ASSUME ArtifactsInit PROVE ArtifactsInv
  OBVIOUS
<1> USE DEF ArtifactsInit, IdlePut, NoManifest, NoRead, NoPreview
<1>1. ArtifactsTyped
  BY DEF ArtifactsTyped, PutsTyped, FilesTyped, ReadersTyped, PutRecords, PutPlaces, ManifestRecords,
         Readings, Previews
<1>2. ManifestsHaveBlobs /\ NamesHold /\ ContentGone /\ LinksWithRecords
  BY DEF ManifestsHaveBlobs, NamesHold, ContentGone, LinksWithRecords, Known, Names
<1> QED BY <1>1, <1>2 DEF ArtifactsInv

\* What the steps of a put that write no manifest have to keep.
LEMMA PutSteps ==
  ASSUME ArtifactsInv, NEW p \in PutCalls, NEW new \in PutRecords,
         puts' = [puts EXCEPT ![p] = new],
         new.at # "idle", new.id \in ArtifactIds, new.content \in Contents,
         new.at # "ended" <=> new.outcome = "none",
         temps' \in SUBSET (temps \cup {<<p, "content">>, <<p, "manifest">>}),
         \/ new.at \in {"replaying", "checking", "describing", "naming"}
         \/ new.at = "ended" /\ new.outcome # "lost"
         => <<p, "content">> \notin temps',
         blobs' \in [Contents -> {"none", "whole", "damaged"}],
         \A c \in Contents : blobs[c] # "none" => blobs'[c] # "none",
         new.at \in {"describing", "naming"} => blobs'[new.content] # "none",
         new.at = "replaying" \/ new.outcome \in {"stored", "replayed"} => Names(new.id, new.content),
         UNCHANGED <<manifests, recordedVars, reading, preview>>
  PROVE  ArtifactsInv'
<1>a. PutsTyped /\ FilesTyped /\ ReadersTyped /\ ManifestsHaveBlobs /\ NamesHold /\ ContentGone
      /\ LinksWithRecords
  BY DEF ArtifactsInv, ArtifactsTyped
<1>b. UNCHANGED <<manifests, references, links, reading, preview>>
  BY DEF recordedVars
<1>1. \A q \in PutCalls : puts'[q] = IF q = p THEN new ELSE puts[q]
  BY <1>a DEF PutsTyped
<1>2. \A i, c : Names(i, c)' <=> Names(i, c)
  <2>1. manifests' = manifests
    BY <1>b
  <2> QED BY <2>1 DEF Names, Known
<1>3. ArtifactsTyped'
  <2>1. PutsTyped'
    BY <1>a, <1>1 DEF PutsTyped
  <2>2. FilesTyped' /\ ReadersTyped'
    BY <1>a, <1>b DEF FilesTyped, ReadersTyped
  <2> QED BY <2>1, <2>2 DEF ArtifactsTyped
<1>4. ManifestsHaveBlobs'
  <2>1. \A i \in ArtifactIds : Known(i)' => manifests'[i].content \in Contents
                                            /\ blobs'[manifests'[i].content] # "none"
    BY <1>a, <1>b DEF ManifestsHaveBlobs, Known
  <2>2. \A q \in PutCalls : puts'[q].at \in {"describing", "naming"} => blobs'[puts'[q].content] # "none"
    <3> SUFFICES ASSUME NEW q \in PutCalls, puts'[q].at \in {"describing", "naming"}
                 PROVE  blobs'[puts'[q].content] # "none"
      OBVIOUS
    <3>1. CASE q = p
      BY <1>1, <3>1
    <3>2. CASE q # p
      BY <1>a, <1>1, <3>2 DEF ManifestsHaveBlobs, PutsTyped
    <3> QED BY <3>1, <3>2
  <2> QED BY <2>1, <2>2 DEF ManifestsHaveBlobs
<1>5. NamesHold'
  <2>1. \A q \in PutCalls :
           puts'[q].at = "replaying" \/ puts'[q].outcome \in {"stored", "replayed"} =>
             Names(puts'[q].id, puts'[q].content)
    <3> SUFFICES ASSUME NEW q \in PutCalls,
                        puts'[q].at = "replaying" \/ puts'[q].outcome \in {"stored", "replayed"}
                 PROVE  Names(puts'[q].id, puts'[q].content)
      OBVIOUS
    <3>1. CASE q = p
      BY <1>1, <3>1
    <3>2. CASE q # p
      BY <1>a, <1>1, <3>2 DEF NamesHold
    <3> QED BY <3>1, <3>2
  <2>2. \A q \in PutCalls :
           (puts[q].at = "replaying" \/ puts[q].outcome \in {"stored", "replayed"} =>
              Names(puts[q].id, puts[q].content))'
    BY <1>2, <2>1
  <2>3. (\A ref \in references : Names(ref[1], ref[2]))'
    <3>1. references' = references
      BY <1>b
    <3>2. \A ref \in references : Names(ref[1], ref[2])
      BY <1>a DEF NamesHold
    <3> QED BY <1>2, <3>1, <3>2
  <2>4. (/\ reading.outcome \in {"open", "read"} => Names(reading.id, reading.content)
         /\ reading.outcome # "not found")'
    <3>1. reading' = reading
      BY <1>b
    <3>2. /\ reading.outcome \in {"open", "read"} => Names(reading.id, reading.content)
          /\ reading.outcome # "not found"
      BY <1>a DEF NamesHold
    <3> QED BY <1>2, <3>1, <3>2
  <2> QED BY <2>2, <2>3, <2>4 DEF NamesHold
<1>6. ContentGone'
  BY <1>a, <1>1 DEF ContentGone
<1>7. LinksWithRecords'
  BY <1>a, <1>b DEF LinksWithRecords
<1> QED BY <1>3, <1>4, <1>5, <1>6, <1>7 DEF ArtifactsInv

\* Reading and cleaning up change neither puts nor files.
LEMMA ReaderSteps ==
  ASSUME ArtifactsInv, UNCHANGED <<puts, temps, blobs, manifests, recordedVars>>,
         reading' \in Readings, preview' \in Previews,
         reading'.outcome \in {"open", "read"} => Names(reading'.id, reading'.content),
         reading'.outcome # "not found",
         preview'.named \subseteq links, preview'.offered \cap preview'.named = {}
  PROVE  ArtifactsInv'
<1>a. PutsTyped /\ FilesTyped /\ ReadersTyped /\ ManifestsHaveBlobs /\ NamesHold /\ ContentGone
      /\ LinksWithRecords
  BY DEF ArtifactsInv, ArtifactsTyped
<1>b. UNCHANGED <<puts, temps, blobs, manifests, references, links>>
  BY DEF recordedVars
<1>1. PutsTyped' /\ FilesTyped' /\ ReadersTyped'
  BY <1>a, <1>b DEF PutsTyped, FilesTyped, ReadersTyped
<1>2. ManifestsHaveBlobs' /\ ContentGone'
  BY <1>a, <1>b DEF ManifestsHaveBlobs, Known, ContentGone
<1>3. NamesHold'
  BY <1>a, <1>b DEF NamesHold, Names, Known
<1>4. LinksWithRecords'
  BY <1>a, <1>b DEF LinksWithRecords
<1> QED BY <1>1, <1>2, <1>3, <1>4 DEF ArtifactsInv, ArtifactsTyped

LEMMA ArtifactsInductive == ArtifactsInv /\ [ArtifactsNext]_artifactVars => ArtifactsInv'
<1> SUFFICES ASSUME ArtifactsInv, [ArtifactsNext]_artifactVars PROVE ArtifactsInv'
  OBVIOUS
<1>a. PutsTyped /\ FilesTyped /\ ReadersTyped /\ ManifestsHaveBlobs /\ NamesHold /\ ContentGone
      /\ LinksWithRecords
  BY DEF ArtifactsInv, ArtifactsTyped
<1>b. /\ \A p \in PutCalls : puts[p] \in PutRecords
      /\ \A p \in PutCalls : puts[p].at # "idle" => puts[p].id \in ArtifactIds /\ puts[p].content \in Contents
      /\ \A p \in PutCalls : puts[p].at # "ended" => puts[p].outcome = "none"
  BY <1>a DEF PutsTyped
<1>c. blobs \in [Contents -> {"none", "whole", "damaged"}]
  BY <1>a DEF FilesTyped
<1>1. CASE UNCHANGED artifactVars
  <2>1. UNCHANGED <<puts, temps, blobs, manifests, references, links, reading, preview>>
    BY <1>1 DEF artifactVars, recordedVars
  <2>2. ArtifactsTyped' /\ ManifestsHaveBlobs' /\ ContentGone'
    BY <1>a, <2>1 DEF ArtifactsTyped, PutsTyped, FilesTyped, ReadersTyped, ManifestsHaveBlobs, Known,
       ContentGone
  <2>3. NamesHold' /\ LinksWithRecords'
    BY <1>a, <2>1 DEF NamesHold, Names, Known, LinksWithRecords
  <2> QED BY <2>2, <2>3 DEF ArtifactsInv
<1>2. ASSUME NEW p \in PutCalls, NEW id \in ArtifactIds, NEW c \in Contents,
             NEW created \in {"stated", "unstated"}, Put(p, id, c, created)
      PROVE  ArtifactsInv'
  <2> DEFINE new == [at |-> "looking", id |-> id, content |-> c, created |-> created, outcome |-> "none"]
  <2>1. /\ new \in PutRecords /\ new.at = "looking" /\ new.id = id /\ new.content = c
        /\ new.outcome = "none"
    BY DEF PutRecords, PutPlaces
  <2>2. /\ puts' = [puts EXCEPT ![p] = new] /\ temps' = temps \cup {<<p, "content">>}
        /\ UNCHANGED <<blobs, manifests, recordedVars, reading, preview>>
    BY <1>2 DEF Put
  <2> HIDE DEF new
  <2> QED BY <1>c, <2>1, <2>2, PutSteps
\* The other steps of a put write where it is and how it ended.
<1>3. ASSUME NEW p \in PutCalls, puts[p].at \notin {"idle", "ended"},
             NEW place \in PutPlaces \ {"idle", "ended"},
             puts' = [puts EXCEPT ![p].at = place],
             temps' \in SUBSET (temps \cup {<<p, "manifest">>}),
             place \in {"replaying", "checking", "describing", "naming"} => <<p, "content">> \notin temps',
             blobs' \in [Contents -> {"none", "whole", "damaged"}],
             \A c \in Contents : blobs[c] # "none" => blobs'[c] # "none",
             place \in {"describing", "naming"} => blobs'[puts[p].content] # "none",
             place = "replaying" => Names(puts[p].id, puts[p].content),
             UNCHANGED <<manifests, recordedVars, reading, preview>>
      PROVE  ArtifactsInv'
  <2> DEFINE new == [puts[p] EXCEPT !.at = place]
  <2>1. new \in PutRecords /\ new.at = place /\ new.id = puts[p].id /\ new.content = puts[p].content
        /\ new.outcome = "none"
    BY <1>b, <1>3 DEF PutRecords
  <2>2. puts' = [puts EXCEPT ![p] = new]
    BY <1>a, <1>3 DEF PutsTyped
  <2>3. puts[p].id \in ArtifactIds /\ puts[p].content \in Contents
    BY <1>b, <1>3
  <2>4. temps' \in SUBSET (temps \cup {<<p, "content">>, <<p, "manifest">>})
    BY <1>3
  <2>5. /\ new.at \notin {"idle", "ended"}
        /\ new.at \in {"replaying", "checking", "describing", "naming"} => <<p, "content">> \notin temps'
        /\ new.at \in {"describing", "naming"} => blobs'[new.content] # "none"
        /\ new.at = "replaying" => Names(new.id, new.content)
    BY <1>3, <2>1
  <2>6. /\ blobs' \in [Contents -> {"none", "whole", "damaged"}]
        /\ \A c \in Contents : blobs[c] # "none" => blobs'[c] # "none"
        /\ UNCHANGED <<manifests, recordedVars, reading, preview>>
    BY <1>3
  <2> HIDE DEF new
  <2> QED BY <2>1, <2>2, <2>3, <2>4, <2>5, <2>6, PutSteps
<1>4. ASSUME NEW p \in PutCalls, puts[p].at # "idle",
             NEW outcome \in {"stored", "replayed", "conflict", "integrity error", "io error"},
             puts' = [puts EXCEPT ![p].at = "ended", ![p].outcome = outcome],
             temps' \in SUBSET (temps \cup {<<p, "manifest">>}), <<p, "content">> \notin temps',
             outcome \in {"stored", "replayed"} => Names(puts[p].id, puts[p].content),
             UNCHANGED <<blobs, manifests, recordedVars, reading, preview>>
      PROVE  ArtifactsInv'
  <2> DEFINE new == [puts[p] EXCEPT !.at = "ended", !.outcome = outcome]
  <2>1. new \in PutRecords /\ new.at = "ended" /\ new.id = puts[p].id /\ new.content = puts[p].content
        /\ new.outcome = outcome /\ outcome \notin {"none", "lost"}
    BY <1>b, <1>4 DEF PutRecords, PutPlaces
  <2>2. puts' = [puts EXCEPT ![p] = new]
    BY <1>a, <1>4 DEF PutsTyped
  <2>3. puts[p].id \in ArtifactIds /\ puts[p].content \in Contents
    BY <1>b, <1>4
  <2>4. blobs' = blobs
    BY <1>4
  <2>5. temps' \in SUBSET (temps \cup {<<p, "content">>, <<p, "manifest">>}) /\ <<p, "content">> \notin temps'
    BY <1>4
  <2>6. new.outcome \in {"stored", "replayed"} => Names(new.id, new.content)
    BY <1>4, <2>1
  <2>7. UNCHANGED <<manifests, recordedVars, reading, preview>>
    BY <1>4
  <2> HIDE DEF new
  <2> QED BY <1>c, <2>1, <2>2, <2>3, <2>4, <2>5, <2>6, <2>7, PutSteps
<1>5. ASSUME NEW p \in PutCalls, LookNothing(p) PROVE ArtifactsInv'
  BY <1>3, <1>5, <1>c DEF LookNothing, PutAt, PutGoes, PutPlaces
<1>6. ASSUME NEW p \in PutCalls, WriteManifest(p) PROVE ArtifactsInv'
  <2>1. /\ puts' = [puts EXCEPT ![p].at = "naming"] /\ temps' = temps \cup {<<p, "manifest">>}
        /\ puts[p].at = "describing" /\ blobs' = blobs
        /\ UNCHANGED <<manifests, recordedVars, reading, preview>>
    BY <1>6 DEF WriteManifest, PutAt, PutGoes
  <2>2. <<p, "content">> \notin temps' /\ blobs[puts[p].content] # "none"
    BY <1>a, <2>1 DEF ContentGone, ManifestsHaveBlobs
  <2> QED BY <1>3, <1>c, <2>1, <2>2 DEF PutPlaces
<1>7. ASSUME NEW p \in PutCalls, LinkBlob(p) PROVE ArtifactsInv'
  <2>1. blobs' \in [Contents -> {"none", "whole", "damaged"}]
        /\ \A c \in Contents : blobs[c] # "none" => blobs'[c] # "none"
    BY <1>c, <1>7 DEF LinkBlob
  <2>2. /\ puts' = [puts EXCEPT ![p].at = "checking"] /\ temps' = temps \ {<<p, "content">>}
        /\ puts[p].at = "linking"
        /\ UNCHANGED <<manifests, recordedVars, reading, preview>>
    BY <1>7 DEF LinkBlob, PutAt, PutGoes, RemovesTemp
  <2> QED BY <1>3, <2>1, <2>2 DEF PutPlaces
<1>8. ASSUME NEW p \in PutCalls, LookFound(p) PROVE ArtifactsInv'
  <2>1. /\ puts[p].at = "looking" /\ Known(puts[p].id)
        /\ temps' = temps \ {<<p, "content">>} /\ blobs' = blobs
        /\ UNCHANGED <<manifests, recordedVars, reading, preview>>
    BY <1>8 DEF LookFound, PutAt, RemovesTemp
  <2>2. CASE Same(p)
    <3>1. puts' = [puts EXCEPT ![p].at = "replaying"]
      BY <1>8, <2>2 DEF LookFound, PutGoes
    <3>2. puts[p].id \in ArtifactIds
      BY <1>b, <2>1
    <3>3. Names(puts[p].id, puts[p].content)
      BY <2>1, <2>2, <3>2 DEF Same, Names
    <3> QED BY <1>3, <1>c, <2>1, <3>1, <3>3 DEF PutPlaces
  <2>3. CASE ~Same(p)
    <3>1. puts' = [puts EXCEPT ![p].at = "ended", ![p].outcome = "conflict"]
      BY <1>8, <2>3 DEF LookFound, PutEnds
    <3> QED BY <1>4, <2>1, <3>1
  <2> QED BY <2>2, <2>3
<1>9. ASSUME NEW p \in PutCalls, Replays(p) PROVE ArtifactsInv'
  <2> DEFINE outcome == IF blobs[puts[p].content] = "whole" THEN "replayed" ELSE "integrity error"
  <2>1. /\ puts[p].at = "replaying" /\ temps' = temps
        /\ puts' = [puts EXCEPT ![p].at = "ended", ![p].outcome = outcome]
        /\ UNCHANGED <<blobs, manifests, recordedVars, reading, preview>>
        /\ outcome \in {"replayed", "integrity error"}
    BY <1>9 DEF Replays, PutAt, PutEnds
  <2>2. <<p, "content">> \notin temps /\ Names(puts[p].id, puts[p].content)
    BY <1>a, <2>1 DEF ContentGone, NamesHold
  <2> HIDE DEF outcome
  <2> QED BY <1>4, <2>1, <2>2
<1>10. ASSUME NEW p \in PutCalls, CheckBlob(p) PROVE ArtifactsInv'
  <2>1. /\ puts[p].at = "checking" /\ temps' = temps
        /\ UNCHANGED <<blobs, manifests, recordedVars, reading, preview>>
    BY <1>10 DEF CheckBlob, PutAt
  <2>2. <<p, "content">> \notin temps
    BY <1>a, <2>1 DEF ContentGone
  <2>3. CASE blobs[puts[p].content] = "whole"
    <3>1. puts' = [puts EXCEPT ![p].at = "describing"]
      BY <1>10, <2>3 DEF CheckBlob, PutGoes
    <3> QED BY <1>3, <1>c, <2>1, <2>2, <2>3, <3>1 DEF PutPlaces
  <2>4. CASE blobs[puts[p].content] # "whole"
    <3>1. puts' = [puts EXCEPT ![p].at = "ended", ![p].outcome = "integrity error"]
      BY <1>10, <2>4 DEF CheckBlob, PutEnds
    <3> QED BY <1>4, <2>1, <2>2, <3>1
  <2> QED BY <2>3, <2>4
<1>11. ASSUME NEW p \in PutCalls, PutFails(p) PROVE ArtifactsInv'
  <2>1. /\ puts[p].at \notin {"idle", "ended"}
        /\ puts' = [puts EXCEPT ![p].at = "ended", ![p].outcome = "io error"]
        /\ UNCHANGED <<blobs, manifests, recordedVars, reading, preview>>
    BY <1>11 DEF PutFails, Putting, PutEnds
  <2>2. <<p, "content">> \notin temps' /\ temps' \in SUBSET (temps \cup {<<p, "manifest">>})
    <3>1. CASE temps' = temps \ {<<p, "content">>}
      BY <3>1
    <3>2. CASE puts[p].at \in {"describing", "naming"}
               /\ temps' \in SUBSET (temps \cup {<<p, "manifest">>})
      BY <1>a, <3>2 DEF ContentGone
    <3> QED BY <1>11, <3>1, <3>2 DEF PutFails, PutAt, RemovesTemp
  <2> QED BY <1>4, <2>1, <2>2
<1>12. ASSUME NEW p \in PutCalls, LinkManifest(p) PROVE ArtifactsInv'
  <2> DEFINE id == puts[p].id
             outcome == IF ~Known(id) \/ manifests[id] = MayLink(p) THEN "stored" ELSE "conflict"
             new == [puts[p] EXCEPT !.at = "ended", !.outcome = outcome]
  <2>1. /\ puts[p].at = "naming" /\ temps' = temps \ {<<p, "manifest">>}
        /\ manifests' = IF Known(id) THEN manifests ELSE [manifests EXCEPT ![id] = MayLink(p)]
        /\ puts' = [puts EXCEPT ![p].at = "ended", ![p].outcome = outcome]
        /\ UNCHANGED <<blobs, references, links, reading, preview>>
    BY <1>12 DEF LinkManifest, PutAt, RemovesTemp, PutEnds, recordedVars
  <2>2. id \in ArtifactIds /\ puts[p].content \in Contents /\ blobs[puts[p].content] # "none"
        /\ <<p, "content">> \notin temps
    BY <1>a, <1>b, <2>1 DEF ManifestsHaveBlobs, ContentGone
  <2>3. MayLink(p) \in ManifestRecords /\ MayLink(p).content = puts[p].content /\ MayLink(p) # NoManifest
    BY <2>2, ArtifactsAssumption DEF MayLink, ManifestRecords, NoManifest
  <2>4. /\ manifests' \in [ArtifactIds -> ManifestRecords]
        /\ \A i \in ArtifactIds : manifests'[i] = IF i = id /\ ~Known(i) THEN MayLink(p) ELSE manifests[i]
    BY <1>a, <2>1, <2>2, <2>3 DEF FilesTyped
  <2>5. \A i, c : Names(i, c) => i \in ArtifactIds /\ manifests'[i] # NoManifest /\ manifests'[i].content = c
    BY <2>4 DEF Names, Known
  <2>6. outcome = "stored" => manifests'[id] # NoManifest /\ manifests'[id].content = puts[p].content
    <3>1. CASE Known(id)
      BY <2>2, <2>3, <2>4, <3>1 DEF Known
    <3>2. CASE ~Known(id)
      BY <2>2, <2>3, <2>4, <3>2
    <3> QED BY <3>1, <3>2
  <2>7. new \in PutRecords /\ new.at = "ended" /\ new.id = id /\ new.content = puts[p].content
        /\ new.outcome = outcome /\ outcome \in {"stored", "conflict"}
    BY <1>b DEF PutRecords, PutPlaces
  <2>8. puts' \in [PutCalls -> PutRecords] /\ \A q \in PutCalls : puts'[q] = IF q = p THEN new ELSE puts[q]
    BY <1>a, <2>1, <2>7 DEF PutsTyped
  <2> HIDE DEF new, outcome
  <2>9. PutsTyped'
    BY <1>a, <2>2, <2>7, <2>8 DEF PutsTyped
  <2>10. FilesTyped' /\ ReadersTyped'
    BY <1>a, <2>1, <2>4 DEF FilesTyped, ReadersTyped
  <2>11. ManifestsHaveBlobs'
    <3>1. \A i \in ArtifactIds : manifests'[i] # NoManifest =>
            manifests'[i].content \in Contents /\ blobs[manifests'[i].content] # "none"
      BY <1>a, <2>2, <2>3, <2>4 DEF ManifestsHaveBlobs, Known
    <3>2. \A q \in PutCalls : puts'[q].at \in {"describing", "naming"} => blobs[puts'[q].content] # "none"
      BY <1>a, <2>7, <2>8 DEF ManifestsHaveBlobs
    <3> QED BY <2>1, <3>1, <3>2 DEF ManifestsHaveBlobs, Known
  <2>12. NamesHold'
    <3>1. \A q \in PutCalls : puts'[q].at = "replaying" \/ puts'[q].outcome \in {"stored", "replayed"} =>
            /\ puts'[q].id \in ArtifactIds /\ manifests'[puts'[q].id] # NoManifest
            /\ manifests'[puts'[q].id].content = puts'[q].content
      <4> SUFFICES ASSUME NEW q \in PutCalls,
                          puts'[q].at = "replaying" \/ puts'[q].outcome \in {"stored", "replayed"}
                   PROVE  /\ puts'[q].id \in ArtifactIds /\ manifests'[puts'[q].id] # NoManifest
                          /\ manifests'[puts'[q].id].content = puts'[q].content
        OBVIOUS
      <4>1. CASE q = p
        BY <2>2, <2>6, <2>7, <2>8, <4>1
      <4>2. CASE q # p
        <5>1. puts'[q] = puts[q]
          BY <2>8, <4>2
        <5>2. Names(puts[q].id, puts[q].content)
          BY <1>a, <5>1 DEF NamesHold
        <5> QED BY <2>5, <5>1, <5>2
      <4> QED BY <4>1, <4>2
    <3>2. \A ref \in references : /\ ref[1] \in ArtifactIds /\ manifests'[ref[1]] # NoManifest
                                  /\ manifests'[ref[1]].content = ref[2]
      BY <1>a, <2>5 DEF NamesHold
    <3>3. reading.outcome # "not found" /\ (reading.outcome \in {"open", "read"} =>
            /\ reading.id \in ArtifactIds /\ manifests'[reading.id] # NoManifest
            /\ manifests'[reading.id].content = reading.content)
      BY <1>a, <2>5 DEF NamesHold
    <3> QED BY <2>1, <3>1, <3>2, <3>3 DEF NamesHold, Names, Known
  <2>13. ContentGone' /\ LinksWithRecords'
    BY <1>a, <2>1, <2>2, <2>8 DEF ContentGone, LinksWithRecords
  <2> QED BY <2>9, <2>10, <2>11, <2>12, <2>13 DEF ArtifactsInv, ArtifactsTyped
<1>13. CASE RepositoryDies
  <2>1. /\ reading' = NoRead /\ preview' = NoPreview /\ temps' \subseteq temps
        /\ UNCHANGED <<blobs, manifests, references, links>>
    BY <1>13 DEF RepositoryDies, recordedVars
  <2>2. puts' = [p \in PutCalls |-> IF Putting(p) THEN [puts[p] EXCEPT !.at = "ended", !.outcome = "lost"]
                                    ELSE puts[p]]
    BY <1>13 DEF RepositoryDies
  <2>3. \A p \in PutCalls : \/ puts'[p] = puts[p] /\ puts[p].at \in {"idle", "ended"}
                            \/ /\ puts'[p] \in PutRecords
                               /\ puts'[p].at = "ended" /\ puts'[p].outcome = "lost"
                               /\ puts'[p].id = puts[p].id /\ puts'[p].content = puts[p].content
                               /\ puts[p].at # "idle"
    <3> SUFFICES ASSUME NEW p \in PutCalls, Putting(p)
                 PROVE  /\ puts'[p] \in PutRecords
                        /\ puts'[p].at = "ended" /\ puts'[p].outcome = "lost"
                        /\ puts'[p].id = puts[p].id /\ puts'[p].content = puts[p].content
                        /\ puts[p].at # "idle"
      BY <2>2 DEF Putting
    <3>1. puts'[p] = [puts[p] EXCEPT !.at = "ended", !.outcome = "lost"]
      BY <2>2
    <3>2. puts[p] \in PutRecords /\ puts[p].at # "idle"
      BY <1>b DEF Putting
    <3> QED BY <3>1, <3>2 DEF PutRecords, PutPlaces
  <2>4. PutsTyped'
    <3>1. DOMAIN puts' = PutCalls /\ puts' = [p \in PutCalls |-> puts'[p]]
      BY <2>2
    <3> QED BY <1>a, <2>3, <3>1 DEF PutsTyped
  <2>5. FilesTyped' /\ ReadersTyped'
    BY <1>a, <2>1 DEF FilesTyped, ReadersTyped, NoRead, NoPreview, Readings, Previews
  <2>6. ManifestsHaveBlobs'
    BY <1>a, <2>1, <2>3 DEF ManifestsHaveBlobs, Known
  <2>7. NamesHold'
    BY <1>a, <2>1, <2>3 DEF NamesHold, Names, Known, NoRead
  <2>8. ContentGone' /\ LinksWithRecords'
    BY <1>a, <2>1, <2>3 DEF ContentGone, LinksWithRecords, NoPreview
  <2> QED BY <2>4, <2>5, <2>6, <2>7, <2>8 DEF ArtifactsInv, ArtifactsTyped
<1>14. ASSUME NEW c \in Contents, Damage(c) PROVE ArtifactsInv'
  <2>1. /\ blobs' \in [Contents -> {"none", "whole", "damaged"}]
        /\ \A d \in Contents : blobs[d] # "none" => blobs'[d] # "none"
        /\ UNCHANGED <<puts, temps, manifests, references, links, reading, preview>>
    BY <1>c, <1>14 DEF Damage, recordedVars
  <2>2. ArtifactsTyped' /\ ContentGone' /\ LinksWithRecords'
    BY <1>a, <2>1 DEF ArtifactsTyped, PutsTyped, FilesTyped, ReadersTyped, ContentGone, LinksWithRecords
  <2>3. ManifestsHaveBlobs'
    BY <1>a, <1>b, <2>1 DEF ManifestsHaveBlobs, Known
  <2>4. NamesHold'
    BY <1>a, <2>1 DEF NamesHold, Names, Known
  <2> QED BY <2>2, <2>3, <2>4 DEF ArtifactsInv
<1>15. ASSUME NEW id, NEW c \in Contents, NEW field \in ArtifactFields, Names(id, c),
              CommitReference(id, c, field)
       PROVE  ArtifactsInv'
  <2>1. /\ references' = references \cup {<<id, c>>} /\ links' = links \cup {id} /\ id \in ArtifactIds
        /\ UNCHANGED <<puts, temps, blobs, manifests, reading, preview>>
    BY <1>15, FieldsAreLinked DEF CommitReference, Names
  <2>2. \A ref \in references' : \/ ref \in references
                                 \/ ref = <<id, c>> /\ ref[1] = id /\ ref[2] = c
    BY <2>1
  <2>3. ArtifactsTyped'
    <3>1. references' \subseteq ArtifactIds \X Contents
      BY <1>a, <2>1 DEF FilesTyped
    <3> QED BY <1>a, <2>1, <3>1 DEF ArtifactsTyped, PutsTyped, FilesTyped, ReadersTyped
  <2>4. ManifestsHaveBlobs' /\ ContentGone'
    BY <1>a, <2>1 DEF ManifestsHaveBlobs, Known, ContentGone
  <2>5. NamesHold'
    BY <1>a, <1>15, <2>1, <2>2 DEF NamesHold, Names, Known
  <2>6. LinksWithRecords'
    BY <1>a, <2>1, <2>2 DEF LinksWithRecords
  <2> QED BY <2>3, <2>4, <2>5, <2>6 DEF ArtifactsInv
<1>16. ASSUME NEW p \in PutCalls, NEW field \in ArtifactFields, ReferStored(p, field) PROVE ArtifactsInv'
  <2>1. Names(puts[p].id, puts[p].content) /\ puts[p].at # "idle"
    BY <1>a, <1>16 DEF ReferStored, NamesHold, PutsTyped
  <2>2. puts[p].content \in Contents
    BY <1>b, <2>1
  <2> QED BY <1>15, <1>16, <2>1, <2>2 DEF ReferStored
<1>17. ASSUME NEW id \in ArtifactIds, NEW field \in ArtifactFields, ReferExisting(id, field)
       PROVE  ArtifactsInv'
  <2>1. Names(id, manifests[id].content) /\ manifests[id].content \in Contents
    BY <1>a, <1>17 DEF ReferExisting, Names, ManifestsHaveBlobs
  <2> QED BY <1>15, <1>17, <2>1 DEF ReferExisting
<1>18. ASSUME NEW id \in ArtifactIds, NEW c \in Contents, ReadArtifact(id, c) PROVE ArtifactsInv'
  <2>1. Names(id, c) /\ blobs[manifests[id].content] # "none"
    BY <1>a, <1>18 DEF ReadArtifact, NamesHold, ManifestsHaveBlobs, Names
  <2>2. reading' = [id |-> id, content |-> c, outcome |-> "open"]
        /\ UNCHANGED <<puts, temps, blobs, manifests, recordedVars, preview>>
    BY <1>18, <2>1 DEF ReadArtifact, Names
  <2>3. reading' \in Readings /\ reading'.id = id /\ reading'.content = c /\ reading'.outcome = "open"
    BY <2>2 DEF Readings
  <2> QED BY <1>a, <2>1, <2>2, <2>3, ReaderSteps DEF ReadersTyped, LinksWithRecords
<1>19. CASE ReadVerified
  <2> DEFINE outcome == IF blobs[manifests[reading.id].content] = "whole" THEN "read" ELSE "integrity error"
  <2>1. /\ reading.outcome = "open" /\ reading' = [reading EXCEPT !.outcome = outcome]
        /\ outcome \in {"read", "integrity error"}
        /\ UNCHANGED <<puts, temps, blobs, manifests, recordedVars, preview>>
    BY <1>19 DEF ReadVerified
  <2> HIDE DEF outcome
  <2>2. /\ reading' \in Readings /\ reading'.id = reading.id /\ reading'.content = reading.content
        /\ reading'.outcome = outcome
    BY <1>a, <2>1 DEF ReadersTyped, Readings
  <2>3. Names(reading.id, reading.content)
    BY <1>a, <2>1 DEF NamesHold
  <2> QED BY <1>a, <2>1, <2>2, <2>3, ReaderSteps DEF ReadersTyped, LinksWithRecords
<1>20. ASSUME NEW kept \in SUBSET ArtifactIds, BeginPreview(kept) PROVE ArtifactsInv'
  <2> DEFINE named == {ref[1] : ref \in references}
             todo == {i \in ArtifactIds : Known(i)} \ kept
  <2>1. /\ preview' = [at |-> "asking", todo |-> todo, offered |-> {}, named |-> named]
        /\ UNCHANGED <<puts, temps, blobs, manifests, recordedVars, reading>>
    BY <1>20 DEF BeginPreview
  <2>2. named \subseteq ArtifactIds /\ named \subseteq links /\ todo \subseteq ArtifactIds
    BY <1>a DEF FilesTyped, LinksWithRecords
  <2> HIDE DEF named, todo
  <2>3. preview' \in Previews /\ preview'.named = named /\ preview'.offered = {}
    BY <2>1, <2>2 DEF Previews
  <2> QED BY <1>a, <2>1, <2>2, <2>3, ReaderSteps DEF ReadersTyped, NamesHold
<1>21. ASSUME NEW id \in ArtifactIds, AskForLinks(id) PROVE ArtifactsInv'
  <2> DEFINE offered == IF id \in links THEN preview.offered ELSE preview.offered \cup {id}
             place == IF preview.todo = {id} THEN "shown" ELSE "asking"
  <2>1. /\ preview' = [preview EXCEPT !.todo = @ \ {id}, !.offered = offered, !.at = place]
        /\ UNCHANGED <<puts, temps, blobs, manifests, recordedVars, reading>>
        /\ place \in {"shown", "asking"} /\ offered \subseteq preview.offered \cup ({id} \ links)
    BY <1>21 DEF AskForLinks
  <2> HIDE DEF offered, place
  <2>2. /\ preview' = [at |-> place, todo |-> preview.todo \ {id}, offered |-> offered,
                       named |-> preview.named]
        /\ preview.todo \subseteq ArtifactIds /\ preview.offered \subseteq ArtifactIds
        /\ preview.named \subseteq ArtifactIds
    BY <1>a, <2>1 DEF ReadersTyped, Previews
  <2>3. preview' \in Previews /\ preview'.named = preview.named /\ preview'.offered = offered
    BY <2>1, <2>2 DEF Previews
  <2>4. preview.named \subseteq links /\ offered \cap preview.named = {}
    BY <1>a, <2>1 DEF LinksWithRecords
  <2> QED BY <1>a, <2>1, <2>3, <2>4, ReaderSteps DEF ReadersTyped, NamesHold
<1> QED
  BY <1>1, <1>2, <1>5, <1>6, <1>7, <1>8, <1>9, <1>10, <1>11, <1>12, <1>13, <1>14, <1>16, <1>17,
     <1>18, <1>19, <1>20, <1>21 DEF ArtifactsNext

\* What a record refers to can be read as it was put, whatever puts of the same name or
\* content run beside it, fail or die; and a clean-up never offers what a record named
\* when it was asked for (local-artifact-repository.ts put, read, previewArtifactCleanup).
THEOREM WhatIsNamedIsKept == ArtifactsSpec => []ArtifactsAreKept
<1>1. ArtifactsInv => ArtifactsAreKept
  BY DEF ArtifactsInv, ManifestsHaveBlobs, NamesHold, ContentGone, LinksWithRecords, Names, PutAt,
     ArtifactsAreKept
<1> QED BY ArtifactsStart, ArtifactsInductive, <1>1, PTL DEF ArtifactsSpec

(***************************************************************************)
(* The schema.  A file is ours, was made by someone else, or is of a newer *)
(* version; only a file that is ours is ever migrated.                     *)
(***************************************************************************)
OurSchemas == {SchemaAt(v) : v \in 0..3}
Schemas == OurSchemas \cup {Foreign(SchemaAt(v)) : v \in Versions} \cup {[SchemaAt(3) EXCEPT !.version = 4]}
OpenerPlaces == {"off", "checking", "waiting", "in transaction", "written", "open", "MIGRATION_FAILED",
                 "MIGRATION_VERSION_UNSUPPORTED"}
OpenerRecords == [at : OpenerPlaces, read : 0..4, does : SUBSET Versions, draft : Schemas]

MigrationsTyped == /\ schema \in Schemas
                   /\ opener \in [Openers -> OpenerRecords]
                   /\ openDeaths \subseteq Openers

\* Who migrates has found a file that is ours, and a version it still has.
Migrates(p) == opener[p].at \in {"waiting", "in transaction", "written"}
ReadsHold ==
  \A p \in Openers :
    /\ opener[p].at = "checking" => /\ opener[p].read <= schema.version /\ schema.version <= 3
                                    /\ opener[p].read = 0 => schema \in OurSchemas
    /\ Migrates(p) => /\ opener[p].read <= schema.version /\ opener[p].read < 3
                      /\ schema \in OurSchemas
    /\ opener[p].at = "open" => schema = SchemaAt(3)

\* One writer at a time, which sees what is committed and has written whole versions.
WritesAlone == /\ \A p, q \in OpenerWrites : p = q
               /\ \A p \in Openers : opener[p].at = "in transaction" =>
                    opener[p].draft = schema /\ opener[p].does = NextOf(p)
               /\ \A p \in Openers : opener[p].at = "written" =>
                    /\ opener[p].draft \in OurSchemas
                    /\ schema.version < opener[p].draft.version

\* Another process has been there.
Company(p) == \E q \in Openers \ {p} : opener[q].at # "off" \/ q \in openDeaths
FailuresHaveCompany ==
  \A p \in Openers :
    /\ opener[p].at = "checking" \/ Migrates(p) => opener[p].read = schema.version \/ Company(p)
    /\ opener[p].at = "MIGRATION_FAILED" =>
         (\E n \in Versions : schema.row[n] = "other") \/ Company(p)

MigrationsInv == MigrationsTyped /\ ReadsHold /\ WritesAlone /\ FailuresHaveCompany

\* What the schemas of the three kinds look like.
LEMMA SchemaParts ==
  /\ \A v \in 0..3 : /\ SchemaAt(v).version = v /\ SchemaAt(v).tables = 1..v
                     /\ \A n \in Versions : SchemaAt(v).row[n] = IF n <= v THEN "ours" ELSE "none"
  /\ \A v \in Versions : /\ Foreign(SchemaAt(v)).version = v /\ Foreign(SchemaAt(v)).tables = 1..v
                         /\ Foreign(SchemaAt(v)).row[1] = "other"
                         /\ \A n \in Versions \ {1} : Foreign(SchemaAt(v)).row[n] = SchemaAt(v).row[n]
  /\ \A s \in Schemas : s.version = 4 => \A n \in Versions : s.row[n] = "ours"
<1>1. \A v \in 0..3 : /\ SchemaAt(v).version = v /\ SchemaAt(v).tables = 1..v
                     /\ SchemaAt(v).row = [n \in Versions |-> IF n <= v THEN "ours" ELSE "none"]
  BY DEF SchemaAt
<1>2. \A v \in Versions : /\ Foreign(SchemaAt(v)).version = SchemaAt(v).version
                         /\ Foreign(SchemaAt(v)).tables = SchemaAt(v).tables
                         /\ Foreign(SchemaAt(v)).row = [SchemaAt(v).row EXCEPT ![1] = "other"]
  BY DEF SchemaAt, Foreign
<1>3. [SchemaAt(3) EXCEPT !.version = 4].row = SchemaAt(3).row
  BY DEF SchemaAt
<1>4. Versions = 1..3
  BY DEF Versions, SQLITE_SCHEMA_VERSION
<1>5. \A v \in Versions : v \in 0..3
  BY <1>4
<1>6. \A s \in Schemas : s.version = 4 => \A n \in Versions : s.row[n] = "ours"
  <2> SUFFICES ASSUME NEW s \in Schemas, s.version = 4, NEW n \in Versions PROVE s.row[n] = "ours"
    OBVIOUS
  <2>1. s = [SchemaAt(3) EXCEPT !.version = 4]
    BY <1>1, <1>2, <1>4, <1>5 DEF Schemas, OurSchemas
  <2> QED BY <1>1, <1>3, <1>4, <2>1
<1> QED BY <1>1, <1>2, <1>4, <1>5, <1>6

LEMMA SchemasKnown ==
  ASSUME NEW s \in Schemas
  PROVE  /\ s.version \in 0..4
         /\ s \in OurSchemas => s.version \in 0..3 /\ s = SchemaAt(s.version)
         /\ s \notin OurSchemas /\ s.version # 4 => s.version \in Versions /\ s = Foreign(SchemaAt(s.version))
         /\ s.version = 4 => \A n \in Versions : s.row[n] = "ours"
<1>1. CASE s \in OurSchemas
  BY <1>1, SchemaParts DEF OurSchemas
<1>2. CASE \E v \in Versions : s = Foreign(SchemaAt(v))
  BY <1>2, SchemaParts DEF Versions, SQLITE_SCHEMA_VERSION, OurSchemas
<1>3. CASE s = [SchemaAt(3) EXCEPT !.version = 4]
  BY <1>3, SchemaParts DEF SchemaAt, OurSchemas
<1> QED BY <1>1, <1>2, <1>3 DEF Schemas

LEMMA MigrationsStart == MigrationsInit => MigrationsInv
<1> SUFFICES ASSUME MigrationsInit PROVE MigrationsInv
  OBVIOUS
<1>1. schema \in Schemas
  BY DEF MigrationsInit, Schemas, OurSchemas
<1>2. SchemaAt(0) \in Schemas
  BY DEF Schemas, OurSchemas
<1>3. \A p \in Openers : opener[p].at = "off"
  BY DEF MigrationsInit, IdleOpener
<1>4. MigrationsTyped
  BY <1>1, <1>2 DEF MigrationsInit, MigrationsTyped, IdleOpener, OpenerRecords, OpenerPlaces
<1>5. ReadsHold /\ WritesAlone /\ FailuresHaveCompany
  BY <1>3 DEF ReadsHold, WritesAlone, FailuresHaveCompany, Migrates, OpenerWrites
<1> QED BY <1>4, <1>5 DEF MigrationsInv

\* What a step of one process that commits nothing has to keep.
LEMMA OpenerSteps ==
  ASSUME MigrationsInv, NEW p \in Openers, NEW new \in OpenerRecords,
         opener' = [opener EXCEPT ![p] = new], schema' = schema,
         openDeaths \subseteq openDeaths', openDeaths' \subseteq Openers,
         new.at = "off" => p \in openDeaths',
         new.at = "checking" => /\ new.read <= schema.version /\ schema.version <= 3
                                /\ new.read = 0 => schema \in OurSchemas,
         new.at \in {"waiting", "in transaction", "written"} =>
           /\ new.read <= schema.version /\ new.read < 3 /\ schema \in OurSchemas,
         new.at = "open" => schema = SchemaAt(3),
         new.at \in {"in transaction", "written"} => OpenerWrites \subseteq {p},
         new.at = "in transaction" => /\ new.draft = schema
                                      /\ new.does = IF new.read = 0 THEN Versions ELSE {new.read + 1},
         new.at = "written" => new.draft \in OurSchemas /\ schema.version < new.draft.version,
         new.at \in {"checking", "waiting", "in transaction", "written"} =>
           new.read = schema.version \/ Company(p),
         new.at = "MIGRATION_FAILED" => (\E n \in Versions : schema.row[n] = "other") \/ Company(p)
  PROVE  MigrationsInv'
<1>a. MigrationsTyped /\ ReadsHold /\ WritesAlone /\ FailuresHaveCompany
  BY DEF MigrationsInv
<1>1. \A q \in Openers : opener'[q] = IF q = p THEN new ELSE opener[q]
  BY <1>a DEF MigrationsTyped
<1>2. MigrationsTyped'
  BY <1>a DEF MigrationsTyped
<1>3. ReadsHold'
  <2> SUFFICES ASSUME NEW q \in Openers
               PROVE  /\ opener'[q].at = "checking" => /\ opener'[q].read <= schema.version /\ schema.version <= 3
                                                       /\ opener'[q].read = 0 => schema \in OurSchemas
                      /\ opener'[q].at \in {"waiting", "in transaction", "written"} =>
                           /\ opener'[q].read <= schema.version /\ opener'[q].read < 3 /\ schema \in OurSchemas
                      /\ opener'[q].at = "open" => schema = SchemaAt(3)
    BY DEF ReadsHold, Migrates, OurSchemas, SchemaAt
  <2>1. CASE q = p
    BY <1>1, <2>1
  <2>2. CASE q # p
    BY <1>a, <1>1, <2>2 DEF ReadsHold, Migrates
  <2> QED BY <2>1, <2>2
<1>4. WritesAlone'
  <2>1. \A q, r \in OpenerWrites' : q = r
    <3>1. \A q \in Openers \ {p} : q \in OpenerWrites' <=> q \in OpenerWrites
      BY <1>1 DEF OpenerWrites
    <3>2. p \in OpenerWrites' => OpenerWrites \subseteq {p}
      BY <1>1 DEF OpenerWrites
    <3>3. OpenerWrites' \subseteq Openers
      BY DEF OpenerWrites
    <3> QED BY <1>a, <3>1, <3>2, <3>3 DEF WritesAlone
  <2>2. \A q \in Openers : opener'[q].at = "in transaction" =>
           opener'[q].draft = schema /\ opener'[q].does = IF opener'[q].read = 0 THEN Versions
                                                          ELSE {opener'[q].read + 1}
    BY <1>a, <1>1 DEF WritesAlone, NextOf
  <2>3. \A q \in Openers : opener'[q].at = "written" =>
           opener'[q].draft \in OurSchemas /\ schema.version < opener'[q].draft.version
    BY <1>a, <1>1 DEF WritesAlone
  <2> QED BY <2>1, <2>2, <2>3 DEF WritesAlone, NextOf, OurSchemas, SchemaAt
<1>5. FailuresHaveCompany'
  <2>1. \A q \in Openers : Company(q) => Company(q)'
    <3> SUFFICES ASSUME NEW q \in Openers, NEW r \in Openers \ {q}, opener[r].at # "off" \/ r \in openDeaths
                 PROVE  opener'[r].at # "off" \/ r \in openDeaths'
      BY DEF Company
    <3> QED BY <1>1
  <2> SUFFICES ASSUME NEW q \in Openers
               PROVE  /\ opener'[q].at \in {"checking", "waiting", "in transaction", "written"} =>
                           opener'[q].read = schema.version \/ Company(q)
                      /\ opener'[q].at = "MIGRATION_FAILED" =>
                           (\E n \in Versions : schema.row[n] = "other") \/ Company(q)
    BY <2>1 DEF FailuresHaveCompany, Migrates
  <2>2. CASE q = p
    BY <1>1, <2>2
  <2>3. CASE q # p
    BY <1>a, <1>1, <2>3 DEF FailuresHaveCompany, Migrates
  <2> QED BY <2>2, <2>3
<1> QED BY <1>2, <1>3, <1>4, <1>5 DEF MigrationsInv

\* What a file is, from its version and its rows.
LEMMA SchemaIs ==
  ASSUME MigrationsTyped
  PROVE  /\ schema.version \in 0..4
         /\ schema \in OurSchemas => /\ schema = SchemaAt(schema.version) /\ schema.version \in 0..3
                                     /\ schema.tables = 1..schema.version
                                     /\ \A n \in Versions :
                                          schema.row[n] = IF n <= schema.version THEN "ours" ELSE "none"
         /\ schema \notin OurSchemas /\ schema.version <= 3 =>
              /\ schema.version \in Versions /\ schema.row[1] = "other"
              /\ schema.tables = 1..schema.version
              /\ \A n \in Versions \ {1} :
                   schema.row[n] = IF n <= schema.version THEN "ours" ELSE "none"
<1>1. schema \in Schemas
  BY DEF MigrationsTyped
<1>2. Versions \subseteq 0..3 /\ 1 \in Versions
  BY DEF Versions, SQLITE_SCHEMA_VERSION
<1>3. schema.version \in 0..4
  BY <1>1, SchemasKnown
<1>4. CASE schema \in OurSchemas
  <2>1. PICK v \in 0..3 : schema = SchemaAt(v)
    BY <1>4 DEF OurSchemas
  <2>2. schema.version = v /\ schema.tables = 1..v
        /\ \A n \in Versions : schema.row[n] = IF n <= v THEN "ours" ELSE "none"
    BY <2>1, SchemaParts
  <2> QED BY <1>3, <1>4, <2>1, <2>2
<1>5. CASE schema \notin OurSchemas /\ schema.version <= 3
  <2>1. schema.version \in Versions /\ schema = Foreign(SchemaAt(schema.version))
    BY <1>1, <1>3, <1>5, SchemasKnown
  <2> QED BY <1>2, <1>3, <1>5, <2>1, SchemaParts
<1> QED BY <1>3, <1>4, <1>5

LEMMA VersionIsRead ==
  ASSUME MigrationsInv, NEW p \in Openers, ReadUserVersion(p)
  PROVE  MigrationsInv'
<1>a. MigrationsTyped
  BY DEF MigrationsInv
<1> DEFINE new == [opener[p] EXCEPT !.read = schema.version,
                     !.at = IF schema.version > 3 THEN "MIGRATION_VERSION_UNSUPPORTED" ELSE "checking"]
<1>1. opener[p] \in OpenerRecords /\ schema.version \in 0..4
  BY <1>a, SchemaIs DEF MigrationsTyped
<1>2. /\ new \in OpenerRecords /\ new.read = schema.version
      /\ new.at = IF schema.version > 3 THEN "MIGRATION_VERSION_UNSUPPORTED" ELSE "checking"
  BY <1>1 DEF OpenerRecords, OpenerPlaces
<1>3. /\ opener' = [opener EXCEPT ![p] = new] /\ schema' = schema
      /\ openDeaths \subseteq openDeaths' /\ openDeaths' \subseteq Openers
  BY <1>a DEF MigrationsTyped, ReadUserVersion, SQLITE_SCHEMA_VERSION
<1>4. schema.version = 0 => schema \in OurSchemas
  BY <1>a, SchemaIs DEF Versions, SQLITE_SCHEMA_VERSION
<1>5. \/ new.at = "MIGRATION_VERSION_UNSUPPORTED"
      \/ new.at = "checking" /\ schema.version <= 3
  BY <1>1, <1>2
<1> HIDE DEF new
<1>6. CASE new.at = "MIGRATION_VERSION_UNSUPPORTED"
  BY <1>2, <1>3, <1>6, OpenerSteps
<1>7. CASE new.at = "checking"
  <2>1. new.read <= schema.version /\ schema.version <= 3 /\ (new.read = 0 => schema \in OurSchemas)
    BY <1>1, <1>2, <1>4, <1>5, <1>7
  <2> QED BY <1>2, <1>3, <1>7, <2>1, OpenerSteps
<1> QED BY <1>5, <1>6, <1>7

LEMMA ChecksumsAreAsserted ==
  ASSUME MigrationsInv, NEW p \in Openers, AssertChecksums(p)
  PROVE  MigrationsInv'
<1>a. MigrationsTyped /\ ReadsHold /\ FailuresHaveCompany
  BY DEF MigrationsInv
<1> DEFINE other == \E n \in 1..opener[p].read : schema.row[n] # "ours"
           place == IF other THEN "MIGRATION_FAILED" ELSE IF opener[p].read = 3 THEN "open" ELSE "waiting"
           new == [opener[p] EXCEPT !.at = place]
<1>1. /\ opener[p] \in OpenerRecords /\ opener[p].at = "checking" /\ opener[p].read \in 0..4
      /\ opener[p].read <= schema.version /\ schema.version <= 3 /\ schema.version \in 0..4
      /\ opener[p].read = 0 => schema \in OurSchemas
      /\ opener[p].read = schema.version \/ Company(p)
  BY <1>a, SchemaIs DEF MigrationsTyped, ReadsHold, FailuresHaveCompany, AssertChecksums, OpenerRecords
<1>2. /\ new \in OpenerRecords /\ new.read = opener[p].read /\ new.at = place
  BY <1>1 DEF OpenerRecords, OpenerPlaces
<1>3. /\ opener' = [opener EXCEPT ![p] = new] /\ schema' = schema
      /\ openDeaths \subseteq openDeaths' /\ openDeaths' \subseteq Openers
  BY <1>a DEF MigrationsTyped, AssertChecksums, OpenerGoes, SQLITE_SCHEMA_VERSION
<1>4. other => \E n \in Versions : schema.row[n] = "other"
  <2>1. schema \in OurSchemas => ~other
    BY <1>1, <1>a, SchemaIs DEF Versions, SQLITE_SCHEMA_VERSION
  <2> QED BY <1>1, <1>a, <2>1, SchemaIs DEF Versions, SQLITE_SCHEMA_VERSION
<1>5. ~other => schema \in OurSchemas
  BY <1>1, <1>a, SchemaIs
<1>6. ~other /\ opener[p].read = 3 => schema = SchemaAt(3)
  BY <1>1, <1>5, <1>a, SchemaIs
<1>7. /\ place \in {"MIGRATION_FAILED", "open", "waiting"}
      /\ place = "MIGRATION_FAILED" => other
      /\ place = "open" => ~other /\ opener[p].read = 3
      /\ place = "waiting" => ~other /\ opener[p].read < 3
  BY <1>1
<1> HIDE DEF new, place, other
<1> QED BY <1>1, <1>2, <1>3, <1>4, <1>5, <1>6, <1>7, OpenerSteps

LEMMA MigrationBegins ==
  ASSUME MigrationsInv, NEW p \in Openers, BeginMigration(p) \/ BeginTimesOut(p)
  PROVE  MigrationsInv'
<1>a. MigrationsTyped /\ ReadsHold /\ FailuresHaveCompany
  BY DEF MigrationsInv
<1>1. /\ opener[p] \in OpenerRecords /\ opener[p].at = "waiting" /\ opener[p].read \in 0..4
      /\ opener[p].read <= schema.version /\ opener[p].read < 3 /\ schema \in OurSchemas
      /\ opener[p].read = schema.version \/ Company(p)
  BY <1>a DEF MigrationsTyped, ReadsHold, FailuresHaveCompany, BeginMigration, BeginTimesOut,
     OpenerRecords, Migrates
<1>2. CASE BeginMigration(p)
  <2> DEFINE new == [opener[p] EXCEPT !.at = "in transaction", !.does = NextOf(p), !.draft = schema]
  <2>1. NextOf(p) \subseteq Versions /\ schema \in Schemas
    BY <1>a, <1>1 DEF NextOf, Versions, SQLITE_SCHEMA_VERSION, MigrationsTyped
  <2>2. /\ new \in OpenerRecords /\ new.read = opener[p].read /\ new.at = "in transaction"
        /\ new.does = NextOf(p) /\ new.draft = schema
    BY <1>1, <2>1 DEF OpenerRecords, OpenerPlaces
  <2>3. /\ opener' = [opener EXCEPT ![p] = new] /\ schema' = schema /\ OpenerWrites = {}
        /\ openDeaths \subseteq openDeaths' /\ openDeaths' \subseteq Openers
    BY <1>a, <1>2 DEF MigrationsTyped, BeginMigration
  <2>4. new.does = IF new.read = 0 THEN Versions ELSE {new.read + 1}
    BY <2>2 DEF NextOf
  <2> HIDE DEF new
  <2> QED BY <1>1, <2>2, <2>3, <2>4, OpenerSteps
<1>3. CASE BeginTimesOut(p)
  <2> DEFINE new == [opener[p] EXCEPT !.at = "MIGRATION_FAILED"]
  <2>1. new \in OpenerRecords /\ new.at = "MIGRATION_FAILED"
    BY <1>1 DEF OpenerRecords, OpenerPlaces
  <2>2. /\ opener' = [opener EXCEPT ![p] = new] /\ schema' = schema
        /\ openDeaths \subseteq openDeaths' /\ openDeaths' \subseteq Openers
    BY <1>a, <1>3 DEF MigrationsTyped, BeginTimesOut, OpenerGoes
  <2>3. Company(p)
    <3>1. PICK q \in Openers : opener[q].at \in {"in transaction", "written"}
      BY <1>3 DEF BeginTimesOut, OpenerWrites
    <3> QED BY <1>1, <3>1 DEF Company
  <2> HIDE DEF new
  <2> QED BY <2>1, <2>2, <2>3, OpenerSteps
<1> QED BY <1>2, <1>3

\* A transaction that finds none of its tables leaves a file of a newer version.
LEMMA TablesAreCreated ==
  ASSUME MigrationsInv, NEW p \in Openers, CreateTables(p)
  PROVE  MigrationsInv'
<1>a. MigrationsTyped /\ ReadsHold /\ WritesAlone /\ FailuresHaveCompany
  BY DEF MigrationsInv
<1> DEFINE does == opener[p].does
           read == opener[p].read
           version == schema.version
           conflict == does \cap schema.tables # {}
           newest == CHOOSE v \in does : \A n \in does : n <= v
           written == [version |-> newest, tables |-> schema.tables \cup does,
                       row |-> [n \in Versions |-> IF n \in does THEN "ours" ELSE schema.row[n]]]
           new == IF conflict THEN [opener[p] EXCEPT !.at = "MIGRATION_FAILED"]
                  ELSE [opener[p] EXCEPT !.at = "written", !.draft = written]
<1>1. /\ opener[p] \in OpenerRecords /\ opener[p].at = "in transaction"
      /\ opener[p].draft = schema /\ does = NextOf(p)
  BY <1>a DEF MigrationsTyped, WritesAlone, CreateTables
<1>2. /\ read \in 0..2 /\ read <= version /\ schema \in OurSchemas
      /\ read = version \/ Company(p)
  <2>1. read \in 0..4
    BY <1>1 DEF OpenerRecords
  <2>2. Migrates(p)
    BY <1>1 DEF Migrates
  <2>3. read <= version /\ read < 3 /\ schema \in OurSchemas /\ (read = version \/ Company(p))
    BY <1>a, <2>2 DEF ReadsHold, FailuresHaveCompany
  <2> QED BY <2>1, <2>3
<1>3. /\ version \in 0..3 /\ schema.tables = 1..version
      /\ \A n \in Versions : schema.row[n] = IF n <= version THEN "ours" ELSE "none"
  BY <1>2, <1>a, SchemaIs
<1>4. does = IF read = 0 THEN 1..3 ELSE {read + 1}
  BY <1>1 DEF NextOf, Versions, SQLITE_SCHEMA_VERSION
<1>5. /\ opener' = [opener EXCEPT ![p] = new] /\ schema' = schema
      /\ openDeaths \subseteq openDeaths' /\ openDeaths' \subseteq Openers
  <2>1. openDeaths' = openDeaths /\ schema' = schema
    BY DEF CreateTables
  <2>2. CASE conflict
    <3>1. opener' = [opener EXCEPT ![p].at = "MIGRATION_FAILED"]
      BY <1>1, <2>2 DEF CreateTables, OpenerGoes
    <3> QED BY <1>a, <2>1, <2>2, <3>1 DEF MigrationsTyped
  <2>3. CASE ~conflict
    <3>1. opener' = [opener EXCEPT ![p].at = "written", ![p].draft = written]
      BY <1>1, <2>3 DEF CreateTables
    <3> QED BY <1>a, <2>1, <2>3, <3>1 DEF MigrationsTyped
  <2> QED BY <2>2, <2>3
<1>6. read \in 0..2 /\ read <= version /\ version \in 0..3 /\ (read = version \/ Company(p))
  BY <1>2, <1>3
<1>7. conflict <=> \E n \in does : n \in 1..version
  BY <1>3
<1> HIDE DEF does, read, version, newest, conflict
<1>8. CASE conflict
  <2>1. read # version
    <3>1. PICK n \in does : n \in 1..version
      BY <1>7, <1>8
    <3>2. CASE read = 0
      BY <3>1, <3>2, <1>6
    <3>3. CASE read # 0
      BY <1>4, <1>6, <3>1, <3>3
    <3> QED BY <3>2, <3>3
  <2>2. new \in OpenerRecords /\ new.at = "MIGRATION_FAILED"
    BY <1>1, <1>8 DEF OpenerRecords, OpenerPlaces
  <2> HIDE DEF new
  <2> QED BY <1>5, <1>6, <2>1, <2>2, OpenerSteps
<1>9. CASE ~conflict
  <2>1. PICK v \in 1..3 : /\ version < v /\ version = read
                          /\ v = IF read = 0 THEN 3 ELSE read + 1
                          /\ v \in does /\ \A n \in does : n <= v
    <3>1. CASE read = 0
      <4>1. does = 1..3
        BY <1>4, <3>1
      <4>2. version = 0
        BY <1>6, <1>7, <1>9, <4>1
      <4> QED BY <3>1, <4>1, <4>2
    <3>2. CASE read # 0
      <4>1. does = {read + 1} /\ read + 1 \notin 1..version
        BY <1>4, <1>7, <1>9, <3>2
      <4>2. version = read /\ read + 1 \in 1..3
        BY <1>6, <4>1
      <4> QED BY <1>6, <3>2, <4>1, <4>2
    <3> QED BY <3>1, <3>2
  <2>2. does \subseteq 1..3 /\ \A n \in 1..3 : n \in does <=> version < n /\ n <= v
    BY <1>4, <1>6, <2>1
  <2>3. newest = v
    <3>1. newest \in does /\ \A n \in does : n <= newest
      BY <2>1 DEF newest
    <3> QED BY <2>1, <2>2, <3>1
  <2>4. written = SchemaAt(v)
    <3>1. 1..version \cup does = 1..v
      <4>1. \A n : n \in 1..version \cup does <=> n \in 1..v
        <5>1. \A n : n \in 1..version \/ n \in does => n \in 1..v
          <6>1. \A n \in 1..version : n \in 1..v
            BY <1>6, <2>1
          <6>2. \A n \in does : n \in 1..v
            BY <2>1, <2>2
          <6> QED BY <6>1, <6>2
        <5>2. \A n \in 1..v : n \in 1..version \/ n \in does
          BY <1>6, <2>1, <2>2
        <5> QED BY <5>1, <5>2
      <4> QED BY <4>1
    <3>2. \A n \in Versions : (IF n \in does THEN "ours" ELSE schema.row[n])
                              = IF n <= v THEN "ours" ELSE "none"
      BY <1>3, <1>6, <2>1, <2>2 DEF Versions, SQLITE_SCHEMA_VERSION
    <3>3. written.row = [n \in Versions |-> IF n <= v THEN "ours" ELSE "none"]
      BY <3>2
    <3> QED BY <1>3, <2>3, <3>1, <3>3 DEF SchemaAt
  <2> HIDE DEF written
  <2>5. written \in OurSchemas /\ written \in Schemas /\ written.version = v
    BY <2>1, <2>4, SchemaParts DEF OurSchemas, Schemas
  <2>6. /\ new \in OpenerRecords /\ new.at = "written" /\ new.draft = written
        /\ new.read = opener[p].read
    BY <1>1, <1>9, <2>5 DEF OpenerRecords, OpenerPlaces
  <2>7. OpenerWrites \subseteq {p}
    BY <1>a, <1>1 DEF WritesAlone, OpenerWrites
  <2>8. new.read <= schema.version /\ new.read = schema.version /\ new.read < 3
        /\ schema.version < written.version
    BY <1>6, <2>1, <2>5, <2>6 DEF read, version
  <2> HIDE DEF new
  <2> QED BY <1>2, <1>5, <2>5, <2>6, <2>7, <2>8, OpenerSteps
<1> QED BY <1>8, <1>9

\* A commit leaves nobody who has opened the file before it, and whoever is opening it
\* has had company.
LEMMA MigrationIsCommitted ==
  ASSUME MigrationsInv, NEW p \in Openers, CommitMigration(p)
  PROVE  MigrationsInv'
<1>a. MigrationsTyped /\ ReadsHold /\ WritesAlone /\ FailuresHaveCompany
  BY DEF MigrationsInv
<1>1. /\ opener[p] \in OpenerRecords /\ opener[p].at = "written" /\ schema \in OurSchemas
      /\ opener[p].draft \in OurSchemas /\ schema.version < opener[p].draft.version
  BY <1>a DEF MigrationsTyped, ReadsHold, WritesAlone, CommitMigration, Migrates
<1>2. PICK v \in 0..3 : opener[p].draft = SchemaAt(v)
  BY <1>1 DEF OurSchemas
<1>3. opener[p].draft.version = v /\ SchemaAt(v).version = v /\ schema.version < v
      /\ schema.version \in 0..3
  BY <1>1, <1>2, <1>a, SchemaParts, SchemaIs
<1> DEFINE new == [opener[p] EXCEPT !.read = v, !.at = IF v = 3 THEN "open" ELSE "waiting"]
<1>4. schema' = SchemaAt(v) /\ opener' = [opener EXCEPT ![p] = new] /\ openDeaths' = openDeaths
  <2> DEFINE read == opener[p].draft.version
             then == [opener[p] EXCEPT !.read = read, !.at = IF read = 3 THEN "open" ELSE "waiting"]
  <2>1. opener' = [opener EXCEPT ![p] = then] /\ schema' = opener[p].draft /\ openDeaths' = openDeaths
    BY DEF CommitMigration, SQLITE_SCHEMA_VERSION
  <2>2. read = v
    BY <1>3
  <2> HIDE DEF read
  <2>3. then = new
    BY <2>2
  <2> QED BY <1>2, <2>1, <2>3
<1>5. /\ new \in OpenerRecords /\ new.read = v /\ new.at = IF v = 3 THEN "open" ELSE "waiting"
      /\ SchemaAt(v) \in OurSchemas /\ SchemaAt(v) \in Schemas
  <2>1. SchemaAt(v) \in OurSchemas /\ SchemaAt(v) \in Schemas
    BY <1>2 DEF OurSchemas, Schemas
  <2>2. v \in 0..4 /\ new.read = v /\ new.at = IF v = 3 THEN "open" ELSE "waiting"
    BY <1>1, <1>2 DEF OpenerRecords
  <2>3. new \in OpenerRecords
    BY <1>1, <2>2 DEF OpenerRecords, OpenerPlaces
  <2> QED BY <2>1, <2>2, <2>3
<1> HIDE DEF new
<1>6. \A q \in Openers : opener'[q] = IF q = p THEN new ELSE opener[q]
  BY <1>a, <1>4 DEF MigrationsTyped
<1>7. MigrationsTyped'
  BY <1>a, <1>4, <1>5 DEF MigrationsTyped
<1>8. schema'.version = v /\ schema' \in OurSchemas /\ OurSchemas' = OurSchemas
  BY <1>3, <1>4, <1>5 DEF OurSchemas, SchemaAt
<1>9. \A q \in Openers \ {p} : opener[q].at \notin {"in transaction", "written", "open"}
  <2>1. SchemaAt(3).version = 3
    BY SchemaParts
  <2>2. schema # SchemaAt(3)
    BY <1>3, <2>1
  <2>3. p \in OpenerWrites
    BY <1>1 DEF OpenerWrites
  <2>4. \A q \in Openers \ {p} : q \notin OpenerWrites
    BY <1>a, <2>3 DEF WritesAlone
  <2> QED BY <1>a, <2>2, <2>4 DEF OpenerWrites, ReadsHold
<1>10. ReadsHold'
  <2> SUFFICES ASSUME NEW q \in Openers
               PROVE  /\ opener'[q].at = "checking" => /\ opener'[q].read <= v /\ v <= 3
                                                       /\ opener'[q].read = 0 => schema' \in OurSchemas
                      /\ opener'[q].at \in {"waiting", "in transaction", "written"} =>
                           /\ opener'[q].read <= v /\ opener'[q].read < 3 /\ schema' \in OurSchemas
                      /\ opener'[q].at = "open" => schema' = SchemaAt(3)
    BY <1>8 DEF ReadsHold, Migrates, OurSchemas, SchemaAt
  <2>1. CASE q = p
    <3>1. opener'[q].read = v /\ opener'[q].at = IF v = 3 THEN "open" ELSE "waiting"
      BY <1>5, <1>6, <2>1
    <3>2. schema' = SchemaAt(v) /\ schema' \in OurSchemas
      BY <1>4, <1>8
    <3>3. v \in 0..3
      BY <1>2
    <3> QED BY <3>1, <3>2, <3>3
  <2>2. CASE q # p
    <3>1. opener[q].read \in 0..4
      BY <1>a DEF MigrationsTyped, OpenerRecords
    <3>2. opener'[q] = opener[q] /\ opener[q].at \notin {"in transaction", "written", "open"}
      BY <1>6, <1>9, <2>2
    <3>3. opener[q].at \in {"checking", "waiting"} => opener[q].read <= schema.version
      BY <1>a DEF ReadsHold, Migrates
    <3>4. opener[q].at = "waiting" => opener[q].read < 3
      BY <1>a DEF ReadsHold, Migrates
    <3>5. opener[q].at \in {"checking", "waiting"} => opener[q].read <= v
      BY <1>3, <3>1, <3>3
    <3>6. schema' \in OurSchemas /\ v \in 0..3
      BY <1>2, <1>8
    <3>7. v <= 3
      BY <3>6
    <3>8. CASE opener[q].at = "checking"
      BY <3>2, <3>5, <3>6, <3>7, <3>8
    <3>9. CASE opener[q].at = "waiting"
      BY <3>2, <3>4, <3>5, <3>6, <3>9
    <3> QED BY <3>2, <3>8, <3>9
  <2> QED BY <2>1, <2>2
<1>11. WritesAlone'
  <2>1. \A q \in Openers : opener'[q].at \notin {"in transaction", "written"}
    BY <1>5, <1>6, <1>9
  <2> QED BY <2>1 DEF WritesAlone, OpenerWrites
<1>12. FailuresHaveCompany'
  <2>1. opener'[p].read = schema'.version /\ opener'[p].at \in {"open", "waiting"}
    BY <1>5, <1>6, <1>8
  <2>2. \A q \in Openers \ {p} : Company(q)'
    BY <2>1 DEF Company
  <2> QED BY <2>1, <2>2 DEF FailuresHaveCompany, Migrates
<1> QED BY <1>7, <1>10, <1>11, <1>12 DEF MigrationsInv

LEMMA OpenerDies ==
  ASSUME MigrationsInv, NEW p \in Openers, MigrationDies(p)
  PROVE  MigrationsInv'
<1>1. SchemaAt(0) \in Schemas
  BY DEF Schemas, OurSchemas
<1>2. IdleOpener \in OpenerRecords /\ IdleOpener.at = "off"
  BY <1>1 DEF IdleOpener, OpenerRecords, OpenerPlaces
<1>3. /\ opener' = [opener EXCEPT ![p] = IdleOpener] /\ schema' = schema /\ p \in openDeaths'
      /\ openDeaths \subseteq openDeaths' /\ openDeaths' \subseteq Openers
  BY DEF MigrationDies, MigrationsInv, MigrationsTyped
<1> QED BY <1>2, <1>3, OpenerSteps

LEMMA MigrationsInductive == MigrationsInv /\ [MigrationsNext]_migrationVars => MigrationsInv'
<1> SUFFICES ASSUME MigrationsInv, [MigrationsNext]_migrationVars PROVE MigrationsInv'
  OBVIOUS
<1>1. CASE UNCHANGED migrationVars
  BY <1>1 DEF MigrationsInv, MigrationsTyped, ReadsHold, WritesAlone, FailuresHaveCompany, Migrates,
     Company, OpenerWrites, NextOf, migrationVars
<1>2. CASE MigrationsNext
  BY <1>2, VersionIsRead, ChecksumsAreAsserted, MigrationBegins, TablesAreCreated,
     MigrationIsCommitted, OpenerDies DEF MigrationsNext
<1> QED BY <1>1, <1>2

\* A database is of the one version it states, whoever migrates it at the same time or
\* dies in it; who opens it finds all of the newest version, and who fails to open one
\* that is ours had company (migrations.ts migrateSqliteDatabase).
THEOREM EveryVersionIsWhole == MigrationsSpec => []DatabasesOpenWhole
<1>1. MigrationsInv => DatabasesOpenWhole
  <2> SUFFICES ASSUME MigrationsInv PROVE DatabasesOpenWhole
    OBVIOUS
  <2>1. MigrationsTyped /\ ReadsHold /\ FailuresHaveCompany
    BY DEF MigrationsInv
  <2>2. schema.version \in 0..3 => /\ schema.tables = 1..schema.version
                                   /\ \A n \in Versions : schema.row[n] # "none" <=> n <= schema.version
    BY <2>1, SchemaIs DEF Versions, SQLITE_SCHEMA_VERSION
  <2>3. \A p \in Openers : opener[p].at = "open" =>
          schema.version = 3 /\ \A n \in Versions : schema.row[n] = "ours"
    BY <2>1, SchemaParts DEF ReadsHold, Versions, SQLITE_SCHEMA_VERSION
  <2> QED BY <2>1, <2>2, <2>3 DEF DatabasesOpenWhole, FailuresHaveCompany, Company, SQLITE_SCHEMA_VERSION
<1> QED BY MigrationsStart, MigrationsInductive, <1>1, PTL DEF MigrationsSpec

(***************************************************************************)
(* Leases and worktrees, for any runs, resources and lifetimes.            *)
(***************************************************************************)
LeaseRecords == [owner : Owners, resources : SUBSET Resources, expires : Nat]

\* What pruneExpired leaves are tables that agree, with nothing in them but leases that
\* have not expired, each as it was.
LEMMA PrunedTables ==
  ASSUME LeaseTypeOK, TablesAgree
  PROVE  /\ Kept \in [LeaseIds -> LeaseRecords \cup {NoLease}]
         /\ KeptIndex \in [Resources -> LeaseIds \cup {NoLease}]
         /\ \A l \in LeaseIds : Kept[l] # NoLease => Alive(l) /\ Kept[l] = leases[l]
         /\ \A l \in LeaseIds : Alive(l) => Kept[l] = leases[l]
         /\ \A x \in Resources, l \in LeaseIds :
              KeptIndex[x] = l <=> Kept[l] # NoLease /\ x \in Kept[l].resources
<1> USE LeaseAssumption DEF LeaseRecords
<1>1. Kept \in [LeaseIds -> LeaseRecords \cup {NoLease}]
  BY DEF Kept, LeaseTypeOK
<1>2. KeptIndex \in [Resources -> LeaseIds \cup {NoLease}]
  BY DEF KeptIndex, LeaseTypeOK
<1>3. \A l \in LeaseIds : Kept[l] # NoLease => Alive(l) /\ Kept[l] = leases[l]
  BY DEF Kept, Alive
<1>4. \A l \in LeaseIds : Alive(l) => Kept[l] = leases[l]
  BY DEF Kept, Alive
<1>5. \A x \in Resources, l \in LeaseIds :
        KeptIndex[x] = l <=> Kept[l] # NoLease /\ x \in Kept[l].resources
  BY <1>3, <1>4 DEF KeptIndex, TablesAgree, LeaseTypeOK, Alive
<1> QED
  BY <1>1, <1>2, <1>3, <1>4, <1>5

LeaseInv == LeaseTypeOK /\ TablesAgree

\* A lease that may be acquired can be written over what is there.
LEMMA Granted ==
  ASSUME LeaseInv, NEW l \in LeaseIds, NEW o \in Owners, NEW R \in SUBSET Resources,
         NEW ttl \in Ttls, CanAcquire(l, o, R),
         leases' = [Kept EXCEPT ![l] = Lease(o, R, ttl)],
         index' = [x \in Resources |-> IF x \in R THEN l ELSE KeptIndex[x]], clock' = clock
  PROVE  LeaseInv'
<1> USE LeaseAssumption DEF LeaseInv
<1>1. \A x \in R : KeptIndex[x] \in {l, NoLease}
  BY PrunedTables DEF CanAcquire
<1>2. \A x \in Resources : KeptIndex[x] = l => x \in R
  BY PrunedTables DEF CanAcquire
<1>3. Lease(o, R, ttl) \in LeaseRecords /\ Lease(o, R, ttl).resources = R
  BY DEF Lease, LeaseRecords, LeaseTypeOK
<1>4. LeaseTypeOK'
  BY <1>3, PrunedTables DEF LeaseTypeOK, LeaseRecords
<1>5. ASSUME NEW x \in Resources, NEW k \in LeaseIds
      PROVE  index'[x] = k <=> leases'[k] # NoLease /\ x \in leases'[k].resources
  BY <1>1, <1>2, <1>3, PrunedTables DEF LeaseRecords
<1> QED
  BY <1>4, <1>5 DEF TablesAgree

LEMMA LeaseInductive == LeaseInv /\ [LeaseNext]_leaseVars => LeaseInv'
<1> SUFFICES ASSUME LeaseInv, [LeaseNext]_leaseVars PROVE LeaseInv'
  OBVIOUS
<1> USE LeaseAssumption DEF LeaseInv
<1>1. CASE UNCHANGED leaseVars \/ Tick
  BY <1>1 DEF leaseVars, Tick, LeaseTypeOK, TablesAgree
<1>2. CASE Prune
  BY <1>2, PrunedTables DEF Prune, LeaseTypeOK, TablesAgree, LeaseRecords
<1>3. ASSUME NEW l \in LeaseIds, NEW o \in Owners, NEW R \in SUBSET Resources,
             NEW ttl \in Ttls, Acquire(l, o, R, ttl)
      PROVE  LeaseInv'
  <2>1. CASE Kept[l] # NoLease
    <3>1. leases' = Kept /\ Kept[l].resources = R /\ clock' = clock
      BY <1>3, <2>1 DEF Acquire, CanAcquire
    <3>2. index' = KeptIndex
      BY <1>3, <2>1, <3>1, PrunedTables DEF Acquire
    <3> QED
      BY <3>1, <3>2, PrunedTables DEF LeaseTypeOK, TablesAgree, LeaseRecords
  <2>2. CASE Kept[l] = NoLease
    BY <1>3, <2>2, Granted DEF Acquire
  <2> QED
    BY <2>1, <2>2
<1>4. ASSUME NEW l \in LeaseIds, NEW o \in Owners, NEW ttl \in Ttls, Renew(l, o, ttl)
      PROVE  LeaseInv'
  <2>1. /\ Kept[l] \in LeaseRecords
        /\ leases' = [Kept EXCEPT ![l].expires = clock + ttl]
        /\ index' = KeptIndex /\ clock' = clock
    BY <1>4, PrunedTables DEF Renew, Holds
  <2>2. leases'[l] \in LeaseRecords /\ leases'[l].resources = Kept[l].resources
    BY <2>1, PrunedTables DEF LeaseRecords, LeaseTypeOK
  <2>3. \A k \in LeaseIds : k # l => leases'[k] = Kept[k]
    BY <2>1, PrunedTables
  <2>4. LeaseTypeOK'
    BY <2>1, <2>2, PrunedTables DEF LeaseTypeOK, LeaseRecords
  <2>5. TablesAgree'
    BY <2>1, <2>2, <2>3, PrunedTables DEF TablesAgree, LeaseRecords
  <2> QED
    BY <2>4, <2>5
<1>5. ASSUME NEW l \in LeaseIds, NEW o \in Owners, Release(l, o)
      PROVE  LeaseInv'
  BY <1>5, PrunedTables DEF Release, LeaseTypeOK, TablesAgree, LeaseRecords
<1> QED
  BY <1>1, <1>2, <1>3, <1>4, <1>5 DEF LeaseNext

\* The two tables of the lease managers agree whatever is acquired, renewed, released and
\* pruned, so that no two leases hold one resource.
THEOREM LeaseTablesAgree == LeaseSpec => []LeaseInv
<1>1. LeaseInit => LeaseInv
  BY LeaseAssumption DEF LeaseInit, LeaseInv, LeaseTypeOK, TablesAgree
<1> QED
  BY <1>1, LeaseInductive, PTL DEF LeaseSpec

(***************************************************************************)
(* LeaseManager implements ExclusiveLeases.                                *)
(***************************************************************************)

\* To a client, the holder of a resource is the lease it is listed under, until that expires.
LEMMA HolderIsListed ==
  LeaseInv =>
    /\ \A x \in Resources :
         Holder(x) = IF index[x] # NoLease /\ Alive(index[x])
                     THEN [owner |-> leases[index[x]].owner, until |-> leases[index[x]].expires]
                     ELSE NoLease
    /\ \A x \in Resources : Holder(x) \in [owner : Owners, until : Nat] \cup {NoLease}
<1> SUFFICES ASSUME LeaseInv, NEW x \in Resources
             PROVE  /\ Holder(x) = IF index[x] # NoLease /\ Alive(index[x])
                                   THEN [owner |-> leases[index[x]].owner,
                                         until |-> leases[index[x]].expires]
                                   ELSE NoLease
                    /\ Holder(x) \in [owner : Owners, until : Nat] \cup {NoLease}
  OBVIOUS
<1> USE LeaseAssumption DEF LeaseInv, LeaseTypeOK
<1>1. \A l \in LeaseIds : Alive(l) /\ x \in leases[l].resources <=> index[x] = l /\ Alive(l)
  BY DEF TablesAgree, Alive
<1>2. CASE index[x] # NoLease /\ Alive(index[x])
  <2>1. index[x] \in LeaseIds /\ leases[index[x]] \in LeaseRecords
    BY <1>2 DEF Alive, LeaseRecords
  <2>2. (CHOOSE l \in LeaseIds : Alive(l) /\ x \in leases[l].resources) = index[x]
    BY <1>1, <1>2, <2>1
  <2> QED
    BY <1>1, <1>2, <2>1, <2>2 DEF Holder, LeaseRecords
<1>3. CASE ~(index[x] # NoLease /\ Alive(index[x]))
  BY <1>1, <1>3 DEF Holder
<1> QED
  BY <1>2, <1>3

\* Pruning, repeating a request and looking at the tables show a client nothing new.
LEMMA StepIsPromised ==
  LeaseInv /\ LeaseInv' /\ [LeaseNext]_leaseVars => [Promise!Next]_(Promise!holdings)
<1> SUFFICES ASSUME LeaseInv, LeaseInv', [LeaseNext]_leaseVars
             PROVE  [Promise!Next]_(Promise!holdings)
  OBVIOUS
<1> USE LeaseAssumption
<1> DEFINE heldBy(x) == IF index[x] # NoLease /\ Alive(index[x])
                        THEN [owner |-> leases[index[x]].owner, until |-> leases[index[x]].expires]
                        ELSE NoLease
<1>1. \A x \in Resources : Holder(x) = heldBy(x) /\ Holder(x)' = heldBy(x)'
  <2>1. \A x \in Resources : Holder(x) = heldBy(x)
    BY HolderIsListed
  <2>2. (LeaseInv => \A x \in Resources : Holder(x) = heldBy(x))'
    BY HolderIsListed, PTL
  <2> QED
    BY <2>1, <2>2
<1>2. \A x \in Resources : index[x] # NoLease =>
        index[x] \in LeaseIds /\ leases[index[x]] \in LeaseRecords /\ x \in leases[index[x]].resources
  BY DEF LeaseInv, LeaseTypeOK, TablesAgree, LeaseRecords
<1>3. \A x \in Resources :
        /\ heldBy(x) = IF KeptIndex[x] # NoLease
                       THEN [owner |-> Kept[KeptIndex[x]].owner, until |-> Kept[KeptIndex[x]].expires]
                       ELSE NoLease
        /\ KeptIndex[x] # NoLease => /\ KeptIndex[x] \in LeaseIds
                                     /\ Kept[KeptIndex[x]] \in LeaseRecords \ {NoLease}
                                     /\ Kept[KeptIndex[x]].expires > clock
  BY <1>2 DEF Kept, KeptIndex, Alive
<1>4. ASSUME NEW o \in Owners, clock' = clock,
             \A x \in Resources : heldBy(x)' # heldBy(x) =>
               /\ heldBy(x) = NoLease \/ heldBy(x).owner = o
               /\ heldBy(x)' = NoLease \/ (heldBy(x)'.owner = o /\ heldBy(x)'.until > clock)
      PROVE  Promise!Next
  <2> HIDE DEF heldBy
  <2> QED
    BY <1>1, <1>4 DEF Promise!Next, Promise!Acts
<1>5. ASSUME clock' = clock, \A x \in Resources : heldBy(x)' = heldBy(x)
      PROVE  UNCHANGED Promise!holdings
  <2> HIDE DEF heldBy
  <2> QED
    BY <1>1, <1>5 DEF Promise!holdings
<1>6. CASE UNCHANGED leaseVars
  BY <1>5, <1>6 DEF leaseVars, Alive
<1>10. CASE Tick
  <2>1. clock \in Nat /\ clock' = clock + 1
    BY <1>10 DEF Tick, LeaseInv, LeaseTypeOK
  <2>2. ASSUME NEW x \in Resources
        PROVE  heldBy(x)' = IF heldBy(x) # NoLease /\ heldBy(x).until <= clock'
                            THEN NoLease ELSE heldBy(x)
    BY <1>2, <1>10, <2>1 DEF Tick, Alive, LeaseRecords
  <2> HIDE DEF heldBy
  <2>3. ASSUME NEW x \in Resources
        PROVE  Holder(x)' = IF Holder(x) # NoLease /\ Holder(x).until <= clock'
                            THEN NoLease ELSE Holder(x)
    BY <1>1, <2>2
  <2>4. Promise!Passes
    BY <2>1, <2>3 DEF Promise!Passes
  <2> QED
    BY <2>4 DEF Promise!Next
<1>11. CASE Prune
  <2>1. \A x \in Resources : index'[x] = KeptIndex[x] /\ leases' = Kept /\ clock' = clock
    BY <1>11 DEF Prune
  <2>2. \A x \in Resources : heldBy(x)' = heldBy(x)
    BY <1>3, <2>1 DEF Alive, LeaseRecords
  <2> QED
    BY <1>5, <1>11, <2>2 DEF Prune
<1>7. ASSUME NEW l \in LeaseIds, NEW o \in Owners, NEW R \in SUBSET Resources,
             NEW ttl \in Ttls, Acquire(l, o, R, ttl)
      PROVE  Promise!Next
  <2>1. ASSUME NEW x \in Resources, x \notin R
        PROVE  heldBy(x)' = heldBy(x)
    <3>1. index'[x] = KeptIndex[x] /\ clock' = clock
      BY <1>7, <2>1 DEF Acquire
    <3>2. KeptIndex[x] # NoLease => leases'[KeptIndex[x]] = Kept[KeptIndex[x]]
      <4>1. KeptIndex[x] # NoLease => Kept[KeptIndex[x]] # NoLease
        BY <1>3 DEF LeaseRecords
      <4> QED
        BY <1>3, <1>7, <4>1, PrunedTables DEF Acquire, LeaseInv
    <3> QED
      BY <1>3, <3>1, <3>2 DEF Alive, LeaseRecords
  <2>2. ASSUME NEW x \in R
        PROVE  /\ heldBy(x) = NoLease \/ (heldBy(x).owner = o /\ heldBy(x)' = heldBy(x))
               /\ heldBy(x)' = NoLease \/ (heldBy(x)'.owner = o /\ heldBy(x)'.until > clock)
    <3>1. index'[x] = l /\ clock' = clock
      BY <1>7, <2>2 DEF Acquire
    <3>2. CASE Kept[l] # NoLease
      <4>1. leases' = Kept /\ Kept[l].owner = o /\ KeptIndex[x] = l
        BY <1>7, <2>2, <3>2, PrunedTables DEF Acquire, CanAcquire, LeaseInv
      <4> QED
        BY <1>3, <3>1, <4>1 DEF Alive, LeaseRecords
    <3>3. CASE Kept[l] = NoLease
      <4>1. leases'[l] = Lease(o, R, ttl) /\ KeptIndex[x] = NoLease
        BY <1>7, <2>2, <3>3, PrunedTables DEF Acquire, CanAcquire, LeaseInv
      <4>2. heldBy(x) = NoLease
        BY <1>3, <4>1
      <4>3. leases'[l].owner = o
        BY <4>1 DEF Lease
      <4> QED
        BY <3>1, <4>2, <4>3 DEF Alive
    <3> QED
      BY <3>2, <3>3
  <2> QED
    BY <1>4, <1>7, <2>1, <2>2 DEF Acquire
<1>8. ASSUME NEW l \in LeaseIds, NEW o \in Owners, NEW ttl \in Ttls, Renew(l, o, ttl)
      PROVE  Promise!Next
  <2>1. ASSUME NEW x \in Resources
        PROVE  /\ KeptIndex[x] # l => heldBy(x)' = heldBy(x)
               /\ KeptIndex[x] = l =>
                    /\ heldBy(x).owner = o
                    /\ heldBy(x)' = NoLease \/ (heldBy(x)'.owner = o /\ heldBy(x)'.until > clock)
    <3>1. /\ index'[x] = KeptIndex[x] /\ clock' = clock
          /\ Kept[l] \in LeaseRecords /\ Kept[l].owner = o
          /\ leases' = [Kept EXCEPT ![l].expires = clock + ttl]
      BY <1>8, PrunedTables DEF Renew, Holds, LeaseInv
    <3>2. leases'[l].owner = o
      BY <3>1, PrunedTables DEF LeaseInv, LeaseRecords
    <3>3. \A k \in LeaseIds \ {l} : leases'[k] = Kept[k]
      BY <3>1, PrunedTables DEF LeaseInv
    <3>4. KeptIndex[x] # l => heldBy(x)' = heldBy(x)
      <4>1. CASE KeptIndex[x] = NoLease
        BY <1>3, <3>1, <4>1
      <4>2. CASE KeptIndex[x] \notin {l, NoLease}
        BY <1>3, <3>1, <3>3, <4>2 DEF Alive
      <4> QED
        BY <4>1, <4>2
    <3>5. KeptIndex[x] = l => heldBy(x).owner = o
      <4> HIDE DEF heldBy
      <4> QED
        BY <1>3, <3>1
    <3>6. KeptIndex[x] = l =>
            heldBy(x)' = NoLease \/ (heldBy(x)'.owner = o /\ heldBy(x)'.until > clock)
      BY <3>1, <3>2 DEF Alive
    <3> QED
      BY <3>4, <3>5, <3>6
  <2> QED
    BY <1>4, <1>8, <2>1 DEF Renew
<1>9. ASSUME NEW l \in LeaseIds, NEW o \in Owners, Release(l, o)
      PROVE  Promise!Next
  <2>1. ASSUME NEW x \in Resources
        PROVE  /\ KeptIndex[x] # l => heldBy(x)' = heldBy(x)
               /\ KeptIndex[x] = l => heldBy(x).owner = o /\ heldBy(x)' = NoLease
    <3>1. /\ index'[x] = IF KeptIndex[x] = l THEN NoLease ELSE KeptIndex[x]
          /\ clock' = clock /\ Kept[l].owner = o
          /\ \A k \in LeaseIds \ {l} : leases'[k] = Kept[k]
      BY <1>9, PrunedTables DEF Release, Holds, LeaseInv
    <3>2. CASE KeptIndex[x] = l
      <4>1. heldBy(x)' = NoLease
        BY <3>1, <3>2
      <4> HIDE DEF heldBy
      <4> QED
        BY <1>3, <3>1, <3>2, <4>1
    <3>3. CASE KeptIndex[x] = NoLease
      BY <1>3, <3>1, <3>3
    <3>4. CASE KeptIndex[x] \notin {l, NoLease}
      BY <1>3, <3>1, <3>4 DEF Alive
    <3> QED
      BY <3>2, <3>3, <3>4
  <2> QED
    BY <1>4, <1>9, <2>1 DEF Release
<1> QED
  BY <1>6, <1>7, <1>8, <1>9, <1>10, <1>11 DEF LeaseNext

\* The managers keep the promise: nobody is given what another still holds, no holding
\* changes hands, and none outlives its expiry.
THEOREM LeasesImplementPromise == LeaseSpec => Promise!Spec
<1>1. LeaseInit => Promise!Init
  <2> SUFFICES ASSUME LeaseInit PROVE Promise!Init
    OBVIOUS
  <2>1. \A x \in Resources : Holder(x) = NoLease
    BY DEF Holder, Alive, LeaseInit
  <2> QED
    BY <2>1 DEF Promise!Init, LeaseInit
<1> QED
  BY <1>1, StepIsPromised, LeaseTablesAgree, PTL DEF LeaseSpec, Promise!Spec

\* The same, as the runs check it.
THEOREM LeasesStayExclusive == LeaseSpec => LeasesAreExclusive
<1>1. [Promise!Next]_(Promise!holdings)
        => [UNCHANGED leaseVars \/ Promise!Next]_(Promise!holdings)
  OBVIOUS
<1> QED
  BY <1>1, LeasesImplementPromise, PTL DEF LeasesAreExclusive, Promise!Spec
(***************************************************************************)
(* The worktrees.                                                          *)
(***************************************************************************)

\* Where every ensure is, and what it may rely on: a run between its claim and its
\* ownership has its leases for as long as they last, and one that found a worktree
\* finds it still there.
EnsurePcs == {"idle", "adopt", "create", "checked", "add", "added", "failed", "inspect", "owns"}
EnsureInv ==
  /\ ens \in [Owners -> [pc : EnsurePcs, path : Paths]]
  /\ disk \subseteq Paths /\ branch \in BOOLEAN
  /\ disk # {} => branch
  /\ \A r \in Owners :
       /\ ens[r].pc \in {"adopt", "inspect", "added", "owns"} => ens[r].path \in disk
       /\ ens[r].pc \in {"add", "added"} /\ Alive(r) => Needs(r) \subseteq leases[r].resources

\* What is owned: by a run that knows it, under leases that name it while they last.
OwnerInv ==
  /\ ownPath \in [Paths -> Owners \cup {NoLease}] /\ ownBranch \in Paths \cup {NoLease}
  /\ ownBranch # NoLease => ownPath[ownBranch] # NoLease
  /\ \A p \in Paths : ownPath[p] # NoLease =>
       /\ ens[ownPath[p]].pc = "owns" /\ ens[ownPath[p]].path = p
       /\ Alive(ownPath[p]) => Needs(ownPath[p]) \subseteq leases[ownPath[p]].resources

WorktreeInv == LeaseInv /\ EnsureInv /\ OwnerInv
\* What a step does not touch of the leases is what it was, for as long as it lasts.
LEMMA Lasting ==
  ASSUME LeaseInv, NEW k \in LeaseIds, clock' \in Nat, clock' >= clock,
         leases'[k] \in {leases[k], Kept[k]}
  PROVE  Alive(k)' => Alive(k) /\ leases'[k] = leases[k]
<1>1. CASE leases'[k] = leases[k]
  <2>1. Alive(k)' => leases[k] \in LeaseRecords
    BY <1>1 DEF Alive, LeaseInv, LeaseTypeOK, LeaseRecords
  <2> QED
    BY <1>1, <2>1 DEF Alive, LeaseInv, LeaseTypeOK, LeaseRecords
<1>2. CASE leases'[k] = Kept[k]
  BY <1>2, PrunedTables DEF Alive, LeaseInv
<1> QED
  BY <1>1, <1>2

\* Every way in which a worktree step of r uses the leases.
LEMMA LeaseUse ==
  ASSUME WorktreeInv, NEW r \in Owners,
         \/ Unleased
         \/ GivesBack(r)
         \/ \E ttl \in Ttls : Acquire(r, r, Needs(r), ttl)
         \/ \E ttl \in Ttls :
              /\ CanAcquire(r, r, Needs(r))
              /\ leases' = [Kept EXCEPT ![r] = Lease(r, Needs(r), ttl)]
              /\ index' = [x \in Resources |-> IF x \in Needs(r) THEN r ELSE KeptIndex[x]]
              /\ UNCHANGED clock
  PROVE  /\ LeaseInv'
         /\ \A k \in Owners \ {r} : Alive(k)' => Alive(k) /\ leases'[k] = leases[k]
<1> USE WorktreesAssumption DEF WorktreeInv
<1>1. Needs(r) \in SUBSET Resources /\ clock \in Nat
  BY DEF Needs, EnsureInv, LeaseInv, LeaseTypeOK
<1>2. CASE Unleased
  BY <1>1, <1>2, LeaseInductive, Lasting DEF Unleased, leaseVars
<1>3. CASE GivesBack(r)
  <2>1. Prune \/ Release(r, r)
    BY <1>3 DEF GivesBack
  <2>2. clock' = clock /\ \A k \in Owners \ {r} : leases'[k] = Kept[k]
    BY <2>1, PrunedTables DEF Prune, Release, LeaseInv
  <2> QED
    BY <1>1, <2>1, <2>2, LeaseInductive, Lasting DEF LeaseNext
<1>4. ASSUME NEW ttl \in Ttls, Acquire(r, r, Needs(r), ttl)
      PROVE  LeaseInv' /\ clock' = clock /\ \A k \in Owners \ {r} : leases'[k] = Kept[k]
  <2>0. Needs(r) # {}
    BY DEF Needs
  <2>1. LeaseNext
    BY <1>1, <1>4, <2>0 DEF LeaseNext
  <2>2. \A k \in Owners \ {r} : leases'[k] = Kept[k]
    BY <1>4, PrunedTables DEF Acquire, LeaseInv
  <2> QED
    BY <1>4, <2>1, <2>2, LeaseInductive DEF Acquire
<1>5. ASSUME NEW ttl \in Ttls, CanAcquire(r, r, Needs(r)), UNCHANGED clock,
             leases' = [Kept EXCEPT ![r] = Lease(r, Needs(r), ttl)],
             index' = [x \in Resources |-> IF x \in Needs(r) THEN r ELSE KeptIndex[x]]
      PROVE  LeaseInv' /\ clock' = clock /\ \A k \in Owners \ {r} : leases'[k] = Kept[k]
  <2>1. LeaseInv'
    BY <1>1, <1>5, Granted
  <2>2. \A k \in Owners \ {r} : leases'[k] = Kept[k]
    BY <1>5, PrunedTables DEF LeaseInv
  <2> QED
    BY <1>5, <2>1, <2>2
<1> QED
  BY <1>1, <1>2, <1>3, <1>4, <1>5, Lasting

LEMMA WorktreeInductive == WorktreeInv /\ [WorktreesNext]_worktreeVars => WorktreeInv'
<1> SUFFICES ASSUME WorktreeInv, [WorktreesNext]_worktreeVars PROVE WorktreeInv'
  OBVIOUS
<1> USE WorktreesAssumption, LeaseAssumption DEF EnsurePcs
<1>1. CASE UNCHANGED worktreeVars
  BY <1>1, LeaseInductive DEF worktreeVars, leaseVars, WorktreeInv, EnsureInv, OwnerInv, Needs, Alive
<1>2. ASSUME NEW r \in Owners, NEW p \in Paths, Ensure(r, p) PROVE WorktreeInv'
  <2>1. LeaseInv'
    BY <1>2, LeaseUse DEF Ensure
  <2>2. EnsureInv'
    BY <1>2 DEF Ensure, Ensuring, Unleased, leaseVars, gitVars, ownVars, WorktreeInv, EnsureInv, Needs, Alive
  <2>3. OwnerInv'
    BY <1>2 DEF Ensure, Ensuring, Unleased, leaseVars, gitVars, ownVars, WorktreeInv, EnsureInv, OwnerInv, Needs, Alive
  <2> QED
    BY <2>1, <2>2, <2>3 DEF WorktreeInv
<1>3. ASSUME NEW r \in Owners, CheckBranch(r) PROVE WorktreeInv'
  <2>1. LeaseInv'
    BY <1>3, LeaseUse DEF CheckBranch
  <2>2. EnsureInv'
    BY <1>3 DEF CheckBranch, EnsureGoes, Ensuring, Unleased, leaseVars, gitVars, ownVars, WorktreeInv, EnsureInv, Needs, Alive
  <2>3. OwnerInv'
    BY <1>3 DEF CheckBranch, EnsureGoes, Ensuring, Unleased, leaseVars, gitVars, ownVars, WorktreeInv, EnsureInv, OwnerInv, Needs, Alive
  <2> QED
    BY <2>1, <2>2, <2>3 DEF WorktreeInv
<1>4. ASSUME NEW r \in Owners, GitAdds(r) PROVE WorktreeInv'
  <2>1. LeaseInv'
    BY <1>4, LeaseUse DEF GitAdds
  <2>2. CASE /\ ~branch /\ branch' = TRUE /\ disk' = disk \cup {ens[r].path}
             /\ EnsureGoes(r, "added")
    <3>1. EnsureInv'
      BY <1>4, <2>2 DEF GitAdds, EnsureGoes, Ensuring, Unleased, leaseVars, ownVars, WorktreeInv, EnsureInv, Needs, Alive
    <3>2. OwnerInv'
      BY <1>4, <2>2 DEF GitAdds, EnsureGoes, Ensuring, Unleased, leaseVars, ownVars, WorktreeInv, EnsureInv, OwnerInv, Needs, Alive
    <3> QED
      BY <2>1, <3>1, <3>2 DEF WorktreeInv
  <2>3. CASE EnsureGoes(r, "failed") /\ branch' \in {branch, TRUE} /\ UNCHANGED disk
    <3>1. branch' \in BOOLEAN /\ (branch => branch')
      <4>1. branch \in BOOLEAN
        BY DEF WorktreeInv, EnsureInv
      <4>2. branch' = branch \/ branch' = TRUE
        BY <2>3
      <4> QED
        BY <4>1, <4>2
    <3>3. EnsureInv'
      BY <1>4, <2>3, <3>1 DEF GitAdds, EnsureGoes, Ensuring, Unleased, leaseVars, ownVars, WorktreeInv, EnsureInv, Needs, Alive
    <3>2. OwnerInv'
      BY <1>4, <2>3 DEF GitAdds, EnsureGoes, Ensuring, Unleased, leaseVars, ownVars, WorktreeInv, EnsureInv, OwnerInv, Needs, Alive
    <3> QED
      BY <2>1, <3>2, <3>3 DEF WorktreeInv
  <2> QED
    BY <1>4, <2>2, <2>3 DEF GitAdds
<1>5. ASSUME NEW r \in Owners, LookUpOwner(r) PROVE WorktreeInv'
  <2>1. LeaseInv'
    BY <1>5, LeaseUse DEF LookUpOwner
  <2>2. EnsureInv'
    BY <1>5 DEF LookUpOwner, EnsureGoes, Ensuring, Unleased, leaseVars, gitVars, ownVars, WorktreeInv, EnsureInv, Needs, Alive
  <2>3. OwnerInv'
    BY <1>5 DEF LookUpOwner, EnsureGoes, Ensuring, Unleased, leaseVars, gitVars, ownVars, WorktreeInv, EnsureInv, OwnerInv, Needs, Alive
  <2> QED
    BY <2>1, <2>2, <2>3 DEF WorktreeInv
<1>6. ASSUME NEW r \in Owners, Created(r) PROVE WorktreeInv'
  <2>1. LeaseInv'
    BY <1>6, LeaseUse DEF Created
  <2>2. EnsureInv'
    BY <1>6 DEF Created, Owns, EnsureGoes, Ensuring, Unleased, leaseVars, gitVars, WorktreeInv, EnsureInv, Needs, Alive
  <2>3. OwnerInv'
    BY <1>6 DEF Created, Owns, EnsureGoes, Ensuring, Unleased, leaseVars, gitVars, WorktreeInv, EnsureInv, OwnerInv, Needs, Alive
  <2> QED
    BY <2>1, <2>2, <2>3 DEF WorktreeInv
<1>7. ASSUME NEW r \in Owners, AddFailed(r) PROVE WorktreeInv'
  <2>1. LeaseInv' /\ \A k \in Owners \ {r} : Alive(k)' => Alive(k) /\ leases'[k] = leases[k]
    BY <1>7, LeaseUse DEF AddFailed
  <2>2. EnsureInv'
    BY <1>7, <2>1 DEF AddFailed, EnsureGoes, Ensuring, gitVars, ownVars, WorktreeInv, EnsureInv, Needs
  <2>3. OwnerInv'
    BY <1>7, <2>1 DEF AddFailed, EnsureGoes, Ensuring, gitVars, ownVars, WorktreeInv, EnsureInv, OwnerInv, Needs
  <2> QED
    BY <2>1, <2>2, <2>3 DEF WorktreeInv
<1>8. ASSUME NEW r \in Owners, ReleaseWorktree(r) PROVE WorktreeInv'
  <2>1. LeaseInv' /\ \A k \in Owners \ {r} : Alive(k)' => Alive(k) /\ leases'[k] = leases[k]
    BY <1>8, LeaseUse DEF ReleaseWorktree
  <2>2. EnsureInv'
    BY <1>8, <2>1 DEF ReleaseWorktree, EnsureGoes, Ensuring, gitVars, WorktreeInv, EnsureInv, Needs
  <2>3. OwnerInv'
    BY <1>8, <2>1 DEF ReleaseWorktree, EnsureGoes, Ensuring, gitVars, WorktreeInv, EnsureInv, OwnerInv, Needs
  <2> QED
    BY <2>1, <2>2, <2>3 DEF WorktreeInv
<1>9. ASSUME NEW r \in Owners, NEW ttl \in Ttls, ClaimNew(r, ttl) PROVE WorktreeInv'
  <2>1. LeaseInv' /\ \A k \in Owners \ {r} : Alive(k)' => Alive(k) /\ leases'[k] = leases[k]
    BY <1>9, LeaseUse DEF ClaimNew
  <2>2. CASE EnsureGoes(r, "add") /\ Acquire(r, r, Needs(r), ttl)
    <3>1. leases'[r].resources = Needs(r)
      BY <2>2, PrunedTables DEF Acquire, CanAcquire, Lease, WorktreeInv, LeaseInv
    <3>2. EnsureInv'
      BY <1>9, <2>1, <2>2, <3>1 DEF ClaimNew, EnsureGoes, Ensuring, gitVars, ownVars, WorktreeInv, EnsureInv, Needs
    <3>3. OwnerInv'
      BY <1>9, <2>1, <2>2 DEF ClaimNew, EnsureGoes, Ensuring, gitVars, ownVars, WorktreeInv, EnsureInv, OwnerInv, Needs
    <3> QED
      BY <2>1, <3>2, <3>3 DEF WorktreeInv
  <2>3. CASE EnsureGoes(r, "idle") /\ Unleased
    <3>1. EnsureInv'
      BY <1>9, <2>1, <2>3 DEF ClaimNew, EnsureGoes, Ensuring, gitVars, ownVars, WorktreeInv, EnsureInv, Needs
    <3>2. OwnerInv'
      BY <1>9, <2>1, <2>3 DEF ClaimNew, EnsureGoes, Ensuring, gitVars, ownVars, WorktreeInv, EnsureInv, OwnerInv, Needs
    <3> QED
      BY <2>1, <3>1, <3>2 DEF WorktreeInv
  <2> QED
    BY <1>9, <2>2, <2>3 DEF ClaimNew
<1>10. ASSUME NEW r \in Owners, NEW ttl \in Ttls, Adopt(r, ttl) PROVE WorktreeInv'
  <2>1. LeaseInv' /\ \A k \in Owners \ {r} : Alive(k)' => Alive(k) /\ leases'[k] = leases[k]
    BY <1>10, LeaseUse DEF Adopt
  <2>2. CASE /\ CanAcquire(r, r, Needs(r)) /\ Owns(r)
             /\ leases' = [Kept EXCEPT ![r] = Lease(r, Needs(r), ttl)]
    <3>1. /\ ens' = [ens EXCEPT ![r].pc = "owns"]
          /\ ownPath' = [ownPath EXCEPT ![ens[r].path] = r] /\ ownBranch' = ens[r].path
          /\ UNCHANGED gitVars /\ ens[r].pc = "inspect"
      BY <1>10, <2>2 DEF Adopt, Owns, EnsureGoes, Ensuring
    <3>2. leases'[r].resources = Needs(r)
      BY <2>2, PrunedTables DEF Lease, WorktreeInv, LeaseInv
    <3>3. EnsureInv'
      BY <2>1, <3>1 DEF gitVars, WorktreeInv, EnsureInv, Needs
    <3>4. OwnerInv'
      BY <2>1, <3>1, <3>2 DEF gitVars, WorktreeInv, EnsureInv, OwnerInv, Needs
    <3> QED
      BY <2>1, <3>3, <3>4 DEF WorktreeInv
  <2>3. CASE EnsureGoes(r, "idle") /\ Unleased /\ UNCHANGED ownVars
    <3>1. EnsureInv'
      BY <1>10, <2>1, <2>3 DEF Adopt, EnsureGoes, Ensuring, gitVars, ownVars, WorktreeInv, EnsureInv, Needs
    <3>2. OwnerInv'
      BY <1>10, <2>1, <2>3 DEF Adopt, EnsureGoes, Ensuring, gitVars, ownVars, WorktreeInv, EnsureInv, OwnerInv, Needs
    <3> QED
      BY <2>1, <3>1, <3>2 DEF WorktreeInv
  <2> QED
    BY <1>10, <2>2, <2>3 DEF Adopt
<1>11. CASE LosesOwners
  <2>1. LeaseInv'
    BY <1>11, LeaseInductive DEF LosesOwners, Unleased, WorktreeInv
  <2> QED
    BY <1>11, <2>1 DEF LosesOwners, Unleased, leaseVars, gitVars, WorktreeInv, EnsureInv, OwnerInv, Needs, Alive
<1>12. CASE Tick /\ UNCHANGED <<gitVars, ownVars, ens>>
  <2>1. LeaseInv'
    BY <1>12, LeaseInductive DEF LeaseNext, WorktreeInv
  <2>2. \A k \in LeaseIds : Alive(k)' => Alive(k) /\ leases'[k] = leases[k]
    BY <1>12, Lasting DEF Tick, WorktreeInv, LeaseInv, LeaseTypeOK
  <2> QED
    BY <1>12, <2>1, <2>2 DEF Tick, gitVars, ownVars, WorktreeInv, EnsureInv, OwnerInv, Needs
<1> QED
  BY <1>1, <1>2, <1>3, <1>4, <1>5, <1>6, <1>7, <1>8, <1>9, <1>10, <1>11, <1>12 DEF WorktreesNext

\* Two runs never own worktrees of one task version while both their leases last.
THEOREM WorktreesAreOwnedOnce == WorktreesSpec => []WorktreeIsOwnedOnce
<1> USE WorktreesAssumption, LeaseAssumption
<1>1. WorktreesInit => WorktreeInv
  <2> SUFFICES ASSUME WorktreesInit PROVE WorktreeInv
    OBVIOUS
  <2>1. LeaseInv
    BY DEF WorktreesInit, LeaseInit, LeaseInv, LeaseTypeOK, TablesAgree
  <2>2. (CHOOSE p \in Paths : TRUE) \in Paths
    OBVIOUS
  <2> QED
    BY <2>1, <2>2 DEF WorktreesInit, WorktreeInv, EnsureInv, OwnerInv, EnsurePcs
<1>2. WorktreeInv => WorktreeIsOwnedOnce
  <2> SUFFICES ASSUME WorktreeInv PROVE WorktreeIsOwnedOnce
    OBVIOUS
  <2>1. ASSUME NEW p \in Paths, ownPath[p] # NoLease, Alive(ownPath[p])
        PROVE  index[p] = ownPath[p] /\ index[TaskResource] = ownPath[p]
    BY <2>1 DEF WorktreeInv, LeaseInv, EnsureInv, OwnerInv, TablesAgree, Needs, Alive
  <2>2. ASSUME NEW p \in Paths, ownPath[p] # NoLease PROVE p \in disk /\ branch
    BY <2>2 DEF WorktreeInv, EnsureInv, OwnerInv
  <2> QED
    BY <2>1, <2>2 DEF WorktreeIsOwnedOnce, WorktreeInv, LeaseInv, OwnerInv
<1> QED
  BY <1>1, <1>2, WorktreeInductive, PTL DEF WorktreesSpec

(***************************************************************************)
(* The domain repository in SQLite.  Numbers first: the rows a page has,   *)
(* counted, and the loop that counts them one by one.                      *)
(***************************************************************************)
\* A set of numbers has a least one, so that what holds at a and passes from each
\* number to the next holds up to b.
LEMMA LeastNumber ==
  ASSUME NEW T \in SUBSET Nat, T # {}
  PROVE  \E x \in T : \A y \in T : x <= y
<1> DEFINE R == OpToRel(<, Nat)
<1>1. IsWellFoundedOn(R, Nat)
  BY NatLessThanWellFounded
<1>2. \A x, y \in Nat : y < x => <<y, x>> \in R
  BY DEF OpToRel
<1> HIDE DEF R
<1>3. T \subseteq Nat
  OBVIOUS
<1>4. \E x \in T : \A y \in T : ~ (<<y, x>> \in R)
  BY <1>1, <1>3, WFMin
<1>5. PICK x \in T : \A y \in T : ~ (<<y, x>> \in R)
  BY <1>4
<1>6. ASSUME NEW y \in T PROVE x <= y
  <2>1. x \in Nat /\ y \in Nat
    BY <1>3
  <2>2. ~ (<<y, x>> \in R)
    BY <1>5
  <2>3. y < x => <<y, x>> \in R
    BY <1>2, <2>1
  <2> QED BY <2>1, <2>2, <2>3
<1> QED BY <1>6

LEMMA Counting ==
  ASSUME NEW a \in Nat, NEW b \in Nat, NEW S, a \in S,
         \A i \in a..(b - 1) : i \in S => i + 1 \in S
  PROVE  a..b \subseteq S
<1> DEFINE T == (a..b) \ S
<1> SUFFICES ASSUME T # {} PROVE FALSE
  OBVIOUS
<1>1. PICK x \in T : \A y \in T : x <= y
  <2>1. T \in SUBSET Nat OBVIOUS
  <2> HIDE DEF T
  <2> QED BY <2>1, LeastNumber
<1>2. x # a
  OBVIOUS
<1>3. x - 1 \in a..(b - 1) /\ x - 1 \notin T
  BY <1>1, <1>2
<1>4. x - 1 \in S
  BY <1>3
<1> QED BY <1>3, <1>4

\* The rank of a row k: how many rows of R there are up to it.
Upto(R, k) == {j \in R : j <= k}
Rank(R, k) == Cardinality(Upto(R, k))

\* Ranks are numbers; they grow by one at each row, and so reach every number up to
\* the number of rows.
LEMMA RankIsNumber ==
  ASSUME NEW L \in Nat, NEW R \in SUBSET (1..L), NEW k \in Nat
  PROVE  /\ IsFiniteSet(R) /\ IsFiniteSet(Upto(R, k))
         /\ Rank(R, k) \in Nat
<1>1. IsFiniteSet(1..L)
  BY FS_Interval
<1>2. IsFiniteSet(R) /\ Upto(R, k) \in SUBSET R
  BY <1>1, FS_Subset DEF Upto
<1>3. IsFiniteSet(Upto(R, k))
  BY <1>2, FS_Subset
<1> QED BY <1>2, <1>3, FS_CardinalityType DEF Rank

LEMMA RankGrows ==
  ASSUME NEW L \in Nat, NEW R \in SUBSET (1..L), NEW k \in Nat
  PROVE  Rank(R, k + 1) = Rank(R, k) + (IF k + 1 \in R THEN 1 ELSE 0)
<1>0. \A j \in R : j \in Nat
  OBVIOUS
<1>1. IsFiniteSet(Upto(R, k)) /\ Rank(R, k) \in Nat
  BY RankIsNumber
<1>2. CASE k + 1 \in R
  <2>1. Upto(R, k + 1) = Upto(R, k) \cup {k + 1} /\ k + 1 \notin Upto(R, k)
    <3>1. \A j \in R : j <= k + 1 <=> j <= k \/ j = k + 1
      BY <1>0
    <3>2. ~(k + 1 <= k)
      OBVIOUS
    <3> QED BY <1>2, <3>1, <3>2 DEF Upto
  <2> QED BY <1>1, <1>2, <2>1, FS_AddElement DEF Rank
<1>3. CASE k + 1 \notin R
  <2>1. Upto(R, k + 1) = Upto(R, k)
    <3>1. \A j \in R : j <= k + 1 <=> j <= k
      BY <1>0, <1>3
    <3> QED BY <3>1 DEF Upto
  <2> QED BY <1>1, <1>3, <2>1 DEF Rank
<1> QED BY <1>2, <1>3

LEMMA RankIncreases ==
  ASSUME NEW L \in Nat, NEW R \in SUBSET (1..L), NEW i \in Nat, NEW j \in Nat, i <= j
  PROVE  /\ Rank(R, i) <= Rank(R, j)
         /\ i # j /\ j \in R => Rank(R, i) < Rank(R, j)
<1>0. \A m \in R : m \in Nat
  OBVIOUS
<1>1. IsFiniteSet(Upto(R, j)) /\ Upto(R, i) \in SUBSET Upto(R, j)
  <2>1. \A m \in R : m <= i => m <= j
    BY <1>0
  <2> QED BY <2>1, RankIsNumber DEF Upto
<1>2. Rank(R, i) <= Rank(R, j) /\ (Rank(R, i) = Rank(R, j) => Upto(R, i) = Upto(R, j))
  BY <1>1, FS_Subset DEF Rank
<1>3. i # j /\ j \in R => Upto(R, i) # Upto(R, j)
  BY <1>0 DEF Upto
<1>4. Rank(R, i) \in Nat /\ Rank(R, j) \in Nat
  BY RankIsNumber
<1> QED BY <1>2, <1>3, <1>4

LEMMA RankIsReached ==
  ASSUME NEW L \in Nat, NEW R \in SUBSET (1..L), NEW k \in Nat, NEW n \in 1..Rank(R, k)
  PROVE  \E i \in R : i <= k /\ Rank(R, i) = n
<1> DEFINE S == {m \in Nat : n <= Rank(R, m) => \E i \in R : i <= m /\ Rank(R, i) = n}
<1>0. Rank(R, k) \in Nat /\ n \in Nat /\ n >= 1
  <2>1. Rank(R, k) \in Nat
    BY RankIsNumber
  <2> QED BY <2>1
<1>1. 0 \in S
  <2>1. Upto(R, 0) = {}
    <3>1. \A j \in R : ~(j <= 0)
      OBVIOUS
    <3> QED BY <3>1 DEF Upto
  <2>2. Rank(R, 0) = 0
    BY <2>1, FS_EmptySet DEF Rank
  <2> QED BY <1>0, <2>2
<1>2. ASSUME NEW m \in 0..(k - 1), m \in S PROVE m + 1 \in S
  <2>0. m \in Nat /\ m + 1 \in Nat OBVIOUS
  <2>1. Rank(R, m + 1) = Rank(R, m) + (IF m + 1 \in R THEN 1 ELSE 0) /\ Rank(R, m) \in Nat
    BY <2>0, RankGrows, RankIsNumber
  <2>2. CASE n <= Rank(R, m)
    <3>1. PICK i \in R : i <= m /\ Rank(R, i) = n
      BY <1>2, <2>2
    <3>2. i <= m + 1
      BY <3>1
    <3> QED BY <2>0, <3>1, <3>2
  <2>3. CASE ~(n <= Rank(R, m)) /\ n <= Rank(R, m + 1)
    <3>1. m + 1 \in R /\ Rank(R, m + 1) = n
      BY <1>0, <2>1, <2>3
    <3> QED BY <2>0, <3>1
  <2>4. CASE ~(n <= Rank(R, m + 1))
    BY <2>0, <2>4
  <2> QED BY <2>2, <2>3, <2>4
<1>3. k \in S
  <2>0. 0 \in Nat OBVIOUS
  <2> HIDE DEF S
  <2>1. 0..k \subseteq S
    BY <1>1, <1>2, <2>0, Counting
  <2> QED BY <2>1
<1> QED BY <1>0, <1>3

\* The row of rank n, and what it is.
RowAt(R, n) == CHOOSE i \in R : Rank(R, i) = n

LEMMA RowOfRank ==
  ASSUME NEW L \in Nat, NEW R \in SUBSET (1..L), NEW i \in R
  PROVE  RowAt(R, Rank(R, i)) = i
<1> SUFFICES ASSUME NEW j \in R, Rank(R, j) = Rank(R, i) PROVE j = i
  BY DEF RowAt
<1>1. i \in Nat /\ j \in Nat
  OBVIOUS
<1>2. Rank(R, i) \in Nat /\ Rank(R, j) \in Nat
  BY <1>1, RankIsNumber
<1>3. CASE i < j
  <2>1. i <= j /\ i # j
    BY <1>1, <1>3
  <2>2. Rank(R, i) < Rank(R, j)
    BY <1>1, <2>1, RankIncreases
  <2> QED BY <1>2, <2>2
<1>4. CASE j < i
  <2>1. j <= i /\ i # j
    BY <1>1, <1>4
  <2>2. Rank(R, j) < Rank(R, i)
    BY <1>1, <2>1, RankIncreases
  <2> QED BY <1>2, <2>2
<1> QED BY <1>1, <1>3, <1>4

LEMMA RowIsRanked ==
  ASSUME NEW L \in Nat, NEW R \in SUBSET (1..L), NEW k \in Nat, NEW n \in 1..Rank(R, k)
  PROVE  RowAt(R, n) \in R /\ RowAt(R, n) <= k /\ Rank(R, RowAt(R, n)) = n
<1>1. PICK i \in R : i <= k /\ Rank(R, i) = n
  BY RankIsReached
<1> QED BY <1>1, RowOfRank

\* The first rows, as many as the limit, have the ranks they had.
Firsts(R, limit) == {i \in R : Rank(R, i) <= limit}

LEMMA FirstsAreRanked ==
  ASSUME NEW L \in Nat, NEW R \in SUBSET (1..L), NEW limit \in Nat
  PROVE  /\ Firsts(R, limit) \in SUBSET (1..L)
         /\ \A i \in Firsts(R, limit) : Rank(Firsts(R, limit), i) = Rank(R, i)
         /\ Cardinality(Firsts(R, limit)) = IF Rank(R, L) < limit THEN Rank(R, L) ELSE limit
         /\ \A n \in Nat : 1 <= n /\ n <= limit /\ n <= Rank(R, L) => RowAt(Firsts(R, limit), n) = RowAt(R, n)
<1> DEFINE F == Firsts(R, limit)
<1>1. F \in SUBSET (1..L)
  BY DEF Firsts
<1>2. ASSUME NEW i \in F PROVE Rank(F, i) = Rank(R, i)
  <2>1. i \in R /\ i \in Nat /\ Rank(R, i) <= limit
    BY DEF Firsts
  <2>2. ASSUME NEW j \in R, j <= i PROVE j \in F
    <3>0. j \in Nat
      OBVIOUS
    <3>1. Rank(R, j) <= Rank(R, i)
      BY <2>1, <2>2, <3>0, RankIncreases
    <3>2. Rank(R, i) \in Nat /\ Rank(R, j) \in Nat
      BY <2>1, <3>0, RankIsNumber
    <3> QED BY <2>1, <3>1, <3>2 DEF Firsts
  <2>3. Upto(F, i) = Upto(R, i)
    BY <2>2 DEF Upto, Firsts
  <2> QED BY <2>3 DEF Rank
<1>3. Cardinality(F) = Rank(F, L)
  <2>1. Upto(F, L) = F
    BY <1>1 DEF Upto
  <2> QED BY <2>1 DEF Rank
<1>4. ASSUME NEW n \in Nat, 1 <= n, n <= limit, n <= Rank(R, L)
      PROVE  /\ RowAt(R, n) \in F /\ Rank(F, RowAt(R, n)) = n
             /\ RowAt(F, n) = RowAt(R, n)
  <2>0. n \in 1..Rank(R, L)
    BY <1>4, RankIsNumber
  <2>1. RowAt(R, n) \in R /\ Rank(R, RowAt(R, n)) = n
    BY <2>0, RowIsRanked
  <2>2. RowAt(R, n) \in F
    BY <1>4, <2>1 DEF Firsts
  <2>3. Rank(F, RowAt(R, n)) = n
    BY <1>2, <2>1, <2>2
  <2> HIDE DEF F
  <2> QED BY <1>1, <2>2, <2>3, RowOfRank
<1>5. Rank(F, L) = IF Rank(R, L) < limit THEN Rank(R, L) ELSE limit
  <2> DEFINE m == IF Rank(R, L) < limit THEN Rank(R, L) ELSE limit
  <2>0. Rank(R, L) \in Nat /\ m \in Nat /\ m <= limit /\ m <= Rank(R, L) /\ Rank(F, L) \in Nat
    <3>1. Rank(R, L) \in Nat
      BY RankIsNumber
    <3>2. Rank(F, L) \in Nat
      <4> HIDE DEF F
      <4> QED BY <1>1, RankIsNumber
    <3> QED BY <3>1, <3>2
  <2>1. m <= Rank(F, L)
    <3>1. CASE m = 0
      BY <2>0, <3>1
    <3>2. CASE m # 0
      <4>1. RowAt(R, m) \in F /\ Rank(F, RowAt(R, m)) = m
        BY <1>4, <2>0, <3>2
      <4>2. RowAt(R, m) \in Nat /\ RowAt(R, m) <= L
        BY <1>1, <4>1
      <4> HIDE DEF F, m
      <4> QED BY <1>1, <4>1, <4>2, RankIncreases
    <3> QED BY <3>1, <3>2
  <2>2. Rank(F, L) <= m
    <3>1. CASE Rank(F, L) = 0
      BY <2>0, <3>1
    <3>2. CASE Rank(F, L) # 0
      <4>0. Rank(F, L) \in 1..Rank(F, L)
        BY <2>0, <3>2
      <4>1. PICK i \in F : i <= L /\ Rank(F, i) = Rank(F, L)
        <5> HIDE DEF F
        <5> QED BY <1>1, <4>0, RankIsReached
      <4>2. i \in R /\ i \in Nat /\ Rank(R, i) <= limit /\ Rank(R, i) = Rank(F, L)
        BY <1>2, <4>1 DEF Firsts
      <4>3. Rank(R, i) <= Rank(R, L)
        BY <4>1, <4>2, RankIncreases
      <4> QED BY <2>0, <4>2, <4>3
    <3> QED BY <3>1, <3>2
  <2> HIDE DEF m
  <2>3. Rank(F, L) = m
    BY <2>0, <2>1, <2>2
  <2> QED BY <2>3 DEF m
<1> QED BY <1>1, <1>2, <1>3, <1>4, <1>5

Lesser(m, n) == IF m < n THEN m ELSE n

\* The page of the loop once it is at index i.
PageAt(events, R, limit, i) ==
  [selected |-> [n \in 1..Lesser(Rank(R, i), limit) |-> events[RowAt(R, n)]],
   index |-> IF Rank(R, i) < limit THEN i ELSE RowAt(R, limit)]
LoopStep(events, R, limit, before, i) ==
  IF Len(before.selected) = limit THEN before
  ELSE [selected |-> IF i \in R THEN Append(before.selected, events[i]) ELSE before.selected,
        index |-> i]

\* A page is a sequence of the events of its rows.
LEMMA PageIsSequence ==
  ASSUME NEW S, NEW events \in Seq(S), NEW R \in SUBSET (1..Len(events)),
         NEW limit \in Nat, NEW i \in 0..Len(events)
  PROVE  /\ PageAt(events, R, limit, i).selected \in Seq(S)
         /\ Len(PageAt(events, R, limit, i).selected) = Lesser(Rank(R, i), limit)
         /\ \A n \in 1..Lesser(Rank(R, i), limit) :
              /\ PageAt(events, R, limit, i).selected[n] = events[RowAt(R, n)]
              /\ RowAt(R, n) \in R
<1> DEFINE k == Lesser(Rank(R, i), limit)
           s == [n \in 1..k |-> events[RowAt(R, n)]]
<1>0. Rank(R, i) \in Nat /\ i \in Nat
  <2>1. Len(events) \in Nat /\ i \in Nat
    BY LenProperties
  <2> QED BY <2>1, RankIsNumber
<1>1. k \in Nat /\ k <= Rank(R, i)
  BY <1>0 DEF Lesser
<1>2. \A n \in 1..k : RowAt(R, n) \in R
  <2> TAKE n \in 1..k
  <2>1. n \in 1..Rank(R, i)
    BY <1>0, <1>1
  <2>2. Len(events) \in Nat
    BY LenProperties
  <2> QED BY <1>0, <2>1, <2>2, RowIsRanked
<1>3. \A n \in 1..k : events[RowAt(R, n)] \in S
  <2>1. \A m \in 1..Len(events) : events[m] \in S
    BY ElementOfSeq
  <2> QED BY <1>2, <2>1
<1> HIDE DEF k
<1>4. s \in Seq(S) /\ Len(s) = k
  BY <1>1, <1>3
<1>5. PageAt(events, R, limit, i).selected = s
  BY DEF PageAt, k
<1> QED BY <1>2, <1>4, <1>5 DEF k

LEMMA SameSequence ==
  ASSUME NEW S, NEW s \in Seq(S), NEW t \in Seq(S), Len(s) = Len(t),
         \A n \in 1..Len(s) : s[n] = t[n]
  PROVE  s = t
BY SeqEqual

\* A page is what one turn of the loop makes of the page before it.
LEMMA LoopSteps ==
  ASSUME NEW S, NEW events \in Seq(S), NEW R \in SUBSET (1..Len(events)),
         NEW limit \in Nat, NEW i \in 1..Len(events)
  PROVE  PageAt(events, R, limit, i) = LoopStep(events, R, limit, PageAt(events, R, limit, i - 1), i)
<1> DEFINE before == PageAt(events, R, limit, i - 1)
           now == PageAt(events, R, limit, i)
<1>0. i \in Nat /\ i - 1 \in Nat /\ i - 1 \in 0..Len(events) /\ i \in 0..Len(events)
      /\ Len(events) \in Nat /\ (i - 1) + 1 = i
  BY LenProperties
<1>1. /\ Rank(R, i - 1) \in Nat /\ Rank(R, i) \in Nat
      /\ Rank(R, i) = Rank(R, i - 1) + (IF i \in R THEN 1 ELSE 0)
  <2>1. Rank(R, (i - 1) + 1) = Rank(R, i - 1) + (IF (i - 1) + 1 \in R THEN 1 ELSE 0)
    <3> DEFINE k == i - 1
    <3>1. k \in Nat /\ Len(events) \in Nat
      BY <1>0
    <3> HIDE DEF k
    <3>2. Rank(R, k + 1) = Rank(R, k) + (IF k + 1 \in R THEN 1 ELSE 0)
      BY <3>1, RankGrows
    <3> QED BY <3>2 DEF k
  <2>2. Rank(R, i - 1) \in Nat /\ Rank(R, i) \in Nat
    BY <1>0, RankIsNumber
  <2> QED BY <1>0, <2>1, <2>2
<1>2. Len(before.selected) = Lesser(Rank(R, i - 1), limit)
  BY <1>0, PageIsSequence
<1>3. CASE Rank(R, i - 1) >= limit
  <2>1. Len(before.selected) = limit
    BY <1>1, <1>2, <1>3 DEF Lesser
  <2>2. Rank(R, i) >= limit
    BY <1>1, <1>3
  <2>3. Lesser(Rank(R, i), limit) = limit /\ Lesser(Rank(R, i - 1), limit) = limit
    BY <1>1, <1>3, <2>2 DEF Lesser
  <2>4. now = before
    <3>1. ~(Rank(R, i) < limit) /\ ~(Rank(R, i - 1) < limit)
      BY <1>1, <1>3, <2>2
    <3>2. 1..Lesser(Rank(R, i), limit) = 1..Lesser(Rank(R, i - 1), limit)
      BY <2>3
    <3> QED BY <3>1, <3>2, Zenon DEF PageAt
  <2> QED BY <2>1, <2>4 DEF LoopStep
<1>4. CASE Rank(R, i - 1) < limit
  <2>1. Len(before.selected) = Rank(R, i - 1) /\ Len(before.selected) # limit
    BY <1>1, <1>2, <1>4 DEF Lesser
  <2>2. before.selected \in Seq(S)
    BY <1>0, PageIsSequence
  <2>3. now.selected \in Seq(S) /\ Len(now.selected) = Lesser(Rank(R, i), limit)
    BY <1>0, PageIsSequence
  <2>4. Lesser(Rank(R, i), limit) = Rank(R, i)
    BY <1>1, <1>4 DEF Lesser
  <2>5. \A n \in 1..Rank(R, i) : now.selected[n] = events[RowAt(R, n)]
    BY <1>0, <2>4, PageIsSequence
  <2>6. \A n \in 1..Rank(R, i - 1) : before.selected[n] = events[RowAt(R, n)]
    <3>1. Lesser(Rank(R, i - 1), limit) = Rank(R, i - 1)
      BY <1>1, <1>4 DEF Lesser
    <3> QED BY <1>0, <3>1, PageIsSequence
  <2>7. now.index = i
    <3>1. CASE Rank(R, i) < limit
      BY <3>1 DEF PageAt
    <3>2. CASE ~(Rank(R, i) < limit)
      <4>1. i \in R /\ Rank(R, i) = limit
        BY <1>1, <1>4, <3>2
      <4>2. RowAt(R, limit) = i
        BY <1>0, <4>1, RowOfRank
      <4> QED BY <3>2, <4>2 DEF PageAt
    <3> QED BY <3>1, <3>2
  <2>8. CASE i \in R
    <3> DEFINE more == Append(before.selected, events[i])
    <3>1. events[i] \in S
      BY ElementOfSeq
    <3>2. RowAt(R, Rank(R, i)) = i /\ Rank(R, i) = Rank(R, i - 1) + 1
      BY <1>0, <1>1, <2>8, RowOfRank
    <3> HIDE DEF before, now
    <3>3. /\ more \in Seq(S) /\ Len(more) = Rank(R, i)
          /\ \A n \in 1..Rank(R, i - 1) : more[n] = before.selected[n]
          /\ more[Rank(R, i)] = events[i]
      BY <2>1, <2>2, <3>1, <3>2, AppendProperties
    <3>4. \A n \in 1..Rank(R, i) : now.selected[n] = more[n]
      <4> TAKE n \in 1..Rank(R, i)
      <4>1. CASE n = Rank(R, i)
        BY <2>5, <3>2, <3>3, <4>1
      <4>2. CASE n # Rank(R, i)
        <5>1. n \in 1..Rank(R, i - 1)
          BY <1>1, <3>2, <4>2
        <5> QED BY <2>5, <2>6, <3>3, <5>1
      <4> QED BY <4>1, <4>2
    <3> HIDE DEF more
    <3>5. now.selected = more
      BY <2>3, <2>4, <3>3, <3>4, SameSequence
    <3>6. now = [selected |-> now.selected, index |-> now.index]
      BY DEF PageAt, now
    <3> QED BY <2>1, <2>7, <2>8, <3>5, <3>6 DEF LoopStep, before, now, more
  <2>9. CASE i \notin R
    <3>1. Rank(R, i) = Rank(R, i - 1)
      BY <1>1, <2>9
    <3> HIDE DEF before, now
    <3>2. now.selected = before.selected
      BY <2>1, <2>2, <2>3, <2>4, <2>5, <2>6, <3>1, SameSequence
    <3>6. now = [selected |-> now.selected, index |-> now.index]
      BY DEF PageAt, now
    <3> QED BY <2>1, <2>7, <2>9, <3>2, <3>6 DEF LoopStep, before, now
  <2> QED BY <2>8, <2>9
<1> QED BY <1>1, <1>3, <1>4

\* f is what the loop has at every index from c.
Loops(f, events, R, limit, c) ==
  f = [i \in c..Len(events) |-> IF i = c THEN [selected |-> <<>>, index |-> i]
                                ELSE LoopStep(events, R, limit, f[i - 1], i)]

\* The pages are such a function ...
LEMMA PagesLoop ==
  ASSUME NEW S, NEW events \in Seq(S), NEW R \in SUBSET (1..Len(events)),
         NEW limit \in Nat \ {0}, NEW c \in 0..Len(events), \A i \in R : i > c
  PROVE  /\ Loops([i \in c..Len(events) |-> PageAt(events, R, limit, i)], events, R, limit, c)
         /\ PageAt(events, R, limit, c) = [selected |-> <<>>, index |-> c]
<1> DEFINE pages == [i \in c..Len(events) |-> PageAt(events, R, limit, i)]
<1>0. Len(events) \in Nat /\ c \in Nat /\ c <= Len(events)
  BY LenProperties
<1>1. PageAt(events, R, limit, c) = [selected |-> <<>>, index |-> c]
  <2>1. Upto(R, c) = {}
    <3>1. \A i \in R : ~(i <= c)
      BY <1>0
    <3> QED BY <3>1 DEF Upto
  <2>2. Rank(R, c) = 0
    BY <2>1, FS_EmptySet DEF Rank
  <2>3. Rank(R, c) < limit /\ Lesser(Rank(R, c), limit) = 0
    BY <2>2 DEF Lesser
  <2>4. PageAt(events, R, limit, c).selected = <<>>
    <3>1. PageAt(events, R, limit, c).selected \in Seq(S) /\ Len(PageAt(events, R, limit, c).selected) = 0
      <4>1. limit \in Nat
        OBVIOUS
      <4>2. /\ PageAt(events, R, limit, c).selected \in Seq(S)
            /\ Len(PageAt(events, R, limit, c).selected) = Lesser(Rank(R, c), limit)
        BY <4>1, PageIsSequence
      <4> QED BY <2>3, <4>2
    <3> QED BY <3>1, EmptySeq
  <2>5. PageAt(events, R, limit, c).index = c
    BY <2>3 DEF PageAt
  <2> QED BY <2>4, <2>5 DEF PageAt
<1>2. \A i \in c..Len(events) : pages[i] = IF i = c THEN [selected |-> <<>>, index |-> i]
                                      ELSE LoopStep(events, R, limit, pages[i - 1], i)
  <2> TAKE i \in c..Len(events)
  <2>1. CASE i = c
    BY <1>0, <1>1, <2>1
  <2>2. CASE i # c
    <3>1. i \in 1..Len(events) /\ i - 1 \in c..Len(events)
      BY <1>0, <2>2
    <3>2. pages[i] = PageAt(events, R, limit, i) /\ pages[i - 1] = PageAt(events, R, limit, i - 1)
      BY <3>1
    <3>3. PageAt(events, R, limit, i) = LoopStep(events, R, limit, PageAt(events, R, limit, i - 1), i)
      BY <3>1, LoopSteps
    <3> HIDE DEF pages
    <3> QED BY <2>2, <3>2, <3>3
  <2> QED BY <2>1, <2>2
<1>3. pages = [i \in c..Len(events) |-> pages[i]]
  OBVIOUS
<1>4. Loops(pages, events, R, limit, c)
  <2> HIDE DEF pages
  <2> QED BY <1>2, <1>3 DEF Loops
<1> QED BY <1>1, <1>4

\* ... and no other is, by induction on the index.
LEMMA LoopIsPages ==
  ASSUME NEW S, NEW events \in Seq(S), NEW R \in SUBSET (1..Len(events)),
         NEW limit \in Nat \ {0}, NEW c \in 0..Len(events), \A i \in R : i > c,
         NEW scan, Loops(scan, events, R, limit, c)
  PROVE  scan[Len(events)] = PageAt(events, R, limit, Len(events))
<1>0. Len(events) \in Nat /\ c \in Nat /\ c <= Len(events)
  BY LenProperties
<1>1. \A i \in c..Len(events) : scan[i] = IF i = c THEN [selected |-> <<>>, index |-> i]
                                      ELSE LoopStep(events, R, limit, scan[i - 1], i)
  BY DEF Loops
<1> DEFINE same == {i \in Nat : scan[i] = PageAt(events, R, limit, i)}
<1>2. c \in same
  <2>1. PageAt(events, R, limit, c) = [selected |-> <<>>, index |-> c]
    BY PagesLoop
  <2>2. c \in c..Len(events)
    BY <1>0
  <2> QED BY <1>0, <1>1, <2>1, <2>2
<1>3. ASSUME NEW i \in c..(Len(events) - 1), i \in same PROVE i + 1 \in same
  <2>1. /\ i + 1 \in c..Len(events) /\ i + 1 # c /\ i + 1 \in 1..Len(events)
        /\ (i + 1) - 1 = i /\ i + 1 \in Nat
    BY <1>0
  <2>2. scan[i] = PageAt(events, R, limit, i)
    BY <1>3
  <2>3. scan[i + 1] = LoopStep(events, R, limit, scan[(i + 1) - 1], i + 1)
    BY <1>1, <2>1
  <2>4. PageAt(events, R, limit, i + 1) = LoopStep(events, R, limit, PageAt(events, R, limit, (i + 1) - 1), i + 1)
    BY <2>1, LoopSteps
  <2> QED BY <2>1, <2>2, <2>3, <2>4
<1>4. Len(events) \in same
  <2> HIDE DEF same
  <2>1. c..Len(events) \subseteq same
    BY <1>0, <1>2, <1>3, Counting
  <2> QED BY <1>0, <2>1
<1> QED BY <1>4

(***************************************************************************)
(* The requests, the database and the transaction.                         *)
(***************************************************************************)
StatusNames == {"none", "open", "done", "fixed", "SUPERSEDED", "ACTIVE"}
Values == [status : StatusNames, predecessor : {"none", "s1"}]
Changes == {FirstScope[2]} \cup {scope[2] : scope \in StoreScopes}
DomainEvents == [change : Changes, record : RecordIds, revision : Nat]

\* What the writers write, and the requests they send.
BodyIsTyped(b) ==
  /\ DOMAIN b.writes \subseteq RecordIds
  /\ \A r \in DOMAIN b.writes : /\ b.writes[r] \in Values /\ b.writes[r].status # "none"
                                /\ r \in Immutable => b.writes[r].status = "fixed"
  /\ b.about \in Seq(RecordIds)

LEMMA BodiesAreTyped ==
  /\ \A b \in Bodies : BodyIsTyped(b)
  /\ BodyIsTyped(Body([task |-> Value("open", "none"), s1 |-> Value("ACTIVE", "none")],
                      <<"task", "s1">>, FALSE))
<1>0. \A x, y \in RecordIds : <<x>> \in Seq(RecordIds) /\ <<x, y>> \in Seq(RecordIds)
  OBVIOUS
<1> USE DEF BodyIsTyped, Value, Values, StatusNames, Immutable, RecordIds
<1>1. ASSUME NEW b, b = Body([task |-> Value("done", "none"), version |-> Value("fixed", "none")],
                             <<"task", "version">>, TRUE)
      PROVE  BodyIsTyped(b)
  <2>1. /\ b.writes = [task |-> Value("done", "none"), version |-> Value("fixed", "none")]
        /\ b.about = <<"task", "version">>
    BY <1>1 DEF Body
  <2>2. DOMAIN b.writes = {"task", "version"}
    BY <2>1
  <2>3. b.writes["task"] = Value("done", "none") /\ b.writes["version"] = Value("fixed", "none")
    BY <2>1
  <2> QED BY <1>0, <2>1, <2>2, <2>3
<1>2. ASSUME NEW b, b = Body([s1 |-> Value("SUPERSEDED", "none"), s2 |-> Value("ACTIVE", "s1")],
                             <<"s1", "s2">>, FALSE)
      PROVE  BodyIsTyped(b)
  <2>1. /\ b.writes = [s1 |-> Value("SUPERSEDED", "none"), s2 |-> Value("ACTIVE", "s1")]
        /\ b.about = <<"s1", "s2">>
    BY <1>2 DEF Body
  <2>2. DOMAIN b.writes = {"s1", "s2"}
    BY <2>1
  <2>3. b.writes["s1"] = Value("SUPERSEDED", "none") /\ b.writes["s2"] = Value("ACTIVE", "s1")
    BY <2>1
  <2> QED BY <1>0, <2>1, <2>2, <2>3
<1>3. ASSUME NEW b, b = Body([s2 |-> Value("ACTIVE", "s1")], <<"s2">>, FALSE)
      PROVE  BodyIsTyped(b)
  <2>1. b.writes = [s2 |-> Value("ACTIVE", "s1")] /\ b.about = <<"s2">>
    BY <1>3 DEF Body
  <2>2. DOMAIN b.writes = {"s2"}
    BY <2>1
  <2>3. b.writes["s2"] = Value("ACTIVE", "s1")
    BY <2>1
  <2> QED BY <1>0, <2>1, <2>2, <2>3
<1>4. ASSUME NEW b, b = Body(<<>>, <<"task">>, TRUE)
      PROVE  BodyIsTyped(b)
  <2>1. b.writes = <<>> /\ b.about = <<"task">>
    BY <1>4 DEF Body
  <2>2. DOMAIN b.writes = {}
    BY <2>1
  <2> QED BY <1>0, <2>1, <2>2
<1>5. ASSUME NEW b, b = Body([task |-> Value("open", "none"), s1 |-> Value("ACTIVE", "none")],
                             <<"task", "s1">>, FALSE)
      PROVE  BodyIsTyped(b)
  <2>1. /\ b.writes = [task |-> Value("open", "none"), s1 |-> Value("ACTIVE", "none")]
        /\ b.about = <<"task", "s1">>
    BY <1>5 DEF Body
  <2>2. DOMAIN b.writes = {"task", "s1"}
    BY <2>1
  <2>3. b.writes["task"] = Value("open", "none") /\ b.writes["s1"] = Value("ACTIVE", "none")
    BY <2>1
  <2> QED BY <1>0, <2>1, <2>2, <2>3
<1> QED
  <2> HIDE DEF BodyIsTyped, Value, Values, StatusNames, Immutable, RecordIds
  <2> QED BY <1>1, <1>2, <1>3, <1>4, <1>5, Zenon DEF Bodies

StoreRequests == {RequestFrom(scope, b, revisions, cursor) :
  scope \in StoreScopes, b \in Bodies, revisions \in [RecordIds -> Nat], cursor \in Nat}
RequestIsTyped(q) ==
  /\ Written(q) \subseteq RecordIds
  /\ \A r \in Written(q) : /\ q.writes[r] \in Values /\ q.writes[r].status # "none"
                           /\ r \in Immutable => q.writes[r].status = "fixed"
                           /\ q.expected[r] \in Nat
  /\ q.events \in Seq(DomainEvents)
  /\ \A i \in DOMAIN q.events : q.events[i].record \in Written(q) =>
                                  q.expected[q.events[i].record] + 1 = q.events[i].revision

LEMMA FunctionIsSequence ==
  ASSUME NEW S, NEW n \in Nat, NEW f, f = [i \in 1..n |-> f[i]], \A i \in 1..n : f[i] \in S
  PROVE  f \in Seq(S) /\ Len(f) = n /\ DOMAIN f = 1..n
<1>1. f \in [1..n -> S]
  OBVIOUS
<1> QED BY <1>1

LEMMA RequestsAreTyped ==
  ASSUME NEW scope, scope[2] \in Changes, NEW b, BodyIsTyped(b), NEW revisions \in [RecordIds -> Nat], NEW cursor \in Nat
  PROVE  RequestIsTyped(RequestFrom(scope, b, revisions, cursor))
<1> DEFINE q == RequestFrom(scope, b, revisions, cursor)
<1>1. /\ q.writes = b.writes /\ q.expected = [r \in DOMAIN b.writes |-> revisions[r]]
      /\ q.events = [i \in DOMAIN b.about |->
                       [change |-> scope[2], record |-> b.about[i],
                        revision |-> revisions[b.about[i]]
                                     + (IF b.about[i] \in DOMAIN b.writes THEN 1 ELSE 0)]]
  BY DEF RequestFrom
<1>2. b.about \in Seq(RecordIds) /\ Len(b.about) \in Nat /\ DOMAIN b.about = 1..Len(b.about)
      /\ \A i \in 1..Len(b.about) : b.about[i] \in RecordIds
  BY LenProperties, ElementOfSeq DEF BodyIsTyped
<1>3. \A i \in 1..Len(b.about) : q.events[i] \in DomainEvents
  BY <1>1, <1>2 DEF DomainEvents
<1>4. q.events \in Seq(DomainEvents) /\ DOMAIN q.events = 1..Len(b.about)
  <2>1. q.events = [i \in 1..Len(b.about) |-> q.events[i]]
    BY <1>1, <1>2
  <2> HIDE DEF q
  <2> QED BY <1>2, <1>3, <2>1, FunctionIsSequence
<1> HIDE DEF q
<1>5. \A i \in DOMAIN q.events : q.events[i].record \in Written(q) =>
                                  q.expected[q.events[i].record] + 1 = q.events[i].revision
  BY <1>1, <1>2, <1>4 DEF Written
<1> QED BY <1>1, <1>4, <1>5 DEF RequestIsTyped, BodyIsTyped, Written, q

\* What is committed: the column is that of the value, and the sessions fit together.
RowRecords == [revision : Nat, value : Values, status : StatusNames]
RowIsSound(r, row) ==
  /\ row \in RowRecords
  /\ row.status = ProjectRecord(r, row.value)
  /\ row.revision = 0 => row.value.status = "none"
  /\ r \in Immutable => row.value.status \in {"none", "fixed"}
StoredBindings(rows) == [s \in {s \in Bindings : rows[s].revision > 0} |-> rows[s].value]
DatabaseIsSound ==
  /\ database.rows \in [RecordIds -> RowRecords]
  /\ \A r \in RecordIds : RowIsSound(r, database.rows[r])
  /\ database.events \in Seq(DomainEvents)
  /\ \A r \in RecordIds : database.rows[r].revision <= Len(database.events)
  /\ ValidBindings(StoredBindings(database.rows))

\* The checks of a commit, over any rows and events.
ProspectiveIn(rows, q) ==
  [s \in {s \in Bindings : rows[s].revision > 0 \/ s \in Written(q)} |->
     IF s \in Written(q) THEN q.writes[s] ELSE rows[s].value]
KnownIn(events, e) == \E i \in DOMAIN events : events[i].change = e.change /\ events[i].record = e.record
FitsIn(rows, events, q) ==
  /\ WellFormed(q)
  /\ q.cursor \in {NoCursor, Len(events)}
  /\ \A r \in Written(q) : /\ rows[r].revision = q.expected[r]
                           /\ r \in Immutable => ~(rows[r].revision > 0)
  /\ ValidBindings(ProspectiveIn(rows, q))
  /\ \A i \in DOMAIN q.events :
       /\ ~KnownIn(events, q.events[i])
       /\ q.events[i].record \notin Written(q) =>
            /\ rows[q.events[i].record].revision > 0
            /\ rows[q.events[i].record].revision = q.events[i].revision

\* Between BEGIN and COMMIT the transaction has its own view: the rows already written and
\* the events already appended over those of the database, which stay as they are.
WriterRecords == [at : {"idle", "asked", "answered"}, request : StoreRequests \cup {<<>>},
                  outcome : Outcomes \cup {"none"}]
WritersAreTyped ==
  /\ writers \in [StoreWriters -> WriterRecords]
  /\ \A w \in StoreWriters : writers[w].at # "idle" => writers[w].request \in StoreRequests

TxRecords == [writer : StoreWriters, at : {"checking", "writing"}, rows : [RecordIds -> RowRecords],
              events : Seq(DomainEvents), unwritten : SUBSET RecordIds]
WrittenRow(q, r) == RowOf(q.expected[r] + 1, q.writes[r], ProjectRecord(r, q.writes[r]))
TxChecks == tx.at = "checking" => /\ tx.rows = database.rows /\ tx.events = database.events
                                  /\ tx.unwritten = Written(Request)
TxWrites ==
  tx.at = "writing" =>
    /\ Request.key \notin DOMAIN database.receipts
    /\ FitsIn(database.rows, database.events, Request)
    /\ tx.unwritten \subseteq Written(Request)
    /\ tx.rows = [r \in RecordIds |-> IF r \in Written(Request) \ tx.unwritten
                                      THEN WrittenRow(Request, r) ELSE database.rows[r]]
    /\ Len(database.events) <= Len(tx.events)
    /\ Appended <= Len(Request.events)
    /\ \A i \in 1..Len(tx.events) :
         tx.events[i] = IF i <= Len(database.events) THEN database.events[i]
                        ELSE Request.events[i - Len(database.events)]
TxIsSound == tx # NoTx => /\ tx \in TxRecords /\ writers[tx.writer].at = "asked"
                          /\ TxChecks /\ TxWrites

ReaderIsTyped == reader \in [cursor : 0..Len(database.events), seen : Seq(DomainEvents),
                             listed : SUBSET RecordIds]
StoreInv == DatabaseIsSound /\ WritersAreTyped /\ TxIsSound /\ ReaderIsTyped

\* The memory speaks of requests in the same words.
LEMMA SameWords ==
  /\ InMemory!RecordIds = RecordIds /\ InMemory!Bindings = Bindings
  /\ InMemory!Immutable = Immutable /\ InMemory!NoCursor = NoCursor
  /\ InMemory!Bodies = Bodies /\ InMemory!First = First /\ InMemory!NoRecord = NoRecord
  /\ \A q : InMemory!Written(q) = Written(q) /\ (InMemory!WellFormed(q) <=> WellFormed(q))
  /\ \A v : InMemory!ValidBindings(v) <=> ValidBindings(v)
  /\ \A scope, b, revisions, cursor : InMemory!RequestFrom(scope, b, revisions, cursor)
                                        = RequestFrom(scope, b, revisions, cursor)
<1>1. InMemory!RecordIds = RecordIds
  BY DEF InMemory!RecordIds, RecordIds
<1>2. InMemory!Bindings = Bindings /\ InMemory!Immutable = Immutable
  BY DEF InMemory!Bindings, Bindings, InMemory!Immutable, Immutable
<1>3. \A a, b : InMemory!Value(a, b) = Value(a, b)
  BY DEF InMemory!Value, Value
<1>4. InMemory!NoCursor = NoCursor /\ InMemory!NoRecord = NoRecord
  BY <1>3 DEF InMemory!NoCursor, NoCursor, InMemory!NoRecord, NoRecord
<1>5. \A writes, about, cursor : InMemory!Body(writes, about, cursor) = Body(writes, about, cursor)
  BY DEF InMemory!Body, Body
<1>6. InMemory!Bodies = Bodies
  BY <1>3, <1>5 DEF InMemory!Bodies, Bodies
<1>7. \A scope, b, revisions, cursor : InMemory!RequestFrom(scope, b, revisions, cursor)
                                        = RequestFrom(scope, b, revisions, cursor)
  BY <1>4 DEF InMemory!RequestFrom, RequestFrom
<1>8. InMemory!First = First
  BY <1>1, <1>3, <1>5, <1>7 DEF InMemory!First, First
<1>9. \A q : InMemory!Written(q) = Written(q)
  BY DEF InMemory!Written, Written
<1>10. \A q : InMemory!WellFormed(q) <=> WellFormed(q)
  BY <1>9 DEF InMemory!WellFormed, WellFormed
<1>11. \A v : InMemory!ValidBindings(v) <=> ValidBindings(v)
  <2>1. \A T : InMemory!Cardinality(T) = Cardinality(T)
    BY DEF InMemory!Cardinality, Cardinality
  <2> QED BY <2>1 DEF InMemory!ValidBindings, ValidBindings
<1> QED BY <1>1, <1>2, <1>4, <1>6, <1>7, <1>8, <1>9, <1>10, <1>11

\* The words of the memory, in terms of the database.
LEMMA MemoryIs ==
  ASSUME NEW q, RequestIsTyped(q), DatabaseIsSound
  PROVE  InMemory!Possible(q) <=> FitsIn(database.rows, database.events, q)
<1>0. Written(q) \subseteq RecordIds /\ \A i \in DOMAIN q.events : q.events[i].record \in RecordIds
  <2>1. \A i \in DOMAIN q.events : q.events[i] \in DomainEvents
    BY ElementOfSeq, LenProperties DEF RequestIsTyped
  <2> QED BY <2>1 DEF RequestIsTyped, DomainEvents
<1>1. \A r \in RecordIds : InMemory!Stored(r) <=> database.rows[r].revision > 0
  BY DEF InMemory!Stored
<1>2. \A e : InMemory!HasEvent(e) <=> KnownIn(database.events, e)
  BY DEF InMemory!HasEvent, KnownIn
<1>3. Bindings \subseteq RecordIds
  BY DEF Bindings, RecordIds
<1>4. InMemory!Prospective(q) = ProspectiveIn(database.rows, q)
  <2>1. {s \in Bindings : InMemory!Stored(s) \/ s \in Written(q)}
        = {s \in Bindings : database.rows[s].revision > 0 \/ s \in Written(q)}
    BY <1>1, <1>3
  <2> QED BY <1>3, <2>1, SameWords DEF InMemory!Prospective, ProspectiveIn
<1>5. \A r \in RecordIds : [rr \in RecordIds |-> [revision |-> database.rows[rr].revision,
                                  value |-> database.rows[rr].value]][r].revision = database.rows[r].revision
  OBVIOUS
<1>6. InMemory!Possible(q) <=>
        /\ WellFormed(q)
        /\ q.cursor \in {NoCursor, Len(database.events)}
        /\ \A r \in Written(q) : /\ database.rows[r].revision = q.expected[r]
                                 /\ r \in Immutable => ~(database.rows[r].revision > 0)
        /\ ValidBindings(InMemory!Prospective(q))
        /\ \A i \in DOMAIN q.events :
             /\ ~InMemory!HasEvent(q.events[i])
             /\ q.events[i].record \notin Written(q) =>
                  /\ database.rows[q.events[i].record].revision > 0
                  /\ database.rows[q.events[i].record].revision = q.events[i].revision
  BY <1>0, <1>1, <1>5, SameWords DEF InMemory!Possible
<1> QED BY <1>2, <1>4, <1>6 DEF FitsIn

\* The checks of the transaction are those of the memory.
LEMMA ChecksAgree ==
  ASSUME DatabaseIsSound, tx.rows = database.rows, tx.events = database.events,
         RequestIsTyped(Request)
  PROVE  Valid <=> FitsIn(database.rows, database.events, Request)
<1> DEFINE q == Request
<1>0. RequestIsTyped(q) /\ Written(q) \subseteq RecordIds
  BY DEF RequestIsTyped
<1>1. CursorHolds <=> q.cursor \in {NoCursor, Len(database.events)}
  BY DEF CursorHolds
<1>2. RecordsPrepared <=> \A r \in Written(q) : /\ database.rows[r].revision = q.expected[r]
                                                /\ r \in Immutable => ~(database.rows[r].revision > 0)
  BY DEF RecordsPrepared
<1>3. EventsValidated <=> \A i \in DOMAIN q.events :
                   /\ ~KnownIn(database.events, q.events[i])
                   /\ q.events[i].record \notin Written(q) =>
                        /\ database.rows[q.events[i].record].revision > 0
                        /\ database.rows[q.events[i].record].revision = q.events[i].revision
  <2>1. \A i \in DOMAIN q.events : q.events[i].record \in Written(q) =>
                                  q.expected[q.events[i].record] + 1 = q.events[i].revision
    BY <1>0 DEF RequestIsTyped
  <2>2. \A e : KnownIn(database.events, e) <=> ~ \A j \in DOMAIN database.events :
           <<database.events[j].change, database.events[j].record>> # <<e.change, e.record>>
    BY DEF KnownIn
  <2> HIDE DEF q
  <2> QED BY <2>1, <2>2 DEF EventsValidated, q
<1>4. BindingsValidated <=> ValidBindings(ProspectiveIn(database.rows, q))
  <2> DEFINE pending == Written(q) \cap Bindings
             existing == {s \in Bindings \ pending : database.rows[s].revision > 0}
             all == [s \in pending \cup existing |->
                        IF s \in pending THEN q.writes[s] ELSE database.rows[s].value]
  <2>1. BindingsValidated <=> pending = {} \/ ValidBindings(all)
    BY DEF BindingsValidated
  <2>2. pending \cup existing = {s \in Bindings : database.rows[s].revision > 0 \/ s \in Written(q)}
    OBVIOUS
  <2>3. all = ProspectiveIn(database.rows, q)
    <3>1. \A s \in pending \cup existing : s \in pending <=> s \in Written(q)
      OBVIOUS
    <3> HIDE DEF pending, existing, q
    <3> QED BY <2>2, <3>1 DEF ProspectiveIn
  <2>4. pending = {} => all = StoredBindings(database.rows)
    <3>1. pending = {} => pending \cup existing = {s \in Bindings : database.rows[s].revision > 0}
      OBVIOUS
    <3> QED BY <3>1 DEF StoredBindings
  <2> HIDE DEF all, pending, existing, q
  <2> QED BY <2>1, <2>3, <2>4 DEF DatabaseIsSound
<1> HIDE DEF q
<1>5. Valid <=> WellFormed(q) /\ CursorHolds /\ RecordsPrepared /\ BindingsValidated /\ EventsValidated
  BY DEF Valid, q
<1> QED BY <1>1, <1>2, <1>3, <1>4, <1>5 DEF FitsIn, q

\* The page of the query is the page of the loop.
LEMMA PagesAgree ==
  ASSUME StoreInv, ListDomainEvents
  PROVE  InMemory!ReadPage /\ ReaderIsTyped'
<1> DEFINE events == database.events
           c == reader.cursor
           L == Len(events)
           R == {i \in DOMAIN events : i > c /\ AboutTask(i)}
           F == Firsts(R, PageLimit)
           page == PageAt(events, R, PageLimit, L)
<1>0. /\ events \in Seq(DomainEvents) /\ L \in Nat /\ DOMAIN events = 1..L
      /\ c \in 0..L /\ PageLimit \in Nat \ {0}
  BY LenProperties, StoreAssumption DEF StoreInv, DatabaseIsSound, ReaderIsTyped
<1>1. R \in SUBSET (1..L) /\ \A i \in R : i > c
  BY <1>0
<1>2. Selected = F
  BY DEF Selected, Firsts, Rank, Upto
<1>3. InSequence(F) = [n \in 1..Cardinality(F) |-> RowAt(F, n)]
  BY DEF InSequence, RowAt, Rank, Upto
<1>4. Rank(R, L) \in Nat
  <2> HIDE DEF R, L
  <2> QED BY <1>0, <1>1, RankIsNumber
<1>5. /\ F \in SUBSET (1..L)
      /\ Cardinality(F) = Lesser(Rank(R, L), PageLimit)
      /\ \A n \in Nat : 1 <= n /\ n <= PageLimit /\ n <= Rank(R, L) => RowAt(F, n) = RowAt(R, n)
  <2> HIDE DEF R, L
  <2> QED BY <1>0, <1>1, FirstsAreRanked DEF Lesser
<1>6. InSequence(Selected) = [n \in 1..Lesser(Rank(R, L), PageLimit) |-> RowAt(R, n)]
      /\ Len(InSequence(Selected)) = Lesser(Rank(R, L), PageLimit)
  <2> DEFINE k == Lesser(Rank(R, L), PageLimit)
  <2>1. k \in Nat /\ k <= PageLimit /\ k <= Rank(R, L)
    BY <1>0, <1>4 DEF Lesser
  <2> HIDE DEF R, L, F, k
  <2>2. \A n \in 1..k : RowAt(F, n) = RowAt(R, n)
    BY <1>0, <1>4, <1>5, <2>1
  <2>3. InSequence(Selected) = [n \in 1..k |-> RowAt(R, n)]
    BY <1>2, <1>3, <1>5, <2>2 DEF k
  <2>4. Len([n \in 1..k |-> RowAt(R, n)]) = k
    BY <2>1
  <2> QED BY <2>3, <2>4 DEF k
<1>7. page.selected = [i \in 1..Len(InSequence(Selected)) |-> events[InSequence(Selected)[i]]]
  <2> HIDE DEF R, L, events
  <2>1. page.selected = [n \in 1..Lesser(Rank(R, L), PageLimit) |-> events[RowAt(R, n)]]
    BY DEF PageAt
  <2> QED BY <1>6, <2>1
<1>8. page.index = IF Len(InSequence(Selected)) = PageLimit THEN InSequence(Selected)[Len(InSequence(Selected))] ELSE L
  <2> HIDE DEF R, L, events
  <2>1. page.index = IF Rank(R, L) < PageLimit THEN L ELSE RowAt(R, PageLimit)
    BY DEF PageAt
  <2>2. CASE Rank(R, L) < PageLimit
    <3>1. Lesser(Rank(R, L), PageLimit) # PageLimit
      BY <1>0, <1>4, <2>2 DEF Lesser
    <3> QED BY <1>6, <2>1, <2>2, <3>1
  <2>3. CASE ~(Rank(R, L) < PageLimit)
    <3>1. Lesser(Rank(R, L), PageLimit) = PageLimit /\ PageLimit \in 1..PageLimit
      BY <1>0, <1>4, <2>3 DEF Lesser
    <3> QED BY <1>6, <2>1, <2>3, <3>1
  <2> QED BY <2>2, <2>3
<1>9. InMemory!Scan = page
  <2> DEFINE Loop(f) == f = [i \in c..L |->
                IF i = c THEN [selected |-> <<>>, index |-> i]
                ELSE IF Len(f[i - 1].selected) = PageLimit THEN f[i - 1]
                     ELSE [selected |-> IF InMemory!OfTask(events[i])
                                        THEN Append(f[i - 1].selected, events[i])
                                        ELSE f[i - 1].selected,
                           index |-> i]]
             scan == CHOOSE f : Loop(f)
  <2>1. InMemory!Scan = scan[L]
    BY DEF InMemory!Scan
  <2>2. \A i \in c..L : i # c => (InMemory!OfTask(events[i]) <=> i \in R)
    BY <1>0 DEF InMemory!OfTask, AboutTask
  <2>3. ASSUME NEW f PROVE Loop(f) <=> Loops(f, events, R, PageLimit, c)
    <3> DEFINE e1 == [i \in c..L |->
                IF i = c THEN [selected |-> <<>>, index |-> i]
                ELSE IF Len(f[i - 1].selected) = PageLimit THEN f[i - 1]
                     ELSE [selected |-> IF InMemory!OfTask(events[i])
                                        THEN Append(f[i - 1].selected, events[i])
                                        ELSE f[i - 1].selected,
                           index |-> i]]
               e2 == [i \in c..L |-> IF i = c THEN [selected |-> <<>>, index |-> i]
                                ELSE LoopStep(events, R, PageLimit, f[i - 1], i)]
    <3>1. ASSUME NEW i \in c..L PROVE e1[i] = e2[i]
      <4>1. CASE i = c
        BY <4>1
      <4>2. CASE i # c
        <5>1. InMemory!OfTask(events[i]) <=> i \in R
          BY <2>2, <4>2
        <5> HIDE DEF R, L, events, c
        <5> QED BY <4>2, <5>1 DEF LoopStep
      <4> QED BY <4>1, <4>2
    <3>2. e1 = e2
      <4>1. e1 = [i \in c..L |-> e1[i]] /\ e2 = [i \in c..L |-> e2[i]]
        OBVIOUS
      <4> HIDE DEF e1, e2, c, L
      <4> QED BY <3>1, <4>1
    <3>3. Loop(f) <=> f = e1
      OBVIOUS
    <3>4. Loops(f, events, R, PageLimit, c) <=> f = e2
      BY DEF Loops
    <3> QED BY <3>2, <3>3, <3>4
  <2> HIDE DEF Loop, R, events
  <2>4. \E f : Loop(f)
    <3> HIDE DEF c
    <3> QED BY <1>0, <1>1, <2>3, PagesLoop
  <2>5. Loop(scan)
    BY <2>4
  <2> HIDE DEF scan, c
  <2>6. Loops(scan, events, R, PageLimit, c)
    BY <2>3, <2>5
  <2>7. scan[L] = page
    BY <1>0, <1>1, <2>6, LoopIsPages
  <2> QED BY <2>1, <2>7
<1>10. reader' = [reader EXCEPT !.seen = @ \o page.selected, !.cursor = page.index]
       /\ UNCHANGED <<database, writers>>
  <2> HIDE DEF page
  <2> QED BY <1>7, <1>8 DEF ListDomainEvents
<1>11. page.selected \in Seq(DomainEvents) /\ page.index \in 0..L
  <2> HIDE DEF R, L, events
  <2>1. page.selected \in Seq(DomainEvents)
    <3>1. R \in SUBSET (1..Len(events)) /\ Len(events) \in 0..Len(events) /\ PageLimit \in Nat
      BY <1>0, <1>1 DEF L
    <3>2. PageAt(events, R, PageLimit, Len(events)).selected \in Seq(DomainEvents)
      BY <1>0, <3>1, PageIsSequence
    <3> QED BY <3>2 DEF L
  <2>4. page.index = IF Rank(R, L) < PageLimit THEN L ELSE RowAt(R, PageLimit)
    BY DEF PageAt
  <2> HIDE DEF page
  <2>2. CASE Rank(R, L) < PageLimit
    <3>1. L \in 0..L
      BY <1>0
    <3> QED BY <2>1, <2>2, <2>4, <3>1
  <2>3. CASE ~(Rank(R, L) < PageLimit)
    <3>1. PageLimit \in 1..Rank(R, L)
      BY <1>0, <1>4, <2>3
    <3>2. RowAt(R, PageLimit) \in R
      BY <1>0, <1>1, <3>1, RowIsRanked
    <3>3. RowAt(R, PageLimit) \in 0..L
      <4>1. \A x \in 1..L : x \in 0..L
        BY <1>0
      <4> QED BY <1>1, <3>2, <4>1
    <3> QED BY <2>1, <2>3, <2>4, <3>3
  <2> QED BY <2>1, <2>2, <2>3
<1> HIDE DEF page
<1>12. InMemory!ReadPage
  BY <1>9, <1>10 DEF InMemory!ReadPage
<1>13. ReaderIsTyped'
  <2>1. reader.seen \o page.selected \in Seq(DomainEvents)
    BY <1>11, ConcatProperties DEF StoreInv, ReaderIsTyped
  <2> QED BY <1>10, <1>11, <2>1 DEF StoreInv, ReaderIsTyped
<1> QED BY <1>12, <1>13

LEMMA StoreRequestsAreTyped == \A q \in StoreRequests : RequestIsTyped(q)
<1> TAKE q \in StoreRequests
<1>1. PICK scope \in StoreScopes, b \in Bodies, revisions \in [RecordIds -> Nat], cursor \in Nat :
        q = RequestFrom(scope, b, revisions, cursor)
  BY DEF StoreRequests
<1>2. scope[2] \in Changes /\ BodyIsTyped(b)
  BY BodiesAreTyped DEF Changes
<1> QED BY <1>1, <1>2, RequestsAreTyped

\* An open transaction serves a typed request.
LEMMA OpenRequest ==
  ASSUME WritersAreTyped, TxIsSound, tx # NoTx
  PROVE  /\ tx \in TxRecords /\ tx.writer \in StoreWriters
         /\ writers[tx.writer].at = "asked" /\ Request = writers[tx.writer].request
         /\ Request \in StoreRequests /\ RequestIsTyped(Request)
<1>1. tx \in TxRecords /\ tx.writer \in StoreWriters /\ writers[tx.writer].at = "asked"
  BY DEF TxIsSound, TxRecords
<1>2. Request \in StoreRequests /\ Request = writers[tx.writer].request
  BY <1>1 DEF Request, WritersAreTyped
<1> QED BY <1>1, <1>2, StoreRequestsAreTyped

\* A row that is written is sound.
LEMMA RowsOfWrites ==
  ASSUME NEW q, RequestIsTyped(q), NEW r \in Written(q)
  PROVE  RowIsSound(r, WrittenRow(q, r)) /\ WrittenRow(q, r).revision > 0
         /\ WrittenRow(q, r).value = q.writes[r]
         /\ WrittenRow(q, r).revision = q.expected[r] + 1
<1>1. q.writes[r] \in Values /\ q.writes[r].status \in StatusNames /\ q.writes[r].status # "none" /\ q.expected[r] \in Nat
      /\ (r \in Immutable => q.writes[r].status = "fixed")
  BY DEF RequestIsTyped, Values
<1>2. ProjectRecord(r, q.writes[r]) \in StatusNames
  BY <1>1 DEF ProjectRecord, StatusNames
<1> QED BY <1>1, <1>2 DEF RowIsSound, WrittenRow, RowOf, RowRecords

LEMMA StoreStarts == StoreInit => StoreInv /\ InMemory!MemoryInit
<1> SUFFICES ASSUME StoreInit PROVE StoreInv /\ InMemory!MemoryInit
  OBVIOUS
<1> DEFINE body == Body([task |-> Value("open", "none"), s1 |-> Value("ACTIVE", "none")],
                        <<"task", "s1">>, FALSE)
           zero == [r \in RecordIds |-> 0]
<1>1. First = RequestFrom(FirstScope, body, zero, 0)
  BY DEF First
<1>2. RequestIsTyped(First)
  <2>1. FirstScope[2] \in Changes /\ BodyIsTyped(body) /\ zero \in [RecordIds -> Nat]
    BY BodiesAreTyped DEF Changes
  <2> HIDE DEF body, zero
  <2> QED BY <1>1, <2>1, RequestsAreTyped
<1>3. First.writes = [task |-> Value("open", "none"), s1 |-> Value("ACTIVE", "none")]
  BY <1>1 DEF RequestFrom, Body
<1>4. Written(First) = {"task", "s1"} /\ First.writes["s1"] = Value("ACTIVE", "none") /\ First.writes["task"] = Value("open", "none")
  BY <1>3 DEF Written
<1>5. /\ database.rows = [r \in RecordIds |->
                    IF r \in Written(First) THEN RowOf(1, First.writes[r], First.writes[r].status)
                    ELSE RowOf(0, NoRecord.value, "none")]
      /\ database.events = First.events /\ database.receipts = WithReceipt(<<>>, First)
      /\ tx = NoTx
      /\ writers = [w \in StoreWriters |-> [at |-> "idle", request |-> <<>>, outcome |-> "none"]]
      /\ reader = [cursor |-> 0, seen |-> <<>>, listed |-> {}]
  BY DEF StoreInit
<1>6. \A r \in RecordIds : RowIsSound(r, database.rows[r])
  <2> TAKE r \in RecordIds
  <2>1. CASE r \in Written(First)
    BY <1>4, <1>5, <2>1 DEF RowIsSound, RowRecords, RowOf, ProjectRecord, Values, Value, StatusNames, Immutable
  <2>2. CASE r \notin Written(First)
    BY <1>5, <2>2 DEF RowIsSound, RowRecords, RowOf, ProjectRecord, Values, Value, StatusNames, Immutable, NoRecord
  <2> QED BY <2>1, <2>2
<1>7. database.rows \in [RecordIds -> RowRecords]
  BY <1>5, <1>6 DEF RowIsSound
<1>8. ValidBindings(StoredBindings(database.rows))
  <2> DEFINE b == StoredBindings(database.rows)
  <2>1. DOMAIN b = {"s1"}
    BY <1>4, <1>5 DEF StoredBindings, RowOf, Bindings, RecordIds, NoRecord
  <2>2. b["s1"] = Value("ACTIVE", "none")
    BY <1>4, <1>5 DEF StoredBindings, RowOf, Bindings, RecordIds
  <2> HIDE DEF b
  <2>3. {s \in DOMAIN b : b[s].status = "ACTIVE"} = {"s1"}
    BY <2>1, <2>2 DEF Value
  <2>4. Cardinality({"s1"}) = 1
    BY FS_Singleton
  <2>5. ValidBindings(b)
    BY <2>1, <2>2, <2>3, <2>4 DEF ValidBindings, Value
  <2> QED BY <2>5 DEF b
<1>9. DatabaseIsSound
  <2>1. Len(First.events) = 2
    BY <1>1 DEF RequestFrom, Body
  <2>2. \A r \in RecordIds : database.rows[r].revision <= Len(database.events)
    BY <1>5, <2>1 DEF RowOf
  <2> QED BY <1>2, <1>5, <1>6, <1>7, <1>8, <2>2 DEF DatabaseIsSound, RequestIsTyped
<1>10. WritersAreTyped
  BY <1>5 DEF WritersAreTyped, WriterRecords
<1>11. TxIsSound
  BY <1>5 DEF TxIsSound
<1>12. ReaderIsTyped
  <2>1. Len(database.events) \in Nat
    BY <1>9, LenProperties DEF DatabaseIsSound
  <2>2. <<>> \in Seq(DomainEvents)
    OBVIOUS
  <2> QED BY <1>5, <2>1, <2>2 DEF ReaderIsTyped
<1>13. InMemory!MemoryInit
  <2>1. [r \in RecordIds |-> [revision |-> database.rows[r].revision, value |-> database.rows[r].value]]
        = [r \in RecordIds |->
                  IF r \in Written(First) THEN [revision |-> 1, value |-> First.writes[r]]
                  ELSE NoRecord]
    <3>1. ASSUME NEW r \in RecordIds
          PROVE [revision |-> database.rows[r].revision, value |-> database.rows[r].value]
                = IF r \in Written(First) THEN [revision |-> 1, value |-> First.writes[r]] ELSE NoRecord
      BY <1>5 DEF RowOf, NoRecord
    <3> QED BY <3>1
  <2>2. InMemory!WithReceipt(<<>>, First) = WithReceipt(<<>>, First)
    BY DEF InMemory!WithReceipt, WithReceipt
  <2> QED BY <1>5, <2>1, <2>2, SameWords DEF InMemory!MemoryInit
<1> QED BY <1>9, <1>10, <1>11, <1>12, <1>13 DEF StoreInv

\* What leaves a part alone keeps it sound.
LEMMA DatabaseKept ==
  DatabaseIsSound /\ UNCHANGED database => DatabaseIsSound'
BY DEF DatabaseIsSound

LEMMA ReaderKept ==
  ReaderIsTyped /\ UNCHANGED <<database, reader>> => ReaderIsTyped'
BY DEF ReaderIsTyped

LEMMA TxClosed == tx' = NoTx => TxIsSound'
BY DEF TxIsSound, NoTx

\* A writer other than that of the transaction goes on.
LEMMA TxKept ==
  ASSUME TxIsSound, UNCHANGED <<database, tx>>,
         tx # NoTx => writers'[tx.writer] = writers[tx.writer]
  PROVE  TxIsSound'
<1>1. CASE tx = NoTx
  BY <1>1 DEF TxIsSound, NoTx
<1>2. CASE tx # NoTx
  <2>1. tx' = tx /\ database' = database /\ writers'[tx.writer] = writers[tx.writer]
    BY <1>2
  <2>2. Request' = Request /\ Appended' = Appended
    BY <2>1 DEF Request, Appended
  <2>3. tx \in TxRecords /\ writers[tx.writer].at = "asked" /\ TxChecks /\ TxWrites
    BY <1>2 DEF TxIsSound
  <2>4. TxChecks'
    BY <2>1, <2>2, <2>3 DEF TxChecks
  <2>5. TxWrites'
    BY <2>1, <2>2, <2>3 DEF TxWrites
  <2> QED BY <2>1, <2>3, <2>4, <2>5 DEF TxIsSound
<1> QED BY <1>1, <1>2

\* An answer is the same for both.
LEMMA WriterAnswered ==
  ASSUME WritersAreTyped, NEW w \in StoreWriters, writers[w].at # "idle",
         NEW outcome \in Outcomes, AnswerTo(w, outcome)
  PROVE  WritersAreTyped' /\ InMemory!AnswerIs(w, outcome)
<1> DEFINE new == [writers[w] EXCEPT !.at = "answered", !.outcome = outcome]
<1>1. writers' = [writers EXCEPT ![w] = new]
  BY DEF AnswerTo
<1>2. writers[w] \in WriterRecords /\ writers[w].request \in StoreRequests
  BY DEF WritersAreTyped
<1>3. new \in WriterRecords /\ new.request = writers[w].request
  BY <1>2 DEF WriterRecords
<1>4. InMemory!AnswerIs(w, outcome)
  BY DEF AnswerTo, InMemory!AnswerIs
<1> HIDE DEF new
<1> QED BY <1>1, <1>2, <1>3, <1>4 DEF WritersAreTyped

\* The writers ask.
LEMMA WriterSteps ==
  ASSUME StoreInv, NEW w \in StoreWriters, Compose(w) \/ Repeat(w)
  PROVE  StoreInv' /\ (InMemory!Ask(w) \/ InMemory!AskAgain(w))
<1> USE DEF StoreInv
<1>0. UNCHANGED <<database, tx, reader>>
  BY DEF Compose, Repeat
<1>1. DatabaseIsSound' /\ ReaderIsTyped'
  BY <1>0, DatabaseKept, ReaderKept
<1>2. CASE Compose(w)
  <2>1. PICK scope \in StoreScopes, b \in Bodies :
         writers' = [writers EXCEPT ![w] =
                     [at |-> "asked", outcome |-> "none",
                      request |-> RequestFrom(scope, b, [r \in RecordIds |-> database.rows[r].revision],
                                              Len(database.events))]]
    BY <1>2 DEF Compose
  <2> DEFINE revisions == [r \in RecordIds |-> database.rows[r].revision]
             q == RequestFrom(scope, b, revisions, Len(database.events))
             new == [at |-> "asked", outcome |-> "none", request |-> q]
  <2>2. revisions \in [RecordIds -> Nat] /\ Len(database.events) \in Nat
    <3>1. \A r \in RecordIds : database.rows[r].revision \in Nat
      BY DEF DatabaseIsSound, RowRecords
    <3> QED BY <3>1, LenProperties DEF DatabaseIsSound
  <2>3. q \in StoreRequests
    <3> HIDE DEF revisions
    <3> QED BY <2>2 DEF StoreRequests
  <2> HIDE DEF q, revisions
  <2>4. new \in WriterRecords /\ new.request \in StoreRequests
    BY <2>3 DEF WriterRecords
  <2>5. writers' = [writers EXCEPT ![w] = new]
    BY <2>1 DEF q, revisions
  <2>6. WritersAreTyped'
    <3> HIDE DEF new
    <3> QED BY <2>4, <2>5 DEF WritersAreTyped
  <2>7. tx = NoTx
    BY <1>2 DEF Compose
  <2>8. TxIsSound'
    BY <1>0, <2>7, TxClosed
  <2>9. InMemory!Ask(w)
    <3>1. InMemory!Revisions = revisions
      BY SameWords DEF InMemory!Revisions, revisions
    <3>2. writers[w].at = "idle"
      BY <1>2 DEF Compose
    <3>3. writers' = [writers EXCEPT ![w] =
                     [at |-> "asked", outcome |-> "none",
                      request |-> InMemory!RequestFrom(scope, b, InMemory!Revisions, Len(database.events))]]
      BY <2>5, <3>1, SameWords DEF q
    <3>4. b \in InMemory!Bodies
      BY SameWords
    <3> QED BY <1>0, <3>2, <3>3, <3>4 DEF InMemory!Ask
  <2> QED BY <1>1, <2>6, <2>8, <2>9
<1>3. CASE Repeat(w)
  <2> DEFINE new == [writers[w] EXCEPT !.at = "asked", !.outcome = "none"]
  <2>1. writers' = [writers EXCEPT ![w] = new] /\ writers[w].at = "answered"
        /\ writers[w].outcome \in {"failed", "lost"}
    BY <1>3 DEF Repeat
  <2>2. writers[w] \in WriterRecords /\ writers[w].request \in StoreRequests
    BY <2>1 DEF WritersAreTyped
  <2>3. new \in WriterRecords /\ new.request = writers[w].request
    BY <2>2 DEF WriterRecords
  <2>4. InMemory!AskAgain(w)
    BY <1>0, <1>3 DEF Repeat, InMemory!AskAgain
  <2> HIDE DEF new
  <2>5. WritersAreTyped'
    BY <2>1, <2>2, <2>3 DEF WritersAreTyped
  <2>6. tx # NoTx => tx.writer # w /\ tx.writer \in StoreWriters
    BY <2>1, OpenRequest
  <2>7. tx # NoTx => writers'[tx.writer] = writers[tx.writer]
    BY <2>1, <2>6 DEF WritersAreTyped
  <2>8. TxIsSound'
    BY <1>0, <2>7, TxKept
  <2> QED BY <1>1, <2>4, <2>5, <2>8
<1> QED BY <1>2, <1>3

\* BEGIN, and the checks of an open transaction.
LEMMA CheckSteps ==
  ASSUME StoreInv, (\E w \in StoreWriters : Begin(w)) \/ Accepts
  PROVE  StoreInv' /\ UNCHANGED InMemory!memoryVars
<1> USE DEF StoreInv
<1>0. UNCHANGED <<database, writers, reader>>
  BY DEF Begin, Accepts
<1>1. DatabaseIsSound' /\ ReaderIsTyped' /\ WritersAreTyped'
  BY <1>0, DatabaseKept, ReaderKept DEF WritersAreTyped
<1>2. UNCHANGED InMemory!memoryVars
  BY <1>0 DEF InMemory!memoryVars
<1>3. CASE \E w \in StoreWriters : Begin(w)
  <2>1. PICK w \in StoreWriters : Begin(w)
    BY <1>3
  <2>2. /\ writers[w].at = "asked"
        /\ tx' = [writer |-> w, at |-> "checking", rows |-> database.rows, events |-> database.events,
                  unwritten |-> Written(writers[w].request)]
    BY <2>1 DEF Begin, Written
  <2>3. Written(writers[w].request) \subseteq RecordIds
    BY <2>2, StoreRequestsAreTyped DEF WritersAreTyped, RequestIsTyped
  <2>4. tx' \in TxRecords /\ tx'.writer = w /\ tx'.at = "checking"
        /\ tx'.rows = database.rows /\ tx'.events = database.events
        /\ tx'.unwritten = Written(writers[w].request)
    BY <2>2, <2>3 DEF TxRecords, DatabaseIsSound
  <2>5. Request' = writers[w].request
    BY <1>0, <2>4 DEF Request
  <2>6. TxChecks' /\ TxWrites'
    BY <1>0, <2>4, <2>5 DEF TxChecks, TxWrites
  <2>7. TxIsSound'
    BY <1>0, <2>2, <2>4, <2>6 DEF TxIsSound
  <2> QED BY <1>1, <1>2, <2>7
<1>4. CASE Accepts
  <2>0. tx # NoTx /\ tx.at = "checking"
    BY <1>4 DEF Accepts, InTx
  <2>1. /\ tx \in TxRecords /\ writers[tx.writer].at = "asked"
        /\ RequestIsTyped(Request)
        /\ tx.rows = database.rows /\ tx.events = database.events /\ tx.unwritten = Written(Request)
    BY <2>0, OpenRequest DEF TxIsSound, TxChecks
  <2>2. Request.key \notin DOMAIN database.receipts /\ Valid /\ tx' = [tx EXCEPT !.at = "writing"]
    BY <1>4 DEF Accepts
  <2>3. /\ tx' \in TxRecords /\ tx'.writer = tx.writer /\ tx'.at = "writing"
        /\ tx'.rows = database.rows /\ tx'.events = database.events /\ tx'.unwritten = Written(Request)
    BY <2>1, <2>2 DEF TxRecords
  <2>4. Request' = Request
    BY <1>0, <2>3 DEF Request
  <2>5. FitsIn(database.rows, database.events, Request)
    BY <2>1, <2>2, ChecksAgree
  <2>6. Appended' = 0 /\ Len(database.events) \in Nat /\ Len(Request.events) \in Nat
    <3>1. Len(database.events) \in Nat /\ Len(Request.events) \in Nat
      BY <2>1, LenProperties DEF DatabaseIsSound, RequestIsTyped
    <3> QED BY <1>0, <2>3, <3>1 DEF Appended
  <2>7. tx'.rows = [r \in RecordIds |-> IF r \in Written(Request) \ tx'.unwritten
                                      THEN WrittenRow(Request, r) ELSE database.rows[r]]
    <3>1. Written(Request) \ tx'.unwritten = {}
      BY <2>3
    <3>2. database.rows = [r \in RecordIds |-> database.rows[r]]
      BY DEF DatabaseIsSound
    <3> QED BY <2>3, <3>1, <3>2
  <2>8. TxWrites'
    <3>1. \A i \in 1..Len(tx'.events) : i <= Len(database.events) /\ tx'.events[i] = database.events[i]
      BY <2>3, <2>6
    <3>2. Len(database.events) <= Len(tx'.events) /\ Appended' <= Len(Request.events)
      BY <2>3, <2>6
    <3> HIDE DEF Request
    <3> QED BY <1>0, <2>2, <2>3, <2>4, <2>5, <2>7, <3>1, <3>2 DEF TxWrites
  <2>9. TxChecks'
    BY <2>3 DEF TxChecks
  <2>10. TxIsSound'
    BY <1>0, <2>1, <2>3, <2>8, <2>9 DEF TxIsSound
  <2> QED BY <1>1, <1>2, <2>10
<1> QED BY <1>3, <1>4

\* d of k events are appended to a events: there are b.
LEMMA AppendedNumbers ==
  ASSUME NEW a \in Nat, NEW b \in Nat, NEW k \in Nat, NEW d, d = b - a, a <= b
  PROVE  /\ d \in Nat /\ b = a + d
         /\ d < k => d + 1 \in 1..k
         /\ d = k => b = a + k
         /\ \A i \in 1..(b + 1) : i \notin 1..b => i = b + 1 /\ i - a = d + 1 /\ ~(i <= a)
  OBVIOUS

\* The rows and the events of an open transaction are written.
LEMMA WriteSteps ==
  ASSUME StoreInv, (\E r \in RecordIds : WriteRecord(r)) \/ AppendEventAndOutbox
  PROVE  StoreInv' /\ UNCHANGED InMemory!memoryVars
<1> USE DEF StoreInv
<1>0. UNCHANGED <<database, writers, reader>>
  BY DEF WriteRecord, AppendEventAndOutbox
<1>1. DatabaseIsSound' /\ ReaderIsTyped' /\ WritersAreTyped'
  BY <1>0, DatabaseKept, ReaderKept DEF WritersAreTyped
<1>2. UNCHANGED InMemory!memoryVars
  BY <1>0 DEF InMemory!memoryVars
<1>3. tx # NoTx /\ tx.at = "writing"
  BY DEF WriteRecord, AppendEventAndOutbox, InTx
<1>4. /\ tx \in TxRecords /\ writers[tx.writer].at = "asked" /\ RequestIsTyped(Request)
      /\ Request.key \notin DOMAIN database.receipts
      /\ FitsIn(database.rows, database.events, Request)
      /\ tx.unwritten \subseteq Written(Request)
      /\ tx.rows = [r \in RecordIds |-> IF r \in Written(Request) \ tx.unwritten
                                        THEN WrittenRow(Request, r) ELSE database.rows[r]]
      /\ Len(database.events) <= Len(tx.events)
      /\ Appended <= Len(Request.events)
      /\ \A i \in 1..Len(tx.events) :
           tx.events[i] = IF i <= Len(database.events) THEN database.events[i]
                          ELSE Request.events[i - Len(database.events)]
  BY <1>3, OpenRequest DEF TxIsSound, TxWrites
<1>5. CASE \E r \in RecordIds : WriteRecord(r)
  <2>1. PICK r \in RecordIds : WriteRecord(r)
    BY <1>5
  <2>2. /\ r \in tx.unwritten /\ r \in Written(Request)
        /\ tx' = [tx EXCEPT !.unwritten = @ \ {r}, !.rows[r] = WrittenRow(Request, r)]
    BY <1>4, <2>1 DEF WriteRecord, WrittenRow
  <2>3. WrittenRow(Request, r) \in RowRecords
    BY <1>4, <2>2, RowsOfWrites DEF RowIsSound
  <2> HIDE DEF Request
  <2>4. /\ tx' \in TxRecords /\ tx'.writer = tx.writer /\ tx'.at = "writing"
        /\ tx'.unwritten = tx.unwritten \ {r} /\ tx'.events = tx.events
        /\ tx'.rows = [tx.rows EXCEPT ![r] = WrittenRow(Request, r)]
    BY <1>3, <1>4, <2>2, <2>3 DEF TxRecords
  <2>5. Request' = Request /\ Appended' = Appended
    BY <1>0, <2>4 DEF Request, Appended
  <2>6. tx'.rows = [s \in RecordIds |-> IF s \in Written(Request) \ tx'.unwritten
                                        THEN WrittenRow(Request, s) ELSE database.rows[s]]
    BY <1>4, <2>2, <2>4
  <2>7. TxWrites' /\ TxChecks'
    BY <1>0, <1>4, <2>4, <2>5, <2>6 DEF TxWrites, TxChecks
  <2>8. TxIsSound'
    BY <1>0, <1>4, <2>4, <2>7 DEF TxIsSound
  <2> QED BY <1>1, <1>2, <2>8
<1>6. CASE AppendEventAndOutbox
  <2>1. /\ Appended < Len(Request.events)
        /\ tx' = [tx EXCEPT !.events = Append(@, Request.events[Appended + 1])]
    BY <1>6 DEF AppendEventAndOutbox
  <2>2. /\ Len(database.events) \in Nat /\ Len(Request.events) \in Nat /\ Len(tx.events) \in Nat
        /\ tx.events \in Seq(DomainEvents) /\ Request.events \in Seq(DomainEvents)
    BY <1>4, LenProperties DEF DatabaseIsSound, RequestIsTyped, TxRecords
  <2>3. Appended + 1 \in 1..Len(Request.events) /\ Len(tx.events) = Len(database.events) + Appended
        /\ Appended \in Nat
    <3>1. Appended = Len(tx.events) - Len(database.events)
      BY DEF Appended
    <3>2. Len(database.events) <= Len(tx.events) /\ Appended < Len(Request.events)
      BY <1>4, <2>1
    <3> DEFINE a == Len(database.events)
               b == Len(tx.events)
               k == Len(Request.events)
               d == Appended
    <3>3. a \in Nat /\ b \in Nat /\ k \in Nat /\ d = b - a /\ a <= b /\ d < k
      BY <2>2, <3>1, <3>2
    <3> HIDE DEF a, b, k, d, StoreInv
    <3>4. d + 1 \in 1..k /\ b = a + d /\ d \in Nat
      BY <3>3
    <3> QED BY <3>4 DEF a, b, k, d
  <2> DEFINE e == Request.events[Appended + 1]
             events == Append(tx.events, e)
  <2>4. e \in DomainEvents
    BY <2>2, <2>3, ElementOfSeq
  <2> HIDE DEF e
  <2>5. /\ events \in Seq(DomainEvents) /\ Len(events) = Len(tx.events) + 1
        /\ \A i \in 1..Len(tx.events) : events[i] = tx.events[i]
        /\ events[Len(tx.events) + 1] = e
    BY <2>2, <2>4, AppendProperties
  <2> HIDE DEF events, Request
  <2>6. /\ tx' \in TxRecords /\ tx'.writer = tx.writer /\ tx'.at = "writing"
        /\ tx'.unwritten = tx.unwritten /\ tx'.events = events /\ tx'.rows = tx.rows
    <3>1. tx' = [tx EXCEPT !.events = events]
      BY <2>1 DEF e, events
    <3> QED BY <1>3, <1>4, <2>5, <3>1 DEF TxRecords
  <2>7. Request' = Request
    BY <1>0, <2>6 DEF Request
  <2>8. Appended' = Appended + 1
    BY <1>0, <2>2, <2>3, <2>5, <2>6 DEF Appended
  <2>9. \A i \in 1..Len(events) :
           events[i] = IF i <= Len(database.events) THEN database.events[i]
                       ELSE Request.events[i - Len(database.events)]
    <3> TAKE i \in 1..Len(events)
    <3>1. CASE i \in 1..Len(tx.events)
      BY <1>4, <2>5, <3>1
    <3>2. CASE i \notin 1..Len(tx.events)
      <4>1. i = Len(tx.events) + 1 /\ i - Len(database.events) = Appended + 1 /\ ~(i <= Len(database.events))
        <5>1. i \in 1..(Len(tx.events) + 1)
          BY <2>5
        <5>2. Appended = Len(tx.events) - Len(database.events) /\ Len(database.events) <= Len(tx.events)
          BY <1>4 DEF Appended
        <5> DEFINE a == Len(database.events)
                   b == Len(tx.events)
                   d == Appended
        <5>3. a \in Nat /\ b \in Nat /\ d = b - a /\ a <= b /\ i \in 1..(b + 1) /\ i \notin 1..b
          BY <2>2, <3>2, <5>1, <5>2
        <5> HIDE DEF a, b, d, StoreInv
        <5>4. i = b + 1 /\ i - a = d + 1 /\ ~(i <= a)
          BY <5>3
        <5> QED BY <5>4 DEF a, b, d
      <4> QED BY <2>5, <4>1 DEF e
    <3> QED BY <3>1, <3>2
  <2>10. Len(database.events) <= Len(events) /\ Appended' <= Len(Request.events)
    BY <2>2, <2>3, <2>5, <2>8
  <2>11. TxWrites' /\ TxChecks'
    BY <1>0, <1>4, <2>6, <2>7, <2>9, <2>10 DEF TxWrites, TxChecks
  <2>12. TxIsSound'
    BY <1>0, <1>4, <2>6, <2>11 DEF TxIsSound
  <2> QED BY <1>1, <1>2, <2>12
<1> QED BY <1>5, <1>6

\* The transaction ends without an effect.
LEMMA EndSteps ==
  ASSUME StoreInv, ReadReplay \/ Rejects \/ RollBack
  PROVE  StoreInv' /\ \E w \in StoreWriters : InMemory!Replay(w) \/ InMemory!Refuse(w) \/ InMemory!Fail(w)
<1> USE DEF StoreInv
<1>0. UNCHANGED <<database, reader>> /\ tx' = NoTx
  BY DEF ReadReplay, Rejects, RollBack
<1>1. DatabaseIsSound' /\ ReaderIsTyped' /\ TxIsSound'
  BY <1>0, DatabaseKept, ReaderKept, TxClosed
<1>2. tx # NoTx /\ (ReadReplay \/ Rejects => tx.at = "checking")
  BY DEF ReadReplay, Rejects, RollBack, InTx
<1> DEFINE w == tx.writer
<1>3. /\ w \in StoreWriters /\ writers[w].at = "asked" /\ writers[w].at # "idle"
      /\ Request = writers[w].request /\ RequestIsTyped(Request)
  BY <1>2, OpenRequest
<1>4. CASE ReadReplay
  <2> DEFINE outcome == IF database.receipts[Request.key] = Request THEN "replayed" ELSE "key conflict"
  <2>1. AnswerTo(w, outcome) /\ Request.key \in DOMAIN database.receipts
    BY <1>4 DEF ReadReplay
  <2>2. outcome \in Outcomes
    BY DEF Outcomes
  <2>3. WritersAreTyped' /\ InMemory!AnswerIs(w, outcome)
    <3> HIDE DEF outcome, w
    <3> QED BY <1>3, <2>1, <2>2, WriterAnswered
  <2>4. InMemory!Replay(w)
    BY <1>0, <1>3, <2>1, <2>3 DEF InMemory!Replay, InMemory!Receipts
  <2> QED BY <1>1, <1>3, <2>3, <2>4
<1>5. CASE Rejects
  <2>1. AnswerTo(w, "conflict") /\ Request.key \notin DOMAIN database.receipts /\ ~Valid
    BY <1>5 DEF Rejects
  <2>2. "conflict" \in Outcomes
    BY DEF Outcomes
  <2>3. WritersAreTyped' /\ InMemory!AnswerIs(w, "conflict")
    <3> HIDE DEF w
    <3> QED BY <1>3, <2>1, <2>2, WriterAnswered
  <2>4. ~InMemory!Possible(Request)
    <3>1. tx.rows = database.rows /\ tx.events = database.events
      BY <1>2, <1>5 DEF TxIsSound, TxChecks
    <3> QED BY <1>3, <2>1, <3>1, ChecksAgree, MemoryIs
  <2>5. InMemory!Refuse(w)
    <3> HIDE DEF Request
    <3> QED BY <1>0, <1>3, <2>1, <2>3, <2>4 DEF InMemory!Refuse, InMemory!Receipts
  <2> QED BY <1>1, <1>3, <2>3, <2>5
<1>6. CASE RollBack
  <2>1. AnswerTo(w, "failed")
    BY <1>6 DEF RollBack
  <2>2. "failed" \in Outcomes
    BY DEF Outcomes
  <2>3. WritersAreTyped' /\ InMemory!AnswerIs(w, "failed")
    <3> HIDE DEF w
    <3> QED BY <1>3, <2>1, <2>2, WriterAnswered
  <2>4. InMemory!Fail(w)
    BY <1>0, <1>3, <2>3 DEF InMemory!Fail
  <2> QED BY <1>1, <1>3, <2>3, <2>4
<1> QED BY <1>4, <1>5, <1>6

\* COMMIT is the one step at which the memory takes the request.
LEMMA CommitStep ==
  ASSUME StoreInv, CommitTransaction
  PROVE  StoreInv' /\ \E w \in StoreWriters : InMemory!Apply(w)
<1> USE DEF StoreInv
<1> DEFINE w == tx.writer
           q == Request
<1>1. tx # NoTx /\ tx.at = "writing"
  BY DEF CommitTransaction, InTx
<1>2. /\ w \in StoreWriters /\ writers[w].at = "asked" /\ writers[w].at # "idle"
      /\ q = writers[w].request /\ RequestIsTyped(q) /\ tx \in TxRecords
      /\ q.key \notin DOMAIN database.receipts
      /\ FitsIn(database.rows, database.events, q)
      /\ tx.rows = [r \in RecordIds |-> IF r \in Written(q) \ tx.unwritten
                                        THEN WrittenRow(q, r) ELSE database.rows[r]]
      /\ Len(database.events) <= Len(tx.events)
      /\ \A i \in 1..Len(tx.events) :
           tx.events[i] = IF i <= Len(database.events) THEN database.events[i]
                          ELSE q.events[i - Len(database.events)]
  BY <1>1, OpenRequest DEF TxIsSound, TxWrites
<1>3. /\ tx.unwritten = {} /\ Appended = Len(q.events)
      /\ database' = [rows |-> tx.rows, events |-> tx.events,
                      receipts |-> WithReceipt(database.receipts, q)]
      /\ AnswerTo(w, "applied") \/ AnswerTo(w, "lost")
      /\ tx' = NoTx /\ reader' = reader
  BY DEF CommitTransaction
<1>4. tx.rows = [r \in RecordIds |-> IF r \in Written(q) THEN WrittenRow(q, r) ELSE database.rows[r]]
  BY <1>2, <1>3
<1>5. tx.events = database.events \o q.events
  <2>1. /\ database.events \in Seq(DomainEvents) /\ q.events \in Seq(DomainEvents) /\ tx.events \in Seq(DomainEvents)
        /\ Len(database.events) \in Nat /\ Len(q.events) \in Nat /\ Len(tx.events) \in Nat
    BY <1>2, LenProperties DEF DatabaseIsSound, RequestIsTyped, TxRecords
  <2>2. Len(tx.events) = Len(database.events) + Len(q.events)
    <3>1. Len(q.events) = Len(tx.events) - Len(database.events)
      BY <1>3 DEF Appended
    <3>2. Len(database.events) <= Len(tx.events)
      BY <1>2
    <3> QED BY <2>1, <3>1, <3>2, AppendedNumbers
  <2> HIDE DEF q
  <2>3. /\ database.events \o q.events \in Seq(DomainEvents)
        /\ Len(database.events \o q.events) = Len(tx.events)
        /\ \A i \in 1..Len(tx.events) : (database.events \o q.events)[i]
             = IF i <= Len(database.events) THEN database.events[i] ELSE q.events[i - Len(database.events)]
    <3>1. \A i \in 1..Len(tx.events) : (database.events \o q.events)[i]
             = IF i <= Len(database.events) THEN database.events[i] ELSE q.events[i - Len(database.events)]
      BY <2>1, <2>2
    <3> QED BY <2>1, <2>2, <3>1, ConcatProperties
  <2>4. \A i \in 1..Len(tx.events) : tx.events[i] = (database.events \o q.events)[i]
    BY <1>2, <2>3
  <2> QED BY <2>1, <2>3, <2>4, SameSequence
<1> HIDE DEF q
<1>6. \A r \in RecordIds : RowIsSound(r, tx.rows[r])
  <2> TAKE r \in RecordIds
  <2>1. CASE r \in Written(q)
    BY <1>2, <1>4, <2>1, RowsOfWrites
  <2>2. CASE r \notin Written(q)
    BY <1>4, <2>2 DEF DatabaseIsSound
  <2> QED BY <2>1, <2>2
<1>7. Written(q) \subseteq RecordIds /\ Bindings \subseteq RecordIds
  BY <1>2 DEF RequestIsTyped, Bindings, RecordIds
<1>8. StoredBindings(tx.rows) = ProspectiveIn(database.rows, q)
  <2>1. \A r \in RecordIds : tx.rows[r].revision > 0 <=> database.rows[r].revision > 0 \/ r \in Written(q)
    <3> TAKE r \in RecordIds
    <3>1. CASE r \in Written(q)
      BY <1>2, <1>4, <3>1, RowsOfWrites
    <3>2. CASE r \notin Written(q)
      BY <1>4, <3>2
    <3> QED BY <3>1, <3>2
  <2>2. {s \in Bindings : tx.rows[s].revision > 0}
        = {s \in Bindings : database.rows[s].revision > 0 \/ s \in Written(q)}
    BY <1>7, <2>1
  <2>3. \A s \in Bindings : tx.rows[s].value = IF s \in Written(q) THEN q.writes[s] ELSE database.rows[s].value
    BY <1>2, <1>4, <1>7, RowsOfWrites
  <2> QED BY <2>2, <2>3 DEF StoredBindings, ProspectiveIn
<1>9. DatabaseIsSound'
  <2>1. ValidBindings(StoredBindings(tx.rows))
    BY <1>2, <1>8 DEF FitsIn
  <2>2. database'.rows = tx.rows /\ database'.events = tx.events
    BY <1>3
  <2>3. tx.rows \in [RecordIds -> RowRecords] /\ tx.events \in Seq(DomainEvents)
    BY <1>2 DEF TxRecords
  <2>4. \A r \in RecordIds : tx.rows[r].revision <= Len(tx.events)
    <3>1. q.events # <<>> /\ (\A r \in Written(q) : database.rows[r].revision = q.expected[r])
      BY <1>2 DEF FitsIn, WellFormed
    <3>2. Len(q.events) \in Nat /\ Len(q.events) > 0 /\ Len(database.events) \in Nat
      <4>1. database.events \in Seq(DomainEvents) /\ q.events \in Seq(DomainEvents)
        BY <1>2 DEF RequestIsTyped, DatabaseIsSound
      <4>2. Len(database.events) \in Nat /\ Len(q.events) \in Nat
        BY <4>1, LenProperties
      <4>3. Len(q.events) # 0
        BY <3>1, <4>1, EmptySeq
      <4> HIDE DEF StoreInv
      <4> QED BY <4>2, <4>3
    <3>3. Len(tx.events) = Len(database.events) + Len(q.events)
      <4>1. database.events \in Seq(DomainEvents) /\ q.events \in Seq(DomainEvents)
        BY <1>2 DEF RequestIsTyped, DatabaseIsSound
      <4> QED BY <1>5, <4>1, ConcatProperties
    <3> DEFINE a == Len(database.events)
               b == Len(tx.events)
               k == Len(q.events)
    <3>7. a \in Nat /\ k \in Nat /\ k > 0 /\ b = a + k
      BY <3>2, <3>3
    <3> TAKE r \in RecordIds
    <3>4. database.rows[r].revision \in Nat /\ database.rows[r].revision <= Len(database.events)
      BY DEF DatabaseIsSound, RowRecords
    <3>5. CASE r \in Written(q)
      <4>1. tx.rows[r].revision = database.rows[r].revision + 1
        BY <1>2, <1>4, <3>1, <3>5, RowsOfWrites
      <4> DEFINE old == database.rows[r].revision
                 new == tx.rows[r].revision
      <4>2. new = old + 1 /\ old \in Nat /\ old <= a
        BY <3>4, <4>1
      <4> HIDE DEF old, new, a, b, k, StoreInv
      <4>3. new <= b
        BY <3>7, <4>2
      <4> QED BY <4>3 DEF new, b
    <3>6. CASE r \notin Written(q)
      <4>1. tx.rows[r] = database.rows[r]
        BY <1>4, <3>6
      <4> DEFINE old == database.rows[r].revision
                 new == tx.rows[r].revision
      <4>2. new = old /\ old \in Nat /\ old <= a
        BY <3>4, <4>1
      <4> HIDE DEF old, new, a, b, k, StoreInv
      <4>3. new <= b
        BY <3>7, <4>2
      <4> QED BY <4>3 DEF new, b
    <3> QED BY <3>5, <3>6
  <2> QED BY <1>6, <2>1, <2>2, <2>3, <2>4 DEF DatabaseIsSound
<1>10. WritersAreTyped' /\ (InMemory!AnswerIs(w, "applied") \/ InMemory!AnswerIs(w, "lost"))
  <2>1. "applied" \in Outcomes /\ "lost" \in Outcomes
    BY DEF Outcomes
  <2> HIDE DEF w
  <2>2. CASE AnswerTo(w, "applied")
    BY <1>2, <2>1, <2>2, WriterAnswered
  <2>3. CASE AnswerTo(w, "lost")
    BY <1>2, <2>1, <2>3, WriterAnswered
  <2> QED BY <1>3, <2>2, <2>3
<1>11. TxIsSound'
  BY <1>3, TxClosed
<1>12. ReaderIsTyped'
  <2>1. database'.events = tx.events
    BY <1>3
  <2>2. Len(database.events) \in Nat /\ Len(tx.events) \in Nat
    BY <1>2, LenProperties DEF DatabaseIsSound, TxRecords
  <2> QED BY <1>2, <1>3, <2>1, <2>2 DEF ReaderIsTyped
<1>13. InMemory!Apply(w)
  <2>1. InMemory!Possible(q)
    BY <1>2, MemoryIs
  <2>2. InMemory!WithReceipt(database.receipts, q) = WithReceipt(database.receipts, q)
    BY DEF InMemory!WithReceipt, WithReceipt
  <2> DEFINE old == [r \in RecordIds |-> [revision |-> database.rows[r].revision,
                                          value |-> database.rows[r].value]]
             new == [r \in RecordIds |-> [revision |-> tx.rows[r].revision, value |-> tx.rows[r].value]]
  <2>3. new = [r \in RecordIds |-> IF r \in Written(q)
                     THEN [revision |-> q.expected[r] + 1, value |-> q.writes[r]] ELSE old[r]]
    <3>1. ASSUME NEW r \in RecordIds
          PROVE new[r] = IF r \in Written(q)
                     THEN [revision |-> q.expected[r] + 1, value |-> q.writes[r]] ELSE old[r]
      <4>1. CASE r \in Written(q)
        BY <1>2, <1>4, <4>1, RowsOfWrites
      <4>2. CASE r \notin Written(q)
        BY <1>4, <4>2
      <4> QED BY <4>1, <4>2
    <3>2. new = [r \in RecordIds |-> new[r]]
      OBVIOUS
    <3> HIDE DEF new, old
    <3> QED BY <3>1, <3>2
  <2>4. [records |-> [r \in RecordIds |-> [revision |-> database'.rows[r].revision,
                                           value |-> database'.rows[r].value]],
         events |-> database'.events, receipts |-> database'.receipts]
        = [records |-> new, events |-> database.events \o q.events,
           receipts |-> WithReceipt(database.receipts, q)]
    BY <1>3, <1>5
  <2> HIDE DEF new
  <2> QED BY <1>2, <1>3, <1>10, <2>1, <2>2, <2>3, <2>4, SameWords DEF InMemory!Apply, InMemory!Receipts
<1>14. \E v \in StoreWriters : InMemory!Apply(v)
  <2>1. PICK v \in StoreWriters : v = w
    BY <1>2
  <2>2. InMemory!Apply(v)
    BY <1>13, <2>1 DEF InMemory!Apply, InMemory!AnswerIs
  <2> QED BY <2>2
<1> QED BY <1>9, <1>10, <1>11, <1>12, <1>14
\* The process dies.
LEMMA CrashStep ==
  ASSUME StoreInv, Crash
  PROVE  StoreInv' /\ InMemory!Die
<1> USE DEF StoreInv
<1>1. /\ writers' = [w \in StoreWriters |->
                   IF writers[w].at = "asked" THEN [writers[w] EXCEPT !.at = "answered", !.outcome = "lost"]
                   ELSE writers[w]]
      /\ tx' = NoTx /\ UNCHANGED <<database, reader>>
  BY DEF Crash
<1>2. DatabaseIsSound' /\ ReaderIsTyped' /\ TxIsSound'
  BY <1>1, DatabaseKept, ReaderKept, TxClosed
<1>3. WritersAreTyped'
  <2>1. ASSUME NEW w \in StoreWriters
        PROVE  /\ writers'[w] \in WriterRecords
               /\ writers'[w].at # "idle" => writers'[w].request \in StoreRequests
    <3>1. writers[w] \in WriterRecords
          /\ (writers[w].at # "idle" => writers[w].request \in StoreRequests)
      BY DEF WritersAreTyped
    <3>2. CASE writers[w].at = "asked"
      <4> DEFINE new == [writers[w] EXCEPT !.at = "answered", !.outcome = "lost"]
      <4>1. writers'[w] = new
        BY <1>1, <3>2
      <4>2. new \in WriterRecords /\ new.request = writers[w].request
        BY <3>1 DEF WriterRecords, Outcomes
      <4> HIDE DEF new
      <4> QED BY <3>1, <3>2, <4>1, <4>2
    <3>3. CASE writers[w].at # "asked"
      BY <1>1, <3>1, <3>3
    <3> QED BY <3>2, <3>3
  <2>2. writers' = [w \in StoreWriters |-> writers'[w]]
    BY <1>1
  <2> QED BY <2>1, <2>2 DEF WritersAreTyped
<1>4. InMemory!Die
  BY <1>1 DEF InMemory!Die
<1> QED BY <1>2, <1>3, <1>4

LEMMA PageStep ==
  ASSUME StoreInv, ListDomainEvents
  PROVE  StoreInv'
<1> USE DEF StoreInv
<1>1. tx = NoTx /\ UNCHANGED <<database, tx, writers>>
  BY DEF ListDomainEvents
<1>2. DatabaseIsSound' /\ WritersAreTyped' /\ TxIsSound'
  BY <1>1, DatabaseKept, TxClosed DEF WritersAreTyped
<1>3. ReaderIsTyped'
  BY PagesAgree
<1> QED BY <1>2, <1>3

\* The list by the column is the list by the values.
LEMMA ListStep ==
  ASSUME StoreInv, NEW status \in {"done", "ACTIVE"}, ListByStatus(status)
  PROVE  StoreInv' /\ InMemory!List(status)
<1> USE DEF StoreInv
<1>1. tx = NoTx /\ UNCHANGED <<database, tx, writers>>
      /\ reader' = [reader EXCEPT !.listed = {r \in RecordIds : database.rows[r].status = status}]
  BY DEF ListByStatus
<1>2. DatabaseIsSound' /\ WritersAreTyped' /\ TxIsSound'
  BY <1>1, DatabaseKept, TxClosed DEF WritersAreTyped
<1>3. ReaderIsTyped'
  <2> DEFINE found == {r \in RecordIds : database.rows[r].status = status}
  <2>1. found \subseteq RecordIds
    OBVIOUS
  <2> HIDE DEF found
  <2> QED BY <1>1, <2>1 DEF ReaderIsTyped, found
<1>4. ASSUME NEW r \in RecordIds
      PROVE  database.rows[r].status = status <=>
               InMemory!Stored(r) /\ database.rows[r].value.status = status
  <2>1. RowIsSound(r, database.rows[r]) /\ database.rows[r].revision \in Nat
    BY DEF DatabaseIsSound, RowIsSound, RowRecords
  <2>2. InMemory!Stored(r) <=> database.rows[r].revision > 0
    BY <1>4 DEF InMemory!Stored
  <2>3. CASE r \in Immutable
    BY <2>1, <2>2, <2>3 DEF RowIsSound, ProjectRecord
  <2>4. CASE r \notin Immutable
    BY <2>1, <2>2, <2>4 DEF RowIsSound, ProjectRecord
  <2> QED BY <2>3, <2>4
<1>5. InMemory!List(status)
  <2> DEFINE records == [r \in RecordIds |-> [revision |-> database.rows[r].revision,
                                              value |-> database.rows[r].value]]
  <2>1. \A r \in RecordIds : records[r].value.status = database.rows[r].value.status
    OBVIOUS
  <2> HIDE DEF records
  <2>2. {r \in RecordIds : InMemory!Stored(r) /\ records[r].value.status = status}
        = {r \in RecordIds : database.rows[r].status = status}
    BY <1>4, <2>1
  <2> QED BY <1>1, <2>2, SameWords DEF InMemory!List, records
<1> QED BY <1>2, <1>3, <1>5

\* Every step keeps the invariant and is a step of the memory, or none.
LEMMA StoreSteps ==
  ASSUME StoreInv, StoreNext
  PROVE  StoreInv' /\ (InMemory!MemoryNext \/ UNCHANGED InMemory!memoryVars)
<1>1. CASE \E w \in StoreWriters : Compose(w) \/ Repeat(w)
  BY <1>1, WriterSteps DEF InMemory!MemoryNext
<1>2. CASE (\E w \in StoreWriters : Begin(w)) \/ Accepts
  BY <1>2, CheckSteps
<1>3. CASE ReadReplay \/ Rejects \/ RollBack
  BY <1>3, EndSteps DEF InMemory!MemoryNext
<1>4. CASE (\E r \in RecordIds : WriteRecord(r)) \/ AppendEventAndOutbox
  BY <1>4, WriteSteps
<1>5. CASE CommitTransaction
  BY <1>5, CommitStep DEF InMemory!MemoryNext
<1>6. CASE Crash
  BY <1>6, CrashStep DEF InMemory!MemoryNext
<1>7. CASE ListDomainEvents
  BY <1>7, PageStep, PagesAgree DEF InMemory!MemoryNext
<1>8. CASE \E status \in {"done", "ACTIVE"} : ListByStatus(status)
  BY <1>8, ListStep DEF InMemory!MemoryNext
<1> QED BY <1>1, <1>2, <1>3, <1>4, <1>5, <1>6, <1>7, <1>8 DEF StoreNext

LEMMA StoreStutters ==
  StoreInv /\ UNCHANGED storeVars => StoreInv' /\ UNCHANGED InMemory!memoryVars
<1> SUFFICES ASSUME StoreInv, UNCHANGED storeVars
             PROVE  StoreInv' /\ UNCHANGED InMemory!memoryVars
  OBVIOUS
<1>1. UNCHANGED <<database, tx, writers, reader>>
  BY DEF storeVars
<1>2. DatabaseIsSound' /\ ReaderIsTyped' /\ WritersAreTyped' /\ TxIsSound'
  BY <1>1, DatabaseKept, ReaderKept, TxKept DEF StoreInv, WritersAreTyped
<1>3. UNCHANGED InMemory!memoryVars
  BY <1>1 DEF InMemory!memoryVars
<1> QED BY <1>2, <1>3 DEF StoreInv

\* Whatever is composed, repeated, failed or lost, and wherever the process dies: the
\* rows and their columns agree, at most one session of a task is active and its
\* predecessor exists, and an open transaction is the database with a prefix of the writes
\* of a request that still fits it (sqlite-domain-repository.ts commit).
THEOREM StoreStaysSound == StoreSpec => []StoreInv
<1>1. StoreInit => StoreInv
  BY StoreStarts
<1>2. StoreInv /\ [StoreNext]_storeVars => StoreInv'
  BY StoreSteps, StoreStutters
<1> QED BY <1>1, <1>2, PTL DEF StoreSpec

\* The types of the store, where no revision is beyond the number of events
\* (sqlite-domain-repository.ts writeRecord, appendEventAndOutbox).
THEOREM DatabaseIsTyped == StoreSpec => []StoreTypeOK
<1>1. StoreInv => StoreTypeOK
  <2> SUFFICES ASSUME StoreInv PROVE StoreTypeOK
    OBVIOUS
  <2> USE DEF StoreInv
  <2>1. \A r \in RecordIds : Exists(r) => database.rows[r].revision \in 1..Len(database.events)
    <3> TAKE r \in RecordIds
    <3>1. /\ database.rows[r].revision \in Nat /\ Len(database.events) \in Nat
          /\ database.rows[r].revision <= Len(database.events)
      BY LenProperties DEF DatabaseIsSound, RowRecords
    <3> QED BY <3>1 DEF Exists
  <2>2. tx # NoTx => tx.writer \in StoreWriters /\ tx.at \in {"checking", "writing"}
    BY DEF TxIsSound, TxRecords
  <2>3. \A w \in StoreWriters : writers[w].outcome \in Outcomes \cup {"none"}
    BY DEF WritersAreTyped, WriterRecords
  <2>4. reader.cursor \in 0..Len(database.events)
    BY DEF ReaderIsTyped
  <2> QED BY <2>1, <2>2, <2>3, <2>4 DEF StoreTypeOK
<1> QED BY <1>1, StoreStaysSound, PTL

\* The database does what the repository in memory does, for any writers, requests and
\* page limit: its transactions take effect at COMMIT and at once, and its queries return
\* what the loops over the events and the records return
\* (sqlite-domain-repository.ts commit, listDomainEvents; in-memory-repository.ts).
THEOREM SqliteIsMemory == StoreSpec => SqliteImplementsMemory
<1>1. StoreInit => InMemory!MemoryInit
  BY StoreStarts
<1>2. StoreInv /\ [StoreNext]_storeVars
        => [UNCHANGED storeVars \/ InMemory!MemoryNext]_(InMemory!memoryVars)
  BY StoreSteps, StoreStutters
<1> QED BY <1>1, <1>2, StoreStaysSound, PTL DEF StoreSpec, SqliteImplementsMemory

\* The same, as the specification of the memory itself.
THEOREM SqliteRefinesMemory == StoreSpec => InMemory!MemorySpec
<1>1. StoreInit => InMemory!MemoryInit
  BY StoreStarts
<1>2. StoreInv /\ [StoreNext]_storeVars => [InMemory!MemoryNext]_(InMemory!memoryVars)
  BY StoreSteps, StoreStutters
<1> QED BY <1>1, <1>2, StoreStaysSound, PTL DEF StoreSpec, InMemory!MemorySpec

(***************************************************************************)
(* The list of tasks, read page by page.                                   *)
(***************************************************************************)
TaskBoards == UNION {[T -> PageStatuses] : T \in SUBSET (1..PageTasks)}
ListedOf(board, statuses) == {t \in IdsOn(board) : statuses = {} \/ board[t] \in statuses}

\* The first k tasks of a list, as they are shown.
Cards(board, statuses, k) ==
  [i \in 1..k |-> CardOf(FilteredTasks(board, statuses)[i], board[FilteredTasks(board, statuses)[i]])]

\* The list has every task of the statuses once.
LEMMA ListedOnce ==
  ASSUME NEW board \in TaskBoards, NEW statuses
  PROVE  LET F == FilteredTasks(board, statuses) IN
         /\ F \in Seq(1..PageTasks) /\ Len(F) \in Nat /\ DOMAIN F = 1..Len(F)
         /\ \A i \in 1..Len(F) : F[i] \in ListedOf(board, statuses)
         /\ \A i, j \in 1..Len(F) : F[i] = F[j] => i = j
         /\ \A t \in ListedOf(board, statuses) : \E i \in 1..Len(F) : F[i] = t
<1> DEFINE T == ListedOf(board, statuses)
           F == FilteredTasks(board, statuses)
           n == Cardinality(T)
<1>0. PageTasks \in Nat
  BY TaskPagesAssumption
<1>1. T \in SUBSET (1..PageTasks)
  <2>1. PICK U \in SUBSET (1..PageTasks) : board \in [U -> PageStatuses]
    BY DEF TaskBoards
  <2> QED BY <2>1 DEF ListedOf, IdsOn
<1>2. F = [i \in 1..n |-> RowAt(T, i)]
  BY DEF FilteredTasks, RowAt, Rank, Upto, ListedOf
<1> HIDE DEF T, F
<1>3. n = Rank(T, PageTasks) /\ n \in Nat
  <2>1. Upto(T, PageTasks) = T
    <3>1. \A t \in T : t <= PageTasks
      BY <1>0, <1>1
    <3> QED BY <3>1 DEF Upto
  <2>2. Rank(T, PageTasks) \in Nat
    BY <1>0, <1>1, RankIsNumber
  <2> QED BY <2>1, <2>2 DEF Rank
<1> HIDE DEF n
<1>4. \A i \in 1..n : RowAt(T, i) \in T /\ Rank(T, RowAt(T, i)) = i
  BY <1>0, <1>1, <1>3, RowIsRanked
<1>5. F \in Seq(1..PageTasks) /\ Len(F) = n /\ DOMAIN F = 1..n
  <2>1. F = [i \in 1..n |-> F[i]] /\ \A i \in 1..n : F[i] \in 1..PageTasks
    BY <1>1, <1>2, <1>4
  <2> QED BY <1>3, <2>1, FunctionIsSequence
<1>6. \A i \in 1..n : F[i] = RowAt(T, i)
  BY <1>2
<1>7. ASSUME NEW t \in T PROVE \E i \in 1..n : F[i] = t
  <2>1. t \in Nat /\ t <= PageTasks
    BY <1>0, <1>1
  <2>2. Rank(T, t) \in Nat /\ Rank(T, t) <= n
    BY <1>0, <1>1, <1>3, <2>1, RankIncreases, RankIsNumber
  <2>3. Rank(T, t) > 0
    <3>1. t \in Upto(T, t) /\ IsFiniteSet(Upto(T, t))
      <4>1. t <= t
        BY <2>1
      <4>2. IsFiniteSet(Upto(T, t))
        BY <1>0, <1>1, <2>1, RankIsNumber
      <4> QED BY <4>1, <4>2 DEF Upto
    <3>2. Upto(T, t) # {}
      BY <3>1
    <3>3. Cardinality(Upto(T, t)) # 0
      BY <3>1, <3>2, FS_EmptySet
    <3> QED BY <2>2, <3>3 DEF Rank
  <2>4. Rank(T, t) \in 1..n
    BY <1>3, <2>2, <2>3
  <2>5. RowAt(T, Rank(T, t)) = t
    BY <1>0, <1>1, RowOfRank
  <2> QED BY <1>6, <2>4, <2>5
<1>8. \A i, j \in 1..n : F[i] = F[j] => i = j
  BY <1>4, <1>6
<1> QED BY <1>3, <1>4, <1>5, <1>6, <1>7, <1>8 DEF T, F

TaskCards == [id : 1..PageTasks, status : PageStatuses]

\* What is shown of the first tasks.
LEMMA CardsAreSequences ==
  ASSUME NEW board \in TaskBoards, NEW statuses,
         NEW k \in 0..Len(FilteredTasks(board, statuses))
  PROVE  /\ Cards(board, statuses, k) \in Seq(TaskCards) /\ Len(Cards(board, statuses, k)) = k
         /\ k = 0 => Cards(board, statuses, k) = <<>>
         /\ \A i \in 1..k : Cards(board, statuses, k)[i]
              = CardOf(FilteredTasks(board, statuses)[i], board[FilteredTasks(board, statuses)[i]])
<1> DEFINE F == FilteredTasks(board, statuses)
           c == Cards(board, statuses, k)
<1>1. /\ F \in Seq(1..PageTasks) /\ Len(F) \in Nat
      /\ \A i \in 1..Len(F) : F[i] \in ListedOf(board, statuses) /\ F[i] \in 1..PageTasks
  BY ListedOnce, ElementOfSeq
<1>2. \A t \in ListedOf(board, statuses) : board[t] \in PageStatuses
  BY DEF TaskBoards, ListedOf, IdsOn
<1> HIDE DEF F
<1>3. k \in Nat /\ \A i \in 1..k : i \in 1..Len(F)
  BY <1>1 DEF F
<1>4. c = [i \in 1..k |-> CardOf(F[i], board[F[i]])]
  BY DEF Cards, F
<1>5. \A i \in 1..k : c[i] = CardOf(F[i], board[F[i]]) /\ c[i] \in TaskCards
  BY <1>1, <1>2, <1>3, <1>4 DEF TaskCards, CardOf
<1>6. c = [i \in 1..k |-> c[i]]
  BY <1>4
<1> HIDE DEF c
<1>7. c \in Seq(TaskCards) /\ Len(c) = k
  BY <1>3, <1>5, <1>6, FunctionIsSequence
<1>8. k = 0 => c = <<>>
  BY <1>7, EmptySeq
<1> QED BY <1>5, <1>7, <1>8 DEF c, F

\* The cursor behind the first k tasks, and the page of it.
CursorAt(board, statuses, k) == IF k = 0 THEN FirstPage ELSE FilteredTasks(board, statuses)[k]
GoesOn(board, statuses, k) ==
  LET F == FilteredTasks(board, statuses)
      page == PageFrom(board, statuses, CursorAt(board, statuses, k))
  IN \E m \in k..Len(F) :
       /\ Cards(board, statuses, k) \o page.items = Cards(board, statuses, m)
       /\ page.next = IF m < Len(F) THEN F[m] ELSE FirstPage
       /\ m < Len(F) => m > k

\* A page goes on where the one before it ended.
LEMMA PageGoesOn ==
  ASSUME NEW board \in TaskBoards, NEW statuses,
         NEW k \in 0..Len(FilteredTasks(board, statuses))
  PROVE  GoesOn(board, statuses, k)
<1> DEFINE cursor == CursorAt(board, statuses, k)
<1>0. cursor = IF k = 0 THEN FirstPage ELSE FilteredTasks(board, statuses)[k]
  BY DEF CursorAt
<1> HIDE DEF cursor
<1> DEFINE F == FilteredTasks(board, statuses)
           n == Len(F)
           start == PageStart(F, cursor)
           m == Min({start + TasksPerPage, n})
           selected == SubSeq(F, start + 1, m)
           items == [i \in DOMAIN selected |-> CardOf(selected[i], board[selected[i]])]
           more == start + Len(selected) < n
           page == PageFrom(board, statuses, cursor)
<1>1. /\ F \in Seq(1..PageTasks) /\ n \in Nat /\ DOMAIN F = 1..n
      /\ \A i \in 1..n : F[i] \in ListedOf(board, statuses) /\ F[i] \in 1..PageTasks
      /\ \A i, j \in 1..n : F[i] = F[j] => i = j
  BY ListedOnce, ElementOfSeq
<1>2. TasksPerPage \in Nat \ {0} /\ PageTasks \in Nat
  BY TaskPagesAssumption
<1>3. page = [items |-> items, next |-> IF more /\ selected # <<>> THEN Last(selected) ELSE FirstPage]
  BY DEF PageFrom
<1> HIDE DEF F, page
<1>4. k \in Nat /\ k <= n
  BY <1>1 DEF F
<1>5. start = k
  <2>1. CASE k = 0
    BY <1>0, <2>1 DEF PageStart
  <2>2. CASE k # 0
    <3>1. k \in 1..n /\ cursor = F[k]
      BY <1>0, <1>1, <1>4, <2>2 DEF F
    <3>2. cursor # FirstPage
      BY <1>1, <1>2, <3>1 DEF FirstPage
    <3> QED BY <1>1, <3>1, <3>2 DEF PageStart
  <2> QED BY <2>1, <2>2
<1>6. /\ m = IF k + TasksPerPage < n THEN k + TasksPerPage ELSE n
      /\ m \in Nat /\ k <= m /\ m <= n /\ (m < n => m > k)
  <2> DEFINE a == k + TasksPerPage
  <2>1. a \in Nat /\ a > k
    BY <1>2, <1>4
  <2>2. m = Min({a, n})
    BY <1>5
  <2> HIDE DEF a, m, n
  <2>3. m = IF a < n THEN a ELSE n
    BY <1>1, <2>1, <2>2 DEF Min
  <2> QED BY <1>1, <1>4, <2>1, <2>3 DEF a
<1> HIDE DEF m, n, start
<1>7. /\ selected \in Seq(1..PageTasks) /\ Len(selected) = m - k
      /\ DOMAIN selected = 1..(m - k)
      /\ \A i \in 1..(m - k) : selected[i] = F[k + i]
  <2>1. selected = SubSeq(F, k + 1, m)
    BY <1>5
  <2>2. k + 1 \in Int /\ m \in Int /\ \A i \in (k + 1)..m : F[i] \in 1..PageTasks
    <3>1. \A i \in (k + 1)..m : i \in 1..n
      BY <1>1, <1>4, <1>6
    <3> QED BY <1>1, <1>4, <1>6, <3>1
  <2>3. /\ SubSeq(F, k + 1, m) \in Seq(1..PageTasks)
        /\ Len(SubSeq(F, k + 1, m)) = IF k + 1 <= m THEN m - (k + 1) + 1 ELSE 0
        /\ \A i \in 1..(m - (k + 1) + 1) : SubSeq(F, k + 1, m)[i] = F[(k + 1) + i - 1]
    BY <2>2, SubSeqProperties
  <2>4. /\ m - (k + 1) + 1 = m - k /\ (k + 1 <= m \/ m - k = 0)
        /\ \A i \in 1..(m - k) : (k + 1) + i - 1 = k + i
    BY <1>4, <1>6
  <2> HIDE DEF selected
  <2>5. selected \in Seq(1..PageTasks) /\ Len(selected) = m - k
    BY <2>1, <2>3, <2>4
  <2>6. \A i \in 1..(m - k) : selected[i] = F[k + i]
    BY <2>1, <2>3, <2>4
  <2>7. DOMAIN selected = 1..(m - k)
    BY <2>5, LenProperties
  <2> QED BY <2>5, <2>6, <2>7
<1> HIDE DEF selected
<1>8. Cards(board, statuses, k) \o items = Cards(board, statuses, m)
  <2> DEFINE a == Cards(board, statuses, k)
             c == Cards(board, statuses, m)
             rest == m - k
  <2>1. /\ a \in Seq(TaskCards) /\ Len(a) = k
        /\ \A i \in 1..k : a[i] = CardOf(F[i], board[F[i]])
    BY CardsAreSequences DEF F
  <2>2. /\ c \in Seq(TaskCards) /\ Len(c) = m
        /\ \A i \in 1..m : c[i] = CardOf(F[i], board[F[i]])
    <3>1. m \in 0..Len(FilteredTasks(board, statuses))
      <4>1. m \in 0..n
        BY <1>1, <1>6
      <4> QED BY <4>1 DEF n, F
    <3> QED BY <3>1, CardsAreSequences DEF F
  <2>3. rest \in Nat /\ \A i \in 1..rest : k + i \in 1..m
    BY <1>4, <1>6
  <2>4. \A i \in 1..rest : items[i] = c[k + i] /\ items[i] \in TaskCards
    <3>1. \A i \in 1..rest : items[i] = c[k + i]
      BY <1>7, <2>2, <2>3
    <3>2. \A i \in 1..m : c[i] \in TaskCards
      BY <2>2, ElementOfSeq
    <3> QED BY <2>3, <3>1, <3>2
  <2>5. items = [i \in 1..rest |-> items[i]]
    BY <1>7
  <2> HIDE DEF items, a, c, rest
  <2>6. items \in Seq(TaskCards) /\ Len(items) = rest
    BY <2>3, <2>4, <2>5, FunctionIsSequence
  <2>7. k + rest = m
    BY <1>4, <1>6 DEF rest
  <2>8. a \o items \in Seq(TaskCards) /\ Len(a \o items) = m
    BY <2>1, <2>6, <2>7, ConcatProperties
  <2>9. \A i \in 1..m : (a \o items)[i] = c[i]
    <3> TAKE i \in 1..m
    <3>1. (a \o items)[i] = IF i <= k THEN a[i] ELSE items[i - k]
      <4>1. i \in 1..(Len(a) + Len(items))
        BY <2>1, <2>6, <2>7
      <4> QED BY <2>1, <2>6, <4>1, ConcatProperties
    <3>2. CASE i <= k
      <4>1. i \in 1..k
        BY <1>4, <3>2
      <4> QED BY <2>1, <2>2, <3>1, <3>2, <4>1
    <3>3. CASE ~(i <= k)
      <4>1. i - k \in 1..rest /\ k + (i - k) = i
        BY <1>4, <1>6, <2>7, <3>3, <2>3
      <4> QED BY <2>4, <3>1, <3>3, <4>1
    <3> QED BY <3>2, <3>3
  <2>10. a \o items = c
    BY <2>2, <2>8, <2>9, SameSequence
  <2> QED BY <2>10 DEF a, c
<1>9. page.next = IF m < n THEN F[m] ELSE FirstPage
  <2>1. start + Len(selected) = m
    BY <1>4, <1>5, <1>6, <1>7
  <2>2. page.next = IF m < n /\ selected # <<>> THEN Last(selected) ELSE FirstPage
    BY <1>3, <2>1
  <2>3. CASE m < n
    <3>1. m > k /\ m - k \in 1..(m - k) /\ k + (m - k) = m
      BY <1>4, <1>6, <2>3
    <3>2. selected # <<>> /\ selected[Len(selected)] = F[m]
      <4>1. selected[m - k] = F[m]
        BY <1>7, <3>1
      <4>2. Len(selected) # 0
        BY <1>7, <3>1
      <4> QED BY <1>7, <4>1, <4>2, EmptySeq
    <3>3. Last(selected) = F[m]
      BY <3>2 DEF Last
    <3> QED BY <2>2, <2>3, <3>2, <3>3
  <2>4. CASE ~(m < n)
    BY <2>2, <2>4
  <2> QED BY <2>3, <2>4
<1>10. m \in k..n /\ page.items = items
  BY <1>1, <1>3, <1>4, <1>6
<1>11. /\ Cards(board, statuses, k) \o page.items = Cards(board, statuses, m)
       /\ page.next = IF m < n THEN F[m] ELSE FirstPage
       /\ m < n => m > k
  BY <1>6, <1>8, <1>9, <1>10
<1> QED BY <1>10, <1>11 DEF F, n, page, cursor, GoesOn

\* The boards there were: tasks are never removed.
BoardsInv ==
  /\ listed \in Seq(TaskBoards) /\ Len(listed) \in 1..(MaxTaskCommits + 1)
  /\ \A i, j \in 1..Len(listed) : i <= j => IdsOn(listed[i]) \subseteq IdsOn(listed[j])
AskingTyped ==
  /\ asking \in [at : {"idle", "asked", "read", "SNAPSHOT_BUSY", "VALIDATION_ERROR"},
                 statuses : SUBSET PageStatuses, cursor : 0..PageTasks]
  /\ listing \in [items : Seq(TaskCards), head : 0..Len(listed)]
\* What was put together is the first part of the list of its moment, and the cursor is
\* the last task of it.
FirstPart ==
  LET F == FilteredTasks(listed[listing.head], asking.statuses) IN
  IF listing.head = Unread THEN listing.items = <<>> /\ asking.cursor = FirstPage
  ELSE \E k \in 1..Len(F) : /\ asking.cursor = F[k]
                            /\ listing.items = Cards(listed[listing.head], asking.statuses, k)
WholeList ==
  LET board == listed[listing.head]
  IN /\ listing.head # Unread
     /\ listing.items = Cards(board, asking.statuses, Len(FilteredTasks(board, asking.statuses)))
ListingInv ==
  /\ asking.at = "asked" => FirstPart
  /\ asking.at = "read" => WholeList
  /\ asking.at = "VALIDATION_ERROR" => asking.statuses # {} /\ listing.head < Len(listed)
PagesInv == BoardsInv /\ AskingTyped /\ ListingInv

\* The newest board is the last one.
LEMMA ListedBoards ==
  ASSUME PagesInv
  PROVE  /\ HeadCursor \in 1..Len(listed) /\ HeadCursor = Len(listed) /\ Len(listed) \in Nat
         /\ BoardNow \in TaskBoards /\ BoardNow = listed[Len(listed)]
         /\ \A i \in 1..Len(listed) : listed[i] \in TaskBoards
<1>1. listed \in Seq(TaskBoards) /\ Len(listed) \in Nat /\ Len(listed) >= 1
  BY TaskPagesAssumption, LenProperties DEF PagesInv, BoardsInv
<1>2. \A i \in 1..Len(listed) : listed[i] \in TaskBoards
  BY <1>1, ElementOfSeq
<1>3. HeadCursor = Len(listed) /\ HeadCursor \in 1..Len(listed)
  BY <1>1 DEF HeadCursor
<1> QED BY <1>1, <1>2, <1>3 DEF BoardNow

\* The invariant holds first, and every step keeps it.
LEMMA PagesStart == PagesInit => PagesInv
<1> SUFFICES ASSUME PagesInit PROVE PagesInv
  OBVIOUS
<1>1. PICK T \in SUBSET (1..PageTasks) : listed = <<[t \in T |-> "QUEUED"]>>
  BY DEF PagesInit
<1> DEFINE board == [t \in T |-> "QUEUED"]
<1>2. board \in TaskBoards
  <2>1. board \in [T -> PageStatuses]
    BY DEF PageStatuses
  <2> QED BY <2>1 DEF TaskBoards
<1> HIDE DEF board
<1>3. listed \in Seq(TaskBoards) /\ Len(listed) = 1 /\ listed[1] = board
  BY <1>1, <1>2 DEF board
<1>4. BoardsInv
  BY <1>3, TaskPagesAssumption DEF BoardsInv
<1>5. asking = [at |-> "idle", statuses |-> {}, cursor |-> FirstPage]
      /\ listing = [items |-> <<>>, head |-> Unread]
  BY DEF PagesInit
<1>6. AskingTyped
  BY <1>3, <1>5, TaskPagesAssumption DEF AskingTyped, FirstPage, Unread
<1>7. ListingInv
  BY <1>5 DEF ListingInv
<1> QED BY <1>4, <1>6, <1>7 DEF PagesInv

\* Commits leave what was read as it was.
LEMMA CommitsKeepPages ==
  ASSUME PagesInv, NEW board \in TaskBoards, IdsOn(BoardNow) \subseteq IdsOn(board),
         BoardCommits(board)
  PROVE  PagesInv'
<1>1. /\ HeadCursor = Len(listed) /\ Len(listed) \in Nat /\ Len(listed) >= 1
      /\ BoardNow = listed[Len(listed)] /\ listed \in Seq(TaskBoards)
      /\ \A i, j \in 1..Len(listed) : i <= j => IdsOn(listed[i]) \subseteq IdsOn(listed[j])
  <2>1. Len(listed) \in Nat /\ HeadCursor \in 1..Len(listed)
    BY ListedBoards
  <2>2. Len(listed) >= 1
    BY <2>1
  <2> QED BY <2>1, <2>2, ListedBoards DEF PagesInv, BoardsInv
<1>2. /\ Len(listed) <= MaxTaskCommits /\ listed' = Append(listed, board)
      /\ asking' = asking /\ listing' = listing
  BY <1>1 DEF BoardCommits
<1>3. /\ listed' \in Seq(TaskBoards) /\ Len(listed') = Len(listed) + 1
      /\ \A i \in 1..Len(listed) : listed'[i] = listed[i]
      /\ listed'[Len(listed) + 1] = board
  BY <1>1, <1>2, AppendProperties
<1>4. BoardsInv'
  <2>1. ASSUME NEW i \in 1..Len(listed'), NEW j \in 1..Len(listed'), i <= j
        PROVE  IdsOn(listed'[i]) \subseteq IdsOn(listed'[j])
    <3>1. CASE j <= Len(listed)
      <4>1. i \in 1..Len(listed) /\ j \in 1..Len(listed)
        BY <1>1, <1>3, <2>1, <3>1
      <4> QED BY <1>1, <1>3, <2>1, <4>1
    <3>2. CASE ~(j <= Len(listed))
      <4>1. j = Len(listed) + 1
        BY <1>1, <1>3, <3>2
      <4>2. CASE i = j
        BY <4>2
      <4>3. CASE i # j
        <5>1. i \in 1..Len(listed) /\ Len(listed) \in 1..Len(listed) /\ i <= Len(listed)
          BY <1>1, <1>3, <2>1, <4>1, <4>3
        <5>2. IdsOn(listed[i]) \subseteq IdsOn(BoardNow)
          BY <1>1, <5>1
        <5> QED BY <1>3, <4>1, <5>1, <5>2
      <4> QED BY <4>2, <4>3
    <3> QED BY <3>1, <3>2
  <2>2. Len(listed') \in 1..(MaxTaskCommits + 1)
    BY <1>1, <1>2, <1>3, TaskPagesAssumption
  <2> QED BY <1>3, <2>1, <2>2 DEF BoardsInv
<1>5. AskingTyped'
  <2>1. \A h \in 0..Len(listed) : h \in 0..Len(listed')
    BY <1>1, <1>3
  <2> QED BY <1>2, <2>1 DEF PagesInv, AskingTyped
<1>6. listing.head \in 0..Len(listed) /\ (listing.head # Unread => listed'[listing.head] = listed[listing.head])
  BY <1>1, <1>3 DEF PagesInv, AskingTyped, Unread
<1>7. ListingInv'
  <2>1. asking.at = "asked" => FirstPart'
    BY <1>2, <1>6 DEF PagesInv, ListingInv, FirstPart
  <2>2. asking.at = "read" => WholeList'
    BY <1>2, <1>6 DEF PagesInv, ListingInv, WholeList
  <2>3. asking.at = "VALIDATION_ERROR" => asking.statuses # {} /\ listing.head < Len(listed')
    BY <1>1, <1>3, <1>6 DEF PagesInv, ListingInv
  <2> QED BY <1>2, <2>1, <2>2, <2>3 DEF ListingInv
<1> QED BY <1>4, <1>5, <1>7 DEF PagesInv

LEMMA BoardSteps ==
  ASSUME PagesInv, NEW t \in 1..PageTasks, TaskIsCreated(t) \/ TaskMoves(t)
  PROVE  PagesInv'
<1>1. BoardNow \in TaskBoards
  BY ListedBoards
<1>2. PICK T \in SUBSET (1..PageTasks) : BoardNow \in [T -> PageStatuses] /\ IdsOn(BoardNow) = T
  BY <1>1 DEF TaskBoards, IdsOn
<1>3. CASE TaskIsCreated(t)
  <2> DEFINE board == [u \in T \cup {t} |-> IF u = t THEN "QUEUED" ELSE BoardNow[u]]
  <2>1. board \in [T \cup {t} -> PageStatuses]
    BY <1>2 DEF PageStatuses
  <2>2. board \in TaskBoards /\ IdsOn(board) = T \cup {t}
    BY <2>1 DEF TaskBoards, IdsOn
  <2>3. BoardCommits(board)
    BY <1>2, <1>3 DEF TaskIsCreated
  <2> HIDE DEF board
  <2> QED BY <1>2, <2>2, <2>3, CommitsKeepPages
<1>4. CASE TaskMoves(t)
  <2>1. PICK s \in PageStatuses : BoardCommits([BoardNow EXCEPT ![t] = s])
    BY <1>4 DEF TaskMoves
  <2> DEFINE board == [BoardNow EXCEPT ![t] = s]
  <2>2. board \in [T -> PageStatuses]
    BY <1>2
  <2>3. board \in TaskBoards /\ IdsOn(board) = T
    BY <2>2 DEF TaskBoards, IdsOn
  <2>4. BoardCommits(board)
    BY <2>1
  <2> HIDE DEF board
  <2> QED BY <1>2, <2>3, <2>4, CommitsKeepPages
<1> QED BY <1>3, <1>4

\* The console asks for the first page, and receives one after the other.
LEMMA AskStep ==
  ASSUME PagesInv, NEW statuses \in SUBSET PageStatuses, AskFirstPage(statuses)
  PROVE  PagesInv'
<1>1. /\ listed' = listed /\ listing' = [items |-> <<>>, head |-> Unread]
      /\ asking' = [at |-> "asked", statuses |-> statuses, cursor |-> FirstPage]
  BY DEF AskFirstPage
<1>2. BoardsInv'
  BY <1>1 DEF PagesInv, BoardsInv
<1>3. AskingTyped'
  <2>1. Len(listed) \in Nat /\ PageTasks \in Nat
    BY ListedBoards, TaskPagesAssumption
  <2> QED BY <1>1, <2>1 DEF AskingTyped, FirstPage, Unread
<1>4. ListingInv'
  BY <1>1 DEF ListingInv, FirstPart
<1> QED BY <1>2, <1>3, <1>4 DEF PagesInv

LEMMA PageReceived ==
  ASSUME PagesInv, ReceivePage
  PROVE  PagesInv'
<1> DEFINE board == BoardNow
           st == asking.statuses
           F == FilteredTasks(board, st)
           page == PageFrom(board, st, asking.cursor)
<1>1. asking.at = "asked" /\ listed' = listed
  BY DEF ReceivePage
<1>2. BoardsInv'
  BY <1>1 DEF PagesInv, BoardsInv
<1>3. /\ HeadCursor \in 1..Len(listed) /\ HeadCursor = Len(listed) /\ Len(listed) \in Nat
      /\ board \in TaskBoards /\ board = listed[HeadCursor] /\ HeadCursor # Unread
  <2>1. /\ HeadCursor \in 1..Len(listed) /\ HeadCursor = Len(listed) /\ Len(listed) \in Nat
        /\ board \in TaskBoards /\ board = listed[HeadCursor]
    BY ListedBoards
  <2> QED BY <2>1 DEF Unread
<1>4. /\ asking \in [at : {"idle", "asked", "read", "SNAPSHOT_BUSY", "VALIDATION_ERROR"},
                     statuses : SUBSET PageStatuses, cursor : 0..PageTasks]
      /\ listing \in [items : Seq(TaskCards), head : 0..Len(listed)] /\ FirstPart
  BY <1>1 DEF PagesInv, AskingTyped, ListingInv
<1>5. CASE listing.head \in {Unread, HeadCursor}
  <2>1. /\ listing' = [items |-> listing.items \o page.items, head |-> HeadCursor]
        /\ asking' = [asking EXCEPT !.cursor = page.next,
                                    !.at = IF page.next = FirstPage THEN "read" ELSE "asked"]
    BY <1>5 DEF ReceivePage
  <2>2. F \in Seq(1..PageTasks) /\ Len(F) \in Nat /\ \A i \in 1..Len(F) : F[i] \in 1..PageTasks
    BY <1>3, ListedOnce, ElementOfSeq
  <2>3. \E k \in 0..Len(F) : /\ asking.cursor = (IF k = 0 THEN FirstPage ELSE F[k])
                             /\ listing.items = Cards(board, st, k)
    <3>1. CASE listing.head = Unread
      <4>1. listing.items = <<>> /\ asking.cursor = FirstPage
        BY <1>4, <3>1 DEF FirstPart
      <4>2. 0 \in 0..Len(F)
        BY <2>2
      <4>3. Cards(board, st, 0) = <<>>
        BY <1>3, <4>2, CardsAreSequences
      <4> HIDE DEF F, board, st
      <4> QED BY <4>1, <4>2, <4>3
    <3>2. CASE listing.head # Unread
      <4>1. listing.head = HeadCursor
        BY <1>5, <3>2
      <4>2. PICK k \in 1..Len(F) : asking.cursor = F[k] /\ listing.items = Cards(board, st, k)
        BY <1>3, <1>4, <3>2, <4>1 DEF FirstPart
      <4>3. k \in 0..Len(F) /\ k # 0
        BY <2>2
      <4> HIDE DEF F, board, st
      <4> QED BY <4>2, <4>3
    <3> QED BY <3>1, <3>2
  <2>4. PICK k \in 0..Len(F) : /\ asking.cursor = (IF k = 0 THEN FirstPage ELSE F[k])
                               /\ listing.items = Cards(board, st, k)
    BY <2>3
  <2>5. PICK m \in k..Len(F) : /\ Cards(board, st, k) \o page.items = Cards(board, st, m)
                               /\ page.next = IF m < Len(F) THEN F[m] ELSE FirstPage
                               /\ m < Len(F) => m > k
    <3>1. k \in 0..Len(FilteredTasks(board, st)) /\ asking.cursor = CursorAt(board, st, k)
      BY <2>4 DEF CursorAt
    <3>2. GoesOn(board, st, k)
      <4> HIDE DEF board, st
      <4> QED BY <1>3, <3>1, PageGoesOn
    <3> QED BY <3>1, <3>2 DEF GoesOn
  <2>6. m \in Nat /\ k \in Nat /\ m <= Len(F) /\ m \in 0..Len(F) /\ (m < Len(F) => m \in 1..Len(F))
    <3> HIDE DEF F
    <3> QED BY <2>2, <2>5
  <2>7. Cards(board, st, m) \in Seq(TaskCards)
    <3>1. m \in 0..Len(FilteredTasks(board, st))
      BY <2>6
    <3> HIDE DEF board, st
    <3> QED BY <1>3, <3>1, CardsAreSequences
  <2>8. page.next \in 0..PageTasks /\ (m < Len(F) => page.next # FirstPage)
        /\ (~(m < Len(F)) => page.next = FirstPage)
    <3>1. m < Len(F) => F[m] \in 1..PageTasks
      BY <2>2, <2>6
    <3> HIDE DEF F, page
    <3> QED BY <2>5, <3>1, TaskPagesAssumption DEF FirstPage
  <2> DEFINE next == page.next
             at == IF next = FirstPage THEN "read" ELSE "asked"
  <2>9. /\ listing'.items = Cards(board, st, m) /\ listing'.head = HeadCursor
        /\ listing' \in [items : Seq(TaskCards), head : 0..Len(listed)]
    <3>1. HeadCursor \in 0..Len(listed)
      BY <1>3
    <3> HIDE DEF page, board, st, F
    <3> QED BY <2>1, <2>4, <2>5, <2>7, <3>1
  <2>10. /\ asking'.statuses = st /\ asking'.cursor = next /\ asking'.at = at
         /\ asking' \in [at : {"idle", "asked", "read", "SNAPSHOT_BUSY", "VALIDATION_ERROR"},
                         statuses : SUBSET PageStatuses, cursor : 0..PageTasks]
    <3> HIDE DEF page
    <3> QED BY <1>4, <2>1, <2>8
  <2> HIDE DEF next
  <2>11. AskingTyped'
    BY <1>1, <2>9, <2>10 DEF AskingTyped
  <2>12. listed'[listing'.head] = board
    BY <1>1, <1>3, <2>9
  <2>13. FilteredTasks(listed'[listing'.head], asking'.statuses) = F
    BY <2>10, <2>12
  <2>14. ListingInv'
    <3>1. CASE m < Len(F)
      <4>1. next = F[m] /\ asking'.at = "asked"
        BY <2>5, <2>8, <2>10, <3>1 DEF next
      <4>2. FirstPart'
        <5>1. \E i \in 1..Len(F) : /\ asking'.cursor = F[i]
                                   /\ listing'.items = Cards(board, st, i)
          <6> HIDE DEF F, board, st
          <6> QED BY <2>6, <2>9, <2>10, <3>1, <4>1
        <5>2. listing'.head # Unread
          BY <1>3, <2>9
        <5> HIDE DEF F, board, st
        <5> QED BY <2>10, <2>12, <2>13, <5>1, <5>2 DEF FirstPart, st
      <4> QED BY <4>1, <4>2 DEF ListingInv
    <3>2. CASE ~(m < Len(F))
      <4>1. m = Len(F) /\ asking'.at = "read"
        <5>1. m = Len(F)
          <6> HIDE DEF F
          <6> QED BY <2>2, <2>6, <3>2
        <5>2. asking'.at = "read"
          BY <2>8, <2>10, <3>2 DEF next
        <5> QED BY <5>1, <5>2
      <4>2. WholeList'
        <5>1. listing'.items = Cards(board, st, Len(F)) /\ listing'.head # Unread
          BY <1>3, <2>9, <4>1
        <5> HIDE DEF F, board, st
        <5> QED BY <2>10, <2>12, <2>13, <5>1 DEF WholeList, st
      <4> QED BY <4>1, <4>2 DEF ListingInv
    <3> QED BY <3>1, <3>2
  <2> QED BY <1>2, <2>11, <2>14 DEF PagesInv
<1>6. CASE listing.head \notin {Unread, HeadCursor}
  <2>1. asking' = [asking EXCEPT !.at = "SNAPSHOT_BUSY"] /\ listing' = listing
    BY <1>6 DEF ReceivePage
  <2>2. AskingTyped'
    BY <1>1, <1>4, <2>1 DEF AskingTyped
  <2>3. asking'.at = "SNAPSHOT_BUSY"
    BY <1>4, <2>1
  <2>4. ListingInv'
    BY <2>3 DEF ListingInv
  <2> QED BY <1>2, <2>2, <2>4 DEF PagesInv
<1> QED BY <1>5, <1>6

\* A cursor is refused only where its task left the statuses.
LEMMA PageRefused ==
  ASSUME PagesInv, CursorIsRefused
  PROVE  PagesInv'
<1>1. /\ asking.at = "asked" /\ listed' = listed /\ listing' = listing
      /\ ~PageAccepts(FilteredTasks(BoardNow, asking.statuses), asking.cursor)
      /\ asking' = [asking EXCEPT !.at = "VALIDATION_ERROR"]
  BY DEF CursorIsRefused
<1>2. BoardsInv'
  BY <1>1 DEF PagesInv, BoardsInv
<1>3. AskingTyped' /\ asking'.at = "VALIDATION_ERROR" /\ asking'.statuses = asking.statuses
  BY <1>1 DEF PagesInv, AskingTyped
<1>4. /\ HeadCursor = Len(listed) /\ Len(listed) \in Nat /\ HeadCursor \in 1..Len(listed)
      /\ BoardNow \in TaskBoards /\ BoardNow = listed[Len(listed)]
      /\ \A i \in 1..Len(listed) : listed[i] \in TaskBoards
  BY ListedBoards
<1>5. asking.cursor # FirstPage /\ listing.head # Unread
  BY <1>1 DEF PageAccepts, PagesInv, ListingInv, FirstPart
<1> DEFINE h == listing.head
           old == FilteredTasks(listed[h], asking.statuses)
           now == FilteredTasks(BoardNow, asking.statuses)
<1>6. h \in 1..Len(listed)
  BY <1>4, <1>5 DEF PagesInv, AskingTyped, Unread
<1>7. PICK k \in 1..Len(old) : asking.cursor = old[k]
  BY <1>1, <1>5 DEF PagesInv, ListingInv, FirstPart
<1>8. asking.cursor \in ListedOf(listed[h], asking.statuses)
  BY <1>4, <1>6, <1>7, ListedOnce
<1>9. asking.cursor \notin ListedOf(BoardNow, asking.statuses)
  <2>1. asking.cursor \notin ToSet(now)
    BY <1>1 DEF PageAccepts
  <2>2. \A t \in ListedOf(BoardNow, asking.statuses) : \E i \in DOMAIN now : now[i] = t
    BY <1>4, ListedOnce
  <2> QED BY <2>1, <2>2 DEF ToSet
<1>10. h < Len(listed)
  <2>1. h # Len(listed)
    BY <1>4, <1>8, <1>9
  <2> HIDE DEF h
  <2> QED BY <1>4, <1>6, <2>1
<1>11. asking.statuses # {}
  <2>1. IdsOn(listed[h]) \subseteq IdsOn(BoardNow)
    <3>1. h <= Len(listed) /\ Len(listed) \in 1..Len(listed)
      BY <1>4, <1>6
    <3> QED BY <1>4, <1>6, <3>1 DEF PagesInv, BoardsInv
  <2> QED BY <1>8, <1>9, <2>1 DEF ListedOf
<1>12. ListingInv'
  BY <1>1, <1>3, <1>10, <1>11 DEF ListingInv
<1> QED BY <1>2, <1>3, <1>12 DEF PagesInv

LEMMA PagesStep == PagesInv /\ [PagesNext]_pageVars => PagesInv'
<1> SUFFICES ASSUME PagesInv, [PagesNext]_pageVars PROVE PagesInv'
  OBVIOUS
<1>1. ASSUME NEW t \in 1..PageTasks, TaskIsCreated(t) \/ TaskMoves(t) PROVE PagesInv'
  BY <1>1, BoardSteps
<1>2. ASSUME NEW statuses \in {{}, {"QUEUED"}}, AskFirstPage(statuses) PROVE PagesInv'
  <2>1. statuses \in SUBSET PageStatuses
    BY DEF PageStatuses
  <2> QED BY <1>2, <2>1, AskStep
<1>3. CASE UNCHANGED pageVars
  BY <1>3 DEF pageVars, PagesInv, BoardsInv, AskingTyped, ListingInv, FirstPart, WholeList
<1> QED BY <1>1, <1>2, <1>3, PageReceived, PageRefused DEF PagesNext

\* The board a console puts together from pages is the list of one moment, every task
\* once, for any number of tasks and any page size, whatever is committed between the
\* pages (management-projection.ts listTasks, dashboard readAllTasks).
THEOREM BoardsAreWhole == PagesSpec => []BoardsAreComplete
<1>1. PagesInv => BoardsAreComplete
  <2> SUFFICES ASSUME PagesInv PROVE BoardsAreComplete
    OBVIOUS
  <2>1. ASSUME asking.at = "read"
        PROVE  LET board == listed[listing.head]
                   ids == FilteredTasks(board, asking.statuses)
               IN listing.items = [i \in DOMAIN ids |-> CardOf(ids[i], board[ids[i]])]
    <3> DEFINE board == listed[listing.head]
               ids == FilteredTasks(board, asking.statuses)
    <3>1. listing.head # Unread /\ listing.items = Cards(board, asking.statuses, Len(ids))
      BY <2>1 DEF PagesInv, ListingInv, WholeList
    <3>2. listing.head \in 1..Len(listed)
      BY <3>1, ListedBoards DEF PagesInv, AskingTyped, Unread
    <3>3. DOMAIN ids = 1..Len(ids)
      BY <3>2, ListedBoards, ListedOnce
    <3> QED BY <3>1, <3>3 DEF Cards
  <2>2. asking.at = "VALIDATION_ERROR" => asking.statuses # {} /\ listing.head # HeadCursor
    <3>1. Len(listed) \in Nat /\ HeadCursor = Len(listed)
      BY ListedBoards
    <3> QED BY <3>1 DEF PagesInv, ListingInv
  <2> QED BY <2>1, <2>2 DEF BoardsAreComplete
<1> QED BY <1>1, PagesStart, PagesStep, PTL DEF PagesSpec
=============================================================================
