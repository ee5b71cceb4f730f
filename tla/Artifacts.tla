------------------------------ MODULE Artifacts ------------------------------
(***************************************************************************)
(* The artifact repository in the file system: a put writes its content to *)
(* a temporary file, links it under its hash, checks it there, and links a *)
(* manifest under the name of the artifact; no link replaces a file.  Puts  *)
(* interleave at every file operation, any of them may fail, and a process *)
(* that dies leaves its temporary files to the next one.  Records name      *)
(* artifacts; the commit of a record also writes a link for each one it    *)
(* names, and a clean-up offers what has no link.  A blob may be damaged    *)
(* from outside.                                                           *)
(***************************************************************************)
EXTENDS Naturals, FiniteSets

CONSTANTS PutCalls,    \* the calls of put
          ArtifactIds,
          Contents,    \* a content stands for its hash and its size too
          MaxDamage    \* how many blobs may be damaged

ASSUME ArtifactsAssumption == MaxDamage \in Nat /\ "none" \notin PutCalls

VARIABLES
  puts,        \* call -> [at, id, content, created, outcome]
  temps,       \* the temporary files: <<call, "content" | "manifest">>
  blobs,       \* content -> "none", "whole", "damaged"
  manifests,   \* id -> metadata
  references,  \* <<id, content>> in the records
  links,       \* the artifacts artifact_references has a row of
  reading,     \* the reader: [id, content, outcome]
  preview      \* a clean-up preview: [at, todo, offered], and the artifacts
               \* that records named when it began

recordedVars == <<references, links>>
artifactVars == <<puts, temps, blobs, manifests, recordedVars, reading, preview>>

NoManifest == [content |-> "none", created |-> "none"]
IdlePut == [at |-> "idle", id |-> "none", content |-> "none", created |-> "none", outcome |-> "none"]
NoPreview == [at |-> "idle", todo |-> {}, offered |-> {}, named |-> {}]
NoRead == [id |-> "none", content |-> "none", outcome |-> "none"]

ArtifactsInit ==
  /\ puts = [p \in PutCalls |-> IdlePut]
  /\ temps = {}
  /\ blobs = [c \in Contents |-> "none"]
  /\ manifests = [i \in ArtifactIds |-> NoManifest]
  /\ references = {}
  /\ links = {}
  /\ reading = NoRead
  /\ preview = NoPreview

Known(id) == manifests[id] # NoManifest
PutAt(p, place) == puts[p].at = place
PutGoes(p, place) == puts' = [puts EXCEPT ![p].at = place]
PutEnds(p, outcome) == puts' = [puts EXCEPT ![p].at = "ended", ![p].outcome = outcome]
RemovesTemp(p, kind) == temps' = temps \ {<<p, kind>>}

(***************************************************************************)
(* put                                                                     *)
(***************************************************************************)
\* created is "stated", or "unstated": the time of the call.
Put(p, id, content, created) ==
  /\ PutAt(p, "idle")
  /\ puts' = [puts EXCEPT ![p] = [at |-> "looking", id |-> id, content |-> content,
                                  created |-> created, outcome |-> "none"]]
  /\ temps' = temps \cup {<<p, "content">>}
  /\ UNCHANGED <<blobs, manifests, recordedVars, reading, preview>>

\* getMetadata; an unstated time is the one of the manifest there is.
MayLink(p) == [content |-> puts[p].content,
                 created |-> IF puts[p].created = "stated" THEN "stated" ELSE p]
Same(p) == LET m == manifests[puts[p].id]
           IN m.content = puts[p].content /\ (puts[p].created = "stated" => m.created = "stated")
LookNothing(p) == /\ PutAt(p, "looking") /\ ~Known(puts[p].id)
                  /\ PutGoes(p, "linking")
                  /\ UNCHANGED <<temps, blobs, manifests, recordedVars, reading, preview>>
LookFound(p) == /\ PutAt(p, "looking") /\ Known(puts[p].id)
                /\ RemovesTemp(p, "content")
                /\ IF Same(p) THEN PutGoes(p, "replaying") ELSE PutEnds(p, "conflict")
                /\ UNCHANGED <<blobs, manifests, recordedVars, reading, preview>>
Replays(p) == /\ PutAt(p, "replaying")
              /\ PutEnds(p, IF blobs[puts[p].content] = "whole" THEN "replayed" ELSE "integrity error")
              /\ UNCHANGED <<temps, blobs, manifests, recordedVars, reading, preview>>

\* installNoClobber of the content
LinkBlob(p) == /\ PutAt(p, "linking")
               /\ blobs' = [blobs EXCEPT ![puts[p].content] = IF @ = "none" THEN "whole" ELSE @]
               /\ RemovesTemp(p, "content")
               /\ PutGoes(p, "checking")
               /\ UNCHANGED <<manifests, recordedVars, reading, preview>>
\* assertBlobIntegrity
CheckBlob(p) == /\ PutAt(p, "checking")
                /\ IF blobs[puts[p].content] = "whole" THEN PutGoes(p, "describing")
                   ELSE PutEnds(p, "integrity error")
                /\ UNCHANGED <<temps, blobs, manifests, recordedVars, reading, preview>>

\* installManifest
WriteManifest(p) == /\ PutAt(p, "describing")
                    /\ temps' = temps \cup {<<p, "manifest">>}
                    /\ PutGoes(p, "naming")
                    /\ UNCHANGED <<blobs, manifests, recordedVars, reading, preview>>
\* Mutant: the manifest is renamed into place, over one that is there.
RenameManifest(p) ==
  /\ PutAt(p, "naming")
  /\ manifests' = [manifests EXCEPT ![puts[p].id] = MayLink(p)]
  /\ RemovesTemp(p, "manifest")
  /\ PutEnds(p, "stored")
  /\ UNCHANGED <<blobs, recordedVars, reading, preview>>

LinkManifest(p) ==
  LET id == puts[p].id
  IN /\ PutAt(p, "naming")
     /\ manifests' = IF Known(id) THEN manifests ELSE [manifests EXCEPT ![id] = MayLink(p)]
     /\ RemovesTemp(p, "manifest")
     /\ PutEnds(p, IF ~Known(id) \/ manifests[id] = MayLink(p) THEN "stored" ELSE "conflict")
     /\ UNCHANGED <<blobs, recordedVars, reading, preview>>

\* A file operation fails; the temporary file of a manifest that was not written stays.
Putting(p) == puts[p].at \notin {"idle", "ended"}
PutFails(p) == /\ Putting(p)
               /\ \/ RemovesTemp(p, "content") /\ ~PutAt(p, "naming")
                  \/ RemovesTemp(p, "manifest") /\ PutAt(p, "naming")
                  \/ temps' = temps \cup {<<p, "manifest">>} /\ PutAt(p, "describing")
               /\ PutEnds(p, "io error")
               /\ UNCHANGED <<blobs, manifests, recordedVars, reading, preview>>

\* The process dies; the next one opens the repository, and cleanupTemporaryFiles
\* removes what is old.
RepositoryDies ==
  /\ puts' = [p \in PutCalls |->
                IF Putting(p) THEN [puts[p] EXCEPT !.at = "ended", !.outcome = "lost"] ELSE puts[p]]
  /\ reading' = NoRead /\ preview' = NoPreview
  /\ \E old \in SUBSET temps : temps' = temps \ old
  /\ UNCHANGED <<blobs, manifests, recordedVars>>
Damage(c) == /\ Cardinality({d \in Contents : blobs[d] = "damaged"}) < MaxDamage
             /\ blobs[c] = "whole"
             /\ blobs' = [blobs EXCEPT ![c] = "damaged"]
             /\ UNCHANGED <<puts, temps, manifests, recordedVars, reading, preview>>

(***************************************************************************)
(* The callers.                                                            *)
(***************************************************************************)
\* The fields of the records that name artifacts, and those extractArtifactReferences
\* looks at.
ArtifactFields == {"artifacts", "log_artifact_id", "recovery_checkpoint", "verification",
                   "artifact_ids", "recent_verification"}
TaskResultFields == {"artifacts", "log_artifact_id"}
AgentRunFields   == {"recovery_checkpoint"}
HandoffFields    == {"verification"}
SnapshotFields   == {"artifact_ids", "recent_verification"}
LinkedFields     == TaskResultFields \cup AgentRunFields \cup HandoffFields \cup SnapshotFields

\* The record and the links are of one commit.
CommitReference(id, content, field) ==
  /\ references' = references \cup {<<id, content>>}
  /\ links' = links \cup (IF field \in LinkedFields THEN {id} ELSE {})
  /\ UNCHANGED <<puts, temps, blobs, manifests, reading, preview>>

\* A record names the artifact that was put, or the one that was there.
ReferStored(p, field) == /\ puts[p].outcome \in {"stored", "replayed"}
                         /\ CommitReference(puts[p].id, puts[p].content, field)
ReferExisting(id, field) == Known(id) /\ CommitReference(id, manifests[id].content, field)

\* read and verifiedStream, of an artifact a record names
ReadArtifact(id, content) ==
  /\ reading.outcome # "open" /\ <<id, content>> \in references
  /\ reading' = IF Known(id) /\ blobs[manifests[id].content] # "none"
                THEN [id |-> id, content |-> content, outcome |-> "open"]
                ELSE [id |-> id, content |-> content, outcome |-> "not found"]
  /\ UNCHANGED <<puts, temps, blobs, manifests, recordedVars, preview>>
ReadVerified == /\ reading.outcome = "open"
                /\ reading' = [reading EXCEPT !.outcome =
                     IF blobs[manifests[reading.id].content] = "whole" THEN "read" ELSE "integrity error"]
                /\ UNCHANGED <<puts, temps, blobs, manifests, recordedVars, preview>>

\* previewArtifactCleanup: the artifacts there are, but for the pinned ones and those
\* still in their time of grace; then, for one after the other, whether it has a link.
BeginPreview(kept) ==
  /\ preview.at = "idle"
  /\ preview' = [at |-> "asking", todo |-> {i \in ArtifactIds : Known(i)} \ kept, offered |-> {},
                 named |-> {ref[1] : ref \in references}]
  /\ UNCHANGED <<puts, temps, blobs, manifests, recordedVars, reading>>
AskForLinks(id) ==
  /\ preview.at = "asking" /\ id \in preview.todo
  /\ preview' = [preview EXCEPT !.todo = @ \ {id}, !.offered = IF id \in links THEN @ ELSE @ \cup {id},
                               !.at = IF preview.todo = {id} THEN "shown" ELSE "asking"]
  /\ UNCHANGED <<puts, temps, blobs, manifests, recordedVars, reading>>

ArtifactsNext ==
  \/ \E p \in PutCalls :
       \/ \E id \in ArtifactIds, c \in Contents, created \in {"stated", "unstated"} : Put(p, id, c, created)
       \/ LookNothing(p) \/ LookFound(p) \/ Replays(p) \/ LinkBlob(p) \/ CheckBlob(p)
       \/ WriteManifest(p) \/ LinkManifest(p) \/ PutFails(p)
       \/ \E field \in ArtifactFields : ReferStored(p, field)
  \/ \E id \in ArtifactIds :
       \/ \E field \in ArtifactFields : ReferExisting(id, field)
       \/ \E c \in Contents : ReadArtifact(id, c)
       \/ AskForLinks(id)
  \/ \E kept \in SUBSET ArtifactIds : BeginPreview(kept)
  \/ ReadVerified \/ RepositoryDies \/ \E c \in Contents : Damage(c)

ArtifactsSpec == ArtifactsInit /\ [][ArtifactsNext]_artifactVars
-----------------------------------------------------------------------------
ArtifactsTypeOK ==
  /\ \A c \in Contents : blobs[c] \in {"none", "whole", "damaged"}
  /\ \A i \in ArtifactIds : manifests[i].content \in Contents \cup {"none"}
  /\ references \subseteq ArtifactIds \X Contents /\ links \subseteq ArtifactIds
  /\ preview.at \in {"idle", "asking", "shown"}
  /\ temps \subseteq PutCalls \X {"content", "manifest"}

\* What a record refers to can be read as it was put: an artifact keeps its content
\* whatever puts of the same name or the same content run beside it, a manifest is there
\* only with its blob, a put that ended in this process left no content behind, a read that
\* ends well gave the content the record names, and a clean-up never offers what a record
\* named when it was asked for (local-artifact-repository.ts put, installManifest, read,
\* previewArtifactCleanup; sqlite-domain-repository.ts extractArtifactReferences).
ArtifactsAreKept ==
  /\ \A ref \in references : manifests[ref[1]].content = ref[2]
  /\ \A i \in ArtifactIds : Known(i) => blobs[manifests[i].content] # "none"
  /\ \A p \in PutCalls : puts[p].outcome \in {"stored", "replayed"} =>
       manifests[puts[p].id].content = puts[p].content
  /\ \A p \in PutCalls : PutAt(p, "ended") /\ puts[p].outcome # "lost" => <<p, "content">> \notin temps
  /\ reading.outcome # "not found"
  /\ reading.outcome = "read" => manifests[reading.id].content = reading.content
  /\ preview.offered \cap preview.named = {}
=============================================================================
