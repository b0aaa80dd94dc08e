----------------------------- MODULE SourceFiles -----------------------------
(***************************************************************************)
(* The files of one cached source (generator/internal/source/source.go):   *)
(* what a fetch makes of an artifact whose hash is the locked one, and     *)
(* what verify looks at to accept a cache directory.                       *)
(*                                                                         *)
(* A locked name and the name of an archive entry are the same thing:      *)
(*   key    its text with forward slashes, by which an entry is found;     *)
(*   clean  path.Clean of it, as validateLock has it, <<>> if refused;     *)
(*   path   where it is on the disk, folded if the disk folds case;        *)
(*   dots   its text contains "..".                                        *)
(* A directory is a function from paths to contents, a path the sequence   *)
(* of its components.  Hashes are injective: a content is its hash.        *)
(***************************************************************************)
EXTENDS Integers, Sequences, FiniteSets, SequencesExt, FiniteSetsExt

NoFiles == [path \in {} |-> <<"none">>]

ArtifactBytes(a) == <<"artifact", a.id>>
EntryBytes(e) == <<"entry", e.content>>
Manifest(s) == <<"manifest", s.id, s.version, s.artifact>>

SdkFile == <<"artifact">>
PackageFile == <<"artifact.nupkg">>
ManifestFile == <<"source.json">>

FromSdk(s) == s.retrieval = "sdk"
ArtifactFile(s) == IF FromSdk(s) THEN SdkFile ELSE PackageFile

Below(p, q) == Len(p) < Len(q) /\ SubSeq(q, 1, Len(p)) = p
IsDirectory(d, p) == \E q \in DOMAIN d : Below(p, q)
Exists(d, p) == p \in DOMAIN d \/ IsDirectory(d, p)

\* O_CREATE and O_EXCL in a directory that is there: nothing has the path, and
\* no file is where one of its directories should be.
Creatable(d, p) == ~Exists(d, p) /\ ~\E q \in DOMAIN d : Below(q, p)

Written(d, p, content) == [q \in DOMAIN d \cup {p} |-> IF q = p THEN content ELSE d[q]]

-----------------------------------------------------------------------------
(***************************************************************************)
(* safeJoin: a path that leaves its root is refused.                       *)
(***************************************************************************)
Inside(name) == name.path # <<>> /\ Head(name.path) # ".."

\* The artifact opens as a zip, and an entry of it can be read to its end and
\* keeps the limit on sizes.
Readable(e) == ~e.big /\ ~e.broken

(***************************************************************************)
(* extractSelected: the entries under a locked name, in the order of the   *)
(* archive, each to a file that is not there yet; then no name is missing. *)
(***************************************************************************)
Selected(a, names) ==
    LET wanted == {names[i].key : i \in 1..Len(names)}
    IN  {j \in 1..Len(a.entries) : a.entries[j].name.key \in wanted}

\* A plausible slip: a name that no entry has is passed over.
NoneMissing(a, names) == TRUE

AllFound(a, names) ==
    \A i \in 1..Len(names) : \E j \in 1..Len(a.entries) : a.entries[j].name.key = names[i].key

ExtractSelected(a, names) ==
    LET S == Selected(a, names)
        Path(j) == a.entries[j].name.path
        Collides(j) == \E i \in S : i < j /\ ~Creatable(Written(NoFiles, Path(i), <<>>), Path(j))
    IN  [files |-> [p \in {Path(j) : j \in S} |-> EntryBytes(a.entries[CHOOSE j \in S : Path(j) = p])],
         failed |-> \/ ~a.zip
                    \/ \E i \in 1..Len(names) : names[i].dots
                    \/ \E j \in S : ~Readable(a.entries[j]) \/ ~Inside(a.entries[j].name) \/ Collides(j)
                    \/ ~AllFound(a, names)]

(***************************************************************************)
(* The stage of a fetch: the selected files and the artifact, none of them *)
(* over another.  An SDK file is the artifact itself, and no directory is  *)
(* made for it.                                                            *)
(***************************************************************************)
Content(s, a) ==
    IF FromSdk(s)
    THEN LET p == s.files[1].path
         IN  [files |-> Written(Written(NoFiles, p, ArtifactBytes(a)), SdkFile, ArtifactBytes(a)),
              failed |-> Len(p) # 1 \/ ~Inside(s.files[1]) \/ p = SdkFile]
    ELSE LET x == ExtractSelected(a, s.files)
         IN  [files |-> Written(x.files, PackageFile, ArtifactBytes(a)),
              failed |-> x.failed \/ ~Creatable(x.files, PackageFile)]

(***************************************************************************)
(* fetchOne after the download: the hash, the stage, and source.json,      *)
(* which is written over a file of that name.                              *)
(***************************************************************************)
Stage(s, a) ==
    IF a.id # s.artifact THEN [state |-> "hash-mismatch", files |-> NoFiles]
    ELSE LET c == Content(s, a)
         IN  IF c.failed \/ IsDirectory(c.files, ManifestFile)
             THEN [state |-> "error", files |-> NoFiles]
             ELSE [state |-> "fetched", files |-> Written(c.files, ManifestFile, Manifest(s))]

-----------------------------------------------------------------------------
\* verifyHash
HashIs(d, p, artifact) == p \in DOMAIN d /\ d[p] = <<"artifact", artifact>>

\* The map of the entries keeps the last one of a name.
EntryOf(a, name) ==
    LET at == {i \in 1..Len(a.entries) : a.entries[i].name.key = name.key}
    IN  a.entries[Max(at)]

\* A plausible slip: nobody looks into the locked files.
SelectedListed(a, d, names) == a.zip

(***************************************************************************)
(* verifySelectedAgainstArchive: every locked file is the entry's content. *)
(***************************************************************************)
SelectedMatch(a, d, names) ==
    /\ a.zip
    /\ \A i \in 1..Len(names) :
         /\ \E j \in 1..Len(a.entries) : a.entries[j].name.key = names[i].key
         /\ Readable(EntryOf(a, names[i]))
         /\ names[i].path \in DOMAIN d
         /\ d[names[i].path] = EntryBytes(EntryOf(a, names[i]))

(***************************************************************************)
(* verifyOne: "missing" only if there is no artifact at all.  `a` is the   *)
(* artifact of the locked hash, which the cached one is by then.           *)
(***************************************************************************)
VerifyOne(s, a, d) ==
    IF ~Exists(d, ArtifactFile(s)) THEN "missing"
    ELSE IF /\ HashIs(d, ArtifactFile(s), s.artifact)
            /\ \A i \in 1..Len(s.files) : Inside(s.files[i]) /\ Exists(d, s.files[i].path)
            /\ IF FromSdk(s) THEN HashIs(d, s.files[1].path, s.artifact)
               ELSE SelectedMatch(a, d, s.files)
            /\ ManifestFile \in DOMAIN d /\ d[ManifestFile] = Manifest(s)
         THEN "verified" ELSE "invalid"
=============================================================================
