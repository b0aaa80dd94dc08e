---------------------------- MODULE ReviewedSlice ----------------------------
(***************************************************************************)
(* The reviewed slice (src/generator/internal/slice/slice.go): Go files    *)
(* rendered from templates that were reviewed against pinned sources, and  *)
(* a manifest of them.  winapiverify reads that manifest (AbiVerification).*)
(***************************************************************************)
EXTENDS AbiVerification

CONSTANTS
  Pins,           \* Seq([id, version, hash]): the reviewed sources
  Descriptors,    \* Seq([source, name]): the reviewed parts of them
  ArtifactPaths   \* Seq(path): the files

ASSUME PinsAssumption ==
  /\ Descriptors \in Seq(ToSet(Descriptors)) /\ ArtifactPaths \in Seq(ToSet(ArtifactPaths))
  /\ \A d \in ToSet(Descriptors) : \E p \in ToSet(Pins) : p.id = d.source
  /\ \A p \in ToSet(Pins) : \E d \in ToSet(Descriptors) : d.source = p.id
  /\ \A p, q \in ToSet(Pins) : p.id = q.id => p = q

PinFor(id) == CHOOSE p \in ToSet(Pins) : p.id = id

(* Every pin is what the first source of its name in the lock says.        *)
VerifyPins(lock) ==
  \A pin \in ToSet(Pins) :
    \E k \in DOMAIN lock.sources :
      /\ lock.sources[k].id = pin.id /\ \A j \in 1..k - 1 : lock.sources[j].id # pin.id
      /\ lock.sources[k].version = pin.version /\ lock.sources[k].hash = pin.hash

(* A file is its template with the module, the generator's version and the *)
(* versions of the pins filled in.                                         *)
Rendered(path, module) == <<path, module, Version, {<<p.id, p.version>> : p \in ToSet(Pins)}>>

SliceManifest(module) ==
  [wellFormed |-> TRUE, generator |-> Version,
   inputs |-> [i \in DOMAIN Descriptors |->
                 LET pin == PinFor(Descriptors[i].source)
                 IN [descriptor |-> Descriptors[i].name, descriptorHash |-> Hash(Descriptors[i].name),
                     source |-> pin.id, version |-> pin.version, hash |-> pin.hash]],
   artifacts |-> [i \in DOMAIN ArtifactPaths |->
                    [path |-> ArtifactPaths[i], hash |-> Hash(Rendered(ArtifactPaths[i], module))]]]

(* The files and their manifest, or <<>> when the lock is not the reviewed *)
(* one; the manifest is a function of the pins, and not of the lock.       *)
Render(lock, module) ==
  IF ~VerifyPins(lock) THEN <<>>
  ELSE <<[files |-> [p \in ToSet(ArtifactPaths) |-> Rendered(p, module)], manifest |-> SliceManifest(module)]>>
=============================================================================
