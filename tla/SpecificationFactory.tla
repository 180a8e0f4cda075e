------------------------- MODULE SpecificationFactory -------------------------
(***************************************************************************)
(* SpecificationFactory                                                    *)
(* (src/autonomous_software_factory/workers/specification/blueprint.py):   *)
(* the four phases, the choice of an architecture, the lock of the         *)
(* blueprint and the two checks of what was locked, verify_integrity and   *)
(* verify_artifact_hash.                                                   *)
(*                                                                         *)
(* Nothing is frozen by a lock: whoever holds the factory can edit the     *)
(* blueprint, select another architecture, replace the options or the      *)
(* whole blueprint, and call blueprint.lock() without any validation.  An  *)
(* option is known by its place in the list.  A call that raises changes   *)
(* nothing and is no step.                                                 *)
(***************************************************************************)
EXTENDS Blueprints

CONSTANTS Artifacts,   \* files that carry a spec hash
          MaxOptions   \* bound: architectural options proposed

ASSUME MaxOptionsAssumption == MaxOptions \in Nat

\* BlueprintPhase, in the order of its members.
Phases == <<"domain_research", "architectural_options", "constraint_questionnaire",
            "blueprint_lock">>
PhaseNames == {Phases[i] : i \in DOMAIN Phases}

\* spec_hash before the lock, which no digest is.
None == <<>>

VARIABLES phase,        \* current_phase
          history,      \* _phase_history
          options,      \* the selected flags of architectural_options
          content,      \* blueprint
          locked,       \* blueprint.is_locked
          lockedHash,   \* blueprint.spec_hash
          artifact,     \* [Artifacts -> the hash each one carries]
          \* history
          sealed,       \* content at the first lock of this blueprint
          validated,    \* that lock was made by lock_blueprint
          writtenFor    \* [Artifacts -> the content sealed when it was written, if any]

factory == <<phase, history, options>>
lock == <<locked, lockedHash, sealed, validated>>
artifacts == <<artifact, writtenFor>>
factoryVars == <<factory, content, lock, artifacts>>

FactoryInit ==
    /\ phase = Phases[1] /\ history = <<>> /\ options = <<>>
    /\ content = Draft
    /\ locked = FALSE /\ lockedHash = None /\ sealed = Draft /\ validated = FALSE
    /\ artifact = [a \in Artifacts |-> None] /\ writtenFor = [a \in Artifacts |-> {}]

-------------------------------------------------------------------------------
\* Mutant: the history gets the phase that begins.
AdvanceRecordsNew ==
    \E i \in 1..(Len(Phases) - 1) :
        /\ phase = Phases[i]
        /\ phase' = Phases[i + 1]
        /\ history' = Append(history, phase')
        /\ UNCHANGED <<options, content, lock, artifacts>>

\* advance_phase; it raises in the last phase.
AdvancePhase ==
    \E i \in 1..(Len(Phases) - 1) :
        /\ phase = Phases[i]
        /\ phase' = Phases[i + 1]
        /\ history' = Append(history, phase)
        /\ UNCHANGED <<options, content, lock, artifacts>>

OptionLists == UNION {[1..n -> BOOLEAN] : n \in 0..MaxOptions}

\* The list of ArchitecturalOptions is extended or replaced by any other; an
\* option is made selected or not.
ProposeOptions ==
    /\ options' \in OptionLists
    /\ UNCHANGED <<phase, history, content, lock, artifacts>>

\* select_architecture deselects every option before it selects one.
SelectArchitecture(i) ==
    /\ i \in DOMAIN options
    /\ options' = [j \in DOMAIN options |-> j = i]
    /\ UNCHANGED <<phase, history, content, lock, artifacts>>

\* selected_architecture: the first one selected, 0 for None.
SelectedArchitecture ==
    IF \E i \in DOMAIN options : options[i]
    THEN CHOOSE i \in DOMAIN options : options[i] /\ \A j \in 1..(i - 1) : ~options[j]
    ELSE 0

\* Fields of the blueprint are assigned, also after the lock.
EditBlueprint ==
    /\ content' \in Contents
    /\ UNCHANGED <<factory, lock, artifacts>>

\* factory.blueprint is assigned a new blueprint, which is not locked.
ReplaceBlueprint ==
    /\ content' \in Contents
    /\ locked' = FALSE /\ lockedHash' = None /\ validated' = FALSE
    /\ UNCHANGED <<factory, sealed, artifacts>>

Complete(c) ==
    /\ c.title # Empty /\ c.description # Empty
    /\ c.entities # <<>> /\ c.business_rules # <<>>

\* validate_for_lock has nothing to report.
ReadyForLock ==
    /\ Complete(content)
    /\ SelectedArchitecture # 0
    /\ phase = Phases[Len(Phases)]

\* Mutant: a locked blueprint is locked again.
LockAgain ==
    /\ locked' = TRUE
    /\ lockedHash' = FactoryDigest(content)
    /\ sealed' = IF locked THEN sealed ELSE content
    /\ UNCHANGED <<factory, content, artifacts>>

\* blueprint.lock(): once, of whatever content.
Lock ==
    /\ ~locked
    /\ locked' = TRUE
    /\ lockedHash' = FactoryDigest(content)
    /\ sealed' = content
    /\ UNCHANGED <<factory, content, artifacts>>

\* A holder of the blueprint locks it.
LockDirectly == Lock /\ UNCHANGED validated

\* lock_blueprint: validated, then locked.
LockBlueprint == ReadyForLock /\ Lock /\ validated' = TRUE

\* An agent writes an artifact and embeds blueprint.spec_hash in it.
WriteArtifact(a) ==
    /\ artifact' = [artifact EXCEPT ![a] = lockedHash]
    /\ writtenFor' = [writtenFor EXCEPT ![a] = IF locked THEN {sealed} ELSE {}]
    /\ UNCHANGED <<factory, content, lock>>

\* verify_integrity recomputes the hash.
VerifyIntegrity == locked /\ lockedHash # None /\ FactoryDigest(content) = lockedHash

\* Mutant: a blueprint that is not locked is not refused.
VerifyUnlocked(a) == artifact[a] = lockedHash

\* verify_artifact_hash compares two stored hashes.
VerifyArtifactHash(a) == locked /\ artifact[a] = lockedHash

FactoryNext ==
    \/ AdvancePhase \/ ProposeOptions \/ EditBlueprint \/ ReplaceBlueprint
    \/ LockDirectly \/ LockBlueprint
    \/ \E i \in DOMAIN options : SelectArchitecture(i)
    \/ \E a \in Artifacts : WriteArtifact(a)

FactorySpec == FactoryInit /\ [][FactoryNext]_factoryVars

-------------------------------------------------------------------------------
FactoryHashes == {None} \cup {FactoryDigest(c) : c \in Contents}

\* Types; the history has the phases passed, in order.
FactoryTypeOK ==
    /\ history \in Seq(PhaseNames) /\ Len(history) < Len(Phases)
    /\ history = SubSeq(Phases, 1, Len(history)) /\ phase = Phases[Len(history) + 1]
    /\ options \in OptionLists
    /\ content \in Contents /\ sealed \in Contents
    /\ locked \in BOOLEAN /\ validated \in BOOLEAN
    /\ lockedHash \in FactoryHashes /\ artifact \in [Artifacts -> FactoryHashes]
    /\ writtenFor \in [Artifacts -> SUBSET Contents]

\* What an artifact's hash proves: it is accepted only while the blueprint is
\* locked and only if it was written under a lock, of this blueprint or of one
\* replaced since; then exactly if the contents that the two locks sealed mean the
\* same, unless a separator or an empty name is hidden in them.  Edits and further
\* calls of lock() change nothing about that.  That the content is complete is
\* known only of a lock made by lock_blueprint (blueprint.py:99-123, 139-143;
\* models.py:153-160).
AcceptedIsOfSealedContent ==
    /\ \A a \in Artifacts :
          /\ VerifyArtifactHash(a) => locked /\ writtenFor[a] # {}
          /\ locked => \A c \in writtenFor[a] :
                /\ SameMeaning(c, sealed) => VerifyArtifactHash(a)
                /\ VerifyArtifactHash(a) /\ Plain(c) /\ Plain(sealed)
                       => SameMeaning(c, sealed)
    /\ validated => Complete(sealed) /\ phase = Phases[Len(Phases)]

\* What verify_integrity notices of edits after the lock: it gives no false alarm,
\* and misses no change of meaning unless a separator or an empty name is hidden in
\* a text (models.py:166-181).  Another choice of architecture it never sees.
IntegrityNotices ==
    locked => /\ SameMeaning(content, sealed) => VerifyIntegrity
              /\ VerifyIntegrity /\ Plain(content) /\ Plain(sealed)
                     => SameMeaning(content, sealed)
===============================================================================
