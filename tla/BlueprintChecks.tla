---------------------------- MODULE BlueprintChecks ----------------------------
(***************************************************************************)
(* The locks and checks of the two other blueprint classes of the          *)
(* repository, on one specification that its holders edit: the shared one  *)
(* (pipeline/shared/models.py), whose hash the coder and the QA agent      *)
(* recompute, and the older one (pipeline/state.py), whose                 *)
(* validate_spec_hash compares two stored hashes.  Both have the selected  *)
(* architecture as a field.  Neither freezes a field by its lock.          *)
(***************************************************************************)
EXTENDS Blueprints

CONSTANT Architectures   \* values of the field, 0 for none

ASSUME ArchitecturesAssumption == 0 \in Architectures

\* spec_hash is None or "" before a lock, which no digest is.
NoSpecHash == <<>>

VARIABLES specification,  \* the content both classes hold
          architecture,   \* selected_architecture
          sharedHash,     \* feature.spec_hash, from the lock of the shared blueprint
          legacyHash,     \* spec_hash of the older blueprint, "" before its lock
          legacyCopy,     \* spec_hash of the older feature request
          \* history
          sharedSealed    \* content and architecture when the shared one was last locked

shared == <<sharedHash, sharedSealed>>
legacy == <<legacyHash, legacyCopy>>
checksVars == <<specification, architecture, shared, legacy>>

ChecksInit ==
    /\ specification = Draft /\ architecture = 0
    /\ sharedHash = NoSpecHash /\ sharedSealed = <<Draft, 0>>
    /\ legacyHash = NoSpecHash /\ legacyCopy = NoSpecHash

-------------------------------------------------------------------------------
\* Fields are assigned, before and after a lock.
EditSpecification ==
    /\ specification' \in Contents /\ architecture' \in Architectures
    /\ UNCHANGED <<shared, legacy>>

\* The shared blueprint can be locked any number of times; the hash lock()
\* returns is kept in feature.spec_hash.
SharedLock ==
    /\ sharedHash' = SharedDigest(specification, architecture)
    /\ sharedSealed' = <<specification, architecture>>
    /\ UNCHANGED <<specification, architecture, legacy>>

\* The check of the coder and QA agents passes.
SharedCheck == sharedHash \in {NoSpecHash, SharedDigest(specification, architecture)}

\* The older lock raises the second time.
LegacyLock ==
    /\ legacyHash = NoSpecHash
    /\ legacyHash' = LegacyDigest(specification, architecture)
    /\ UNCHANGED <<specification, architecture, shared, legacyCopy>>

\* Intake keeps the hash of the older blueprint in the feature request.
LegacyAdopt ==
    /\ legacyHash # NoSpecHash
    /\ legacyCopy' = legacyHash
    /\ UNCHANGED <<specification, architecture, shared, legacyHash>>

\* validate_spec_hash does not raise.
ValidateSpecHash == legacyCopy = legacyHash

ChecksNext == EditSpecification \/ SharedLock \/ LegacyLock \/ LegacyAdopt

ChecksSpec == ChecksInit /\ [][ChecksNext]_checksVars

-------------------------------------------------------------------------------
\* Which edits the two checks notice.  The one on the shared blueprint passes exactly
\* if content and architecture are those of its last lock: it sees every edit since,
\* also a mere reordering of a list, and a revision that was locked again passes.
\* The older one sees none: its docstring calls it a check that the "pipeline resets
\* if spec hash drifts", but no edit changes either of the two hashes it compares, and
\* the older lock cannot be repeated (shared/models.py:159-168; state.py:67-78, 230-237).
ChecksNotice ==
    /\ sharedHash # NoSpecHash =>
          (SharedCheck <=> <<specification, architecture>> = sharedSealed)
    /\ legacyCopy # NoSpecHash => ValidateSpecHash
===============================================================================
