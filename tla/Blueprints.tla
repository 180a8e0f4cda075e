------------------------------ MODULE Blueprints ------------------------------
(***************************************************************************)
(* The content of a specification and what the three blueprint classes of  *)
(* the repository hash of it: the factory's                                *)
(* (src/autonomous_software_factory/pipeline/models.py), the shared one    *)
(* (pipeline/shared/models.py) and the older one (pipeline/state.py).      *)
(*                                                                         *)
(* SHA-256 is taken to be collision-free, so that a hash is the text that  *)
(* is hashed.  Of that text the model keeps what decides whether two       *)
(* contents give the same one: a name is the sequence of its parts between *)
(* commas, a title or description the sequence of its parts between bars,  *)
(* and a part is a number, 0 for the empty text.  Names have no bar.       *)
(***************************************************************************)
EXTENDS Integers, SequencesExt

CONSTANTS Contents,    \* what editors make of the specification
          Draft        \* what they begin with

Empty == <<0>>

\* The lists of a blueprint that _compute_hash sorts and joins.
ListFields == {"entities", "business_rules", "formal_specs"}

\* A blueprint has these fields and no other: two texts, three lists of names.
IsContent(c) ==
    /\ c = [title |-> c.title, description |-> c.description, entities |-> c.entities,
            business_rules |-> c.business_rules, formal_specs |-> c.formal_specs,
            constraints |-> c.constraints]
    /\ c.title \in Seq(Nat) /\ c.description \in Seq(Nat)
    /\ \A f \in ListFields : c[f] \in Seq(Seq(Nat))

ASSUME ContentsAssumption == \A c \in Contents : IsContent(c)
ASSUME DraftAssumption == Draft \in Contents

\* The order of strings; the comma is less than every character of a part.
Before(name, other) ==
    \E i \in 1..Len(other) :
        /\ i <= Len(name) + 1
        /\ \A j \in 1..(i - 1) : name[j] = other[j]
        /\ i <= Len(name) => name[i] < other[i]

\* The lists with the names of this one, each as often, in any order.
Rearranged(list) ==
    {[i \in DOMAIN list |-> list[p[i]]] : p \in Bijection(DOMAIN list, DOMAIN list)}

\* sorted(list)
Sorted(list) ==
    CHOOSE s \in Rearranged(list) :
        \A i, j \in DOMAIN list : i < j => s[i] = s[j] \/ Before(s[i], s[j])

\* Mutant: the names are joined in the order they were entered.
JoinedUnsorted(list) == IF list = <<>> THEN Empty ELSE FlattenSeq(list)

\* ','.join(sorted(list)): the empty text for no name, as for one empty name.
Joined(list) == IF list = <<>> THEN Empty ELSE FlattenSeq(Sorted(list))

\* SpecificationBlueprint._compute_hash of the factory: title and description
\* joined by a bar, the lists sorted and joined, the constraints.  The selected
\* architecture is no field of this blueprint.
FactoryDigest(content) ==
    <<content.title \o content.description,
      [f \in ListFields |-> Joined(content[f])],
      content.constraints>>

\* Mutant: the lists are sorted and joined here too.
SharedDigestJoined(content, architecture) ==
    <<content.title, content.description, [f \in ListFields |-> Joined(content[f])],
      content.constraints, architecture>>

\* SpecificationBlueprint.compute_hash of the shared models: the JSON text has
\* every field, the architecture included, and keeps the order of lists.
SharedDigest(content, architecture) ==
    <<content.title, content.description, [f \in ListFields |-> content[f]],
      content.constraints, architecture>>

\* SpecificationBlueprint.lock of state.py: four fields only.
LegacyDigest(content, architecture) ==
    <<content.entities, content.business_rules, architecture, content.constraints>>

-------------------------------------------------------------------------------
\* Reference: two contents that mean the same, whatever the order of a list.
SameMeaning(content, other) ==
    /\ content.title = other.title /\ content.description = other.description
    /\ content.constraints = other.constraints
    /\ \A f \in ListFields : content[f] \in Rearranged(other[f])

\* No text of the content has a separator in it, and no list consists of the
\* empty name alone, which is joined to the same text as the list without names.
Plain(content) ==
    /\ Len(content.title) = 1 /\ Len(content.description) = 1
    /\ \A f \in ListFields :
          /\ \A i \in DOMAIN content[f] : Len(content[f][i]) = 1
          /\ content[f] # <<Empty>>
===============================================================================
