---------------------------- MODULE MCSpecification ----------------------------
(* SpecificationFactory, BlueprintChecks and Complexity for TLC.  The three    *)
(* share nothing but the contents, so that they are explored side by side and  *)
(* not in product.  Contents: a draft, a complete blueprint, and what edits    *)
(* can make of it: the same in another order, another rule, contents with a    *)
(* separator hidden in a name or in the title, an empty name, an incomplete    *)
(* one.  Requests with up to two keywords of each bucket.                      *)
EXTENDS SpecificationFactory, BlueprintChecks, Complexity
VARIABLE running
Init ==
    /\ FactoryInit /\ ChecksInit /\ ClassifyInit
    /\ running \in {"factory", "checks", "classification"}
Next ==
    \/ /\ running = "factory" /\ FactoryNext
       /\ UNCHANGED <<checksVars, classifyVars, running>>
    \/ /\ running = "checks" /\ ChecksNext
       /\ UNCHANGED <<factoryVars, classifyVars, running>>
    \/ /\ running = "classification" /\ ClassifyComplexity
       /\ UNCHANGED <<factoryVars, checksVars, running>>
Spec == Init /\ [][Next]_<<factoryVars, checksVars, classifyVars, running>>
Base == [title |-> <<1>>, description |-> <<2>>,
         entities |-> <<<<1>>, <<2>>>>, business_rules |-> <<<<3>>>>,
         formal_specs |-> <<>>, constraints |-> 0]
MCDraft == [Base EXCEPT !.title = <<0>>, !.description = <<0>>,
                        !.entities = <<>>, !.business_rules = <<>>]
MCContents ==
    {MCDraft, Base,
     [Base EXCEPT !.entities = <<<<2>>, <<1>>>>],           \* reordered
     [Base EXCEPT !.entities = <<<<1, 2>>>>],               \* "a,b" for "a" and "b"
     [Base EXCEPT !.title = <<1, 2>>, !.description = <<2>>],
     [Base EXCEPT !.description = <<2, 2>>],                \* the bar moves
     [Base EXCEPT !.business_rules = <<>>],
     [Base EXCEPT !.formal_specs = <<<<4>>>>],
     [Base EXCEPT !.formal_specs = <<<<0>>>>],              \* [""] for []
     [Base EXCEPT !.constraints = 1]}
MCMatchCounts == [BucketNames -> 0..2]
===============================================================================
