------------------------------ MODULE Devices ------------------------------
(***************************************************************************)
(* The device a prover is made on (pickPhysicalDevice in src/vkzg.cpp).    *)
(***************************************************************************)
EXTENDS Integers, Sequences, SequencesExt

\* What the kernels are written for.
Needs == {"vulkan1.2", "shaderInt64", "shaderInt16", "storage16", "storage8",
          "bufferDeviceAddress", "shaderInt8", "shuffle", "subgroupCompute"}

\* A device: what it lacks of that, its type, and which queue families compute.
Device == [lacks : SUBSET Needs, type : {"discrete", "integrated", "virtual", "other"},
           compute : Seq(BOOLEAN)]
NoDevice == [lacks |-> {}, type |-> "none", compute |-> <<>>]

\* A definition whose name ends in _word is a variant of the one that follows
\* it, with a bug the code could have had; no specification uses it.

ComputeFamilies(dev) == {i \in DOMAIN dev.compute : dev.compute[i]}

Suitable(dev) == dev.lacks = {} /\ ComputeFamilies(dev) # {}

Score(dev) == CASE dev.type = "discrete" -> 3
                [] dev.type = "integrated" -> 2
                [] dev.type = "virtual" -> 1
                [] dev.type = "other" -> 0

\* One turn of the loop; a score of -1 is that of no device.
Better_orEqual(dev, best) == Score(dev) >= best.score
Better(dev, best) == Score(dev) > best.score

Considered(best, dev) ==
  IF Suitable(dev) /\ Better(dev, best)
  THEN [dev |-> dev, score |-> Score(dev), family |-> Min(ComputeFamilies(dev))]
  ELSE best

NotPicked == [dev |-> NoDevice, score |-> -1, family |-> 0]

\* The best of the first i devices, for every i.
Best(listing) ==
  LET best[i \in 0..Len(listing)] ==
        IF i = 0 THEN NotPicked ELSE Considered(best[i - 1], listing[i]) IN best
Picked(listing) == Best(listing)[Len(listing)]
============================================================================
