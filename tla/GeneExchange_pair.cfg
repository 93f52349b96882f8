SPECIFICATION Spec
CONSTANTS
    alice = alice
    bob = bob
    g1 = g1
    g2 = g2
    NoGene = NoGene
    Badges = {alice, bob}
    Genes = {g1}
    Attached = {alice, bob}
    Factory = {g1, NoGene}
    Secret <- OneSecret
    StrayKinds = {"short", "cutKey", "cutGene", "text", "scheme", "test", "factory"}
    MaxNonce = 4
    MaxInbox = 1
SYMMETRY BadgeSymmetry
INVARIANTS
    NoBreedingCycle
    OneRecipient
    DonorCannotReceive
