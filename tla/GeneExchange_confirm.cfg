SPECIFICATION Spec
CONSTANTS
    alice = alice
    bob = bob
    g1 = g1
    g2 = g2
    NoGene = NoGene
    Badges = {alice, bob}
    Genes = {g1, g2}
    Attached = {alice}
    Factory = {g1}
    Secret <- OneSecret
    StrayKinds = {"factory"}
    MaxNonce = 2
    MaxInbox = 2
INVARIANTS
    UndoAvailable
PROPERTIES
    DeadStaysDead
    ImplementsLedger
