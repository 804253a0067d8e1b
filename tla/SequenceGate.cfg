CONSTANT Calls = {c1, c2, c3, c4}
SPECIFICATION FairSpec
INVARIANTS TypeOK SlotAccounted QueueInvariant
PROPERTIES NoOvertaking RefusesOnlyCancelled WaitersReturn ImplementsCallGate
