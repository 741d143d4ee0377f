SPECIFICATION Spec
CONSTANTS
  Tasks = {t1, t2, t3}
  Instances = {i1}
  NoTask = NoTask
  NoSlot = NoSlot
SYMMETRY Symmetry
INVARIANTS
  OwnershipConsistent
  AcceptedTaskOwnsItsSlot
  InputsFollowAssociation
PROPERTIES
  NoSlotTaken
