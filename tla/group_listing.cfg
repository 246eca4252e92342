SPECIFICATION Spec
CONSTANTS
  Readers = {r1, r2}
  MemberLists <- MCMemberLists
  MaxArrays = 2
SYMMETRY MCSymmetry
INVARIANTS NoStranger ExactUnlessDisturbed
PROPERTIES RemovalExact
