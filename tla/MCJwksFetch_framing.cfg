SPECIFICATION Spec
CONSTANTS
  Unstated = Unstated
  NoPeer = NoPeer
  Trusts <- MCTrusts
  Addresses <- MCAddresses
  Public <- MCPublic
  Certified <- MCCertified
  Answers <- MCAnswers
  Responses <- MCResponses
  MaxAddresses = 3
  Budget = 3
  MaxHeader = 3
  MaxBody = 3
  Chunk = 2
INVARIANTS TypeOK DocumentIsThePinned ContactsAreBounded
PROPERTY FetchEnds
CHECK_DEADLOCK FALSE
