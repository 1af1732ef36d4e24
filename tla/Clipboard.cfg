\* Three entries over four usable banks, the ReadyOS bank is 1, bank 6 is the last
\* one and reserved; two different items, another client, and resets during
\* operations.
SPECIFICATION Spec
CONSTANTS
  Item = {x, y}
  Foreign = Foreign
  MaxClips = 3
  NBanks = 7
  Skip = 1
  Phys = 7
INVARIANTS
  TypeOK
  FixedBanks
  BanksListed
PROPERTIES
  IsItemList
  OperationEnds
