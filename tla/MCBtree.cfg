SPECIFICATION BSpec
CONSTANTS NKeys = 6
          Large = 4
          LargeSize = 2
          Keys <- MCKeys
          Size <- MCSize
          LeafCap = 2
          TreeCap = 2
VIEW View
INVARIANTS BTypeOK TreeSound FreshAtHome
PROPERTIES ImplementsIndex
CHECK_DEADLOCK FALSE
