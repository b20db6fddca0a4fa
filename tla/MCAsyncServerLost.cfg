SPECIFICATION SFairSpec
CONSTANTS MaxFibers = 2
          MaxLeaked = 1
          Conns = {c1}
          Handles = {1, 2}
          ArgLen = 2
          Requests = 1
PROPERTIES LostIsDestroyed
