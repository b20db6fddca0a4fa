SPECIFICATION FairSpec
CONSTANTS MaxFibers = 4
          MaxLeaked = 1
INVARIANTS TypeOK CurrentIsReady LiveHaveFiber
PROPERTIES UnblockedRunsNext NoStarvation
