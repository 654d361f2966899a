SPECIFICATION FairSpec
CONSTANTS
    no_of_children = 3
    FdLimit = 1
INVARIANT NoSegv
INVARIANT Balanced
INVARIANT BalancerInv
PROPERTY EveryChildWorks
