SPECIFICATION FairSpec
CONSTANTS Hosts = {h1, h2}  NoHandle = NoHandle
PROPERTY InstanceNewReturns
CHECK_DEADLOCK FALSE
