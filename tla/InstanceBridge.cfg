SPECIFICATION Spec
CONSTANTS Hosts = {h1, h2}  NoHandle = NoHandle
INVARIANT HandleIsReady
CHECK_DEADLOCK FALSE
