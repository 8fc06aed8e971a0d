--------------------------- MODULE MCProxyLifecycle ---------------------------
EXTENDS ProxyLifecycle

CONSTANTS l1, l2

MCListenerSets == {l1, l2}
=============================================================================
