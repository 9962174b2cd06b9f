-------------------------- MODULE MCRegistryProxy ---------------------------
EXTENDS RegistryProxy
CONSTANTS r1, r2, e1, b1
MCRequests == {r1, r2}
MCEntries == {e1}
MCBundles == {b1}
MCVersions == {0, 1}
=============================================================================
