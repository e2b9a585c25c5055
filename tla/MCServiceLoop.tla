--------------------------- MODULE MCServiceLoop ---------------------------
EXTENDS ServiceLoop, TLC

CONSTANTS o1, o2, i1, i2

AnyHost == {"systemd", "scm", "terminal"}
=============================================================================
