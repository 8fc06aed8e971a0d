---------------------------- MODULE MCRbacCompiler ----------------------------
EXTENDS RbacCompiler

CONSTANTS b, ob, i1, i2, t1, t2

MCIds == {i1, i2}
MCTools == {t1, t2}
MCIdsSmall == {i1}
MCToolsSmall == {t1}
=============================================================================
