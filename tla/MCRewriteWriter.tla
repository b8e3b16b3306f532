--------------------------- MODULE MCRewriteWriter ---------------------------
EXTENDS RewriteWriter

\* Inputs of mixed sizes; the last selection cannot be staged at all.
MCSizes == {<<2, 2, 1>>, <<1, 1, 1>>, <<1, 0, 4>>}
MCSelected == {1, 2, 3}
AnyStored == SUBSET MCSelected
NoneStored == {{}}
=============================================================================
