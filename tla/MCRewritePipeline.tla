-------------------------- MODULE MCRewritePipeline --------------------------
EXTENDS RewritePipeline

\* A solid archive with a directory in third place; the caller rewrites the
\* first and the last payload, which together exceed the quota, or of which one
\* does by itself.
MCSizes == {<<1, 1, 0, 2>>, <<3, 1, 0, 1>>}
=============================================================================
