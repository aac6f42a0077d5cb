---------------------------- MODULE MCFaissBuild ----------------------------
\* Six lines of which the limit takes five: two full batches and a short one,
\* with a malformed line in the middle of the second.
EXTENDS FaissBuild

MCMalformed == {4}
=============================================================================
