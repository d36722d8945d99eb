----------------------------- MODULE MCUnitTests -----------------------------
\* The client of the sorter gives it any of six triggers in any order; the
\* tests use the same six.
EXTENDS UnitTests
=============================================================================
