------------------------------- MODULE MCHome --------------------------------
EXTENDS Home

\* A post added in front of the others, then one removed, then one more.
PostLists == <<<<"p", "q">>, <<"q">>, <<"r", "q">>>>
=============================================================================
