------------------------------ MODULE MCPlayer ------------------------------
EXTENDS Player

\* Songs 1 and 2 play; song 3 is broken.
TwoLists == <<<<1, 2>>, <<3>>>>
OneList  == <<<<1, 2>>>>
=============================================================================
