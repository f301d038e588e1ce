--------------------------- MODULE MCCentralAdmin ---------------------------
\* CentralAdmin with two super-admins, an admin and a staff member.
EXTENDS CentralAdmin, TLC
\* Requests, licences and super-admins are interchangeable.
AdminSymmetry == Permutations(Requests) \union Permutations(Licenses) \union Permutations(Supers)
=============================================================================
