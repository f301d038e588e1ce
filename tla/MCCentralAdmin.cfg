SPECIFICATION Spec
CONSTANTS
  Users = {s1, s2, a1, v1}
  Supers = {s1, s2}
  Admins = {a1}
  Licenses = {l1, l2, l3}
  Requests = {r1, r2}
  Nobody = nobody
  MaxClock = 1
  MaxRequests = 2
SYMMETRY AdminSymmetry

PROPERTIES LastAdminStays AdminsStayBelow
CHECK_DEADLOCK FALSE
