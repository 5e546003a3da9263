SPECIFICATION FairSpec
CONSTANTS
  c1 = c1
  c2 = c2
  admin = admin
  guest = guest
  NoConn = NoConn
  Workers = {w1, w2}
  Serving <- MCServing
  Proxied = {w2}
  Conns <- MCConns
  UserOf <- MCUserOf
  Admins <- MCAdmins
  Kicked = {guest}
INVARIANTS TypeOK ReturnsUnserved 
PROPERTIES CloseDrains 
