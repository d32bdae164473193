SPECIFICATION RuntimeSpec
CONSTANTS
  identity = identity  ballot = ballot  token = token
  bridge = bridge  nginx = nginx
  i1 = i1  i2 = i2  i3 = i3  a = a  b = b  c = c
  Nil = Nil
  DatabaseRoles <- MCDatabaseRoles
  Files <- MCFiles
  Stages <- MCStages
  Clusters = {c1, c2}
  Images = {i1, i2, i3}
  Migrations <- MCMigrations
  MaxFaults = 3
INVARIANTS
  TypeOK
  ServesItsOwnData
PROPERTY AllOrNothing
