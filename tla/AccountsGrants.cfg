SPECIFICATION Spec
CONSTANTS
  Users = {ann, bob, cam}
  Roles = {owner, desk, extra}
  Owner = owner
  Permissions = {manage, refund}
  Manage = manage
  Sessions = {s1, s2, s3}
  SignIns = {f1, f2}
  Actors = {a1}
  None = None
  MaxVersion = 1
  MaxRows = 6
CONSTRAINT FewRows
SYMMETRY Symmetry
INVARIANTS TypeOK PermissionsAreCurrent NoPermissionAppears
PROPERTIES OwnersAreFixed RefreshKeepsSignedIn
