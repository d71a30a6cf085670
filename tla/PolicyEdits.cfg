\* Two commands edit policies of one name while a third creates one.
SPECIFICATION PoliciesSpec
CONSTANTS
  Editor = {e1, e2}
  Creator = {c1}
  Policy = {kubeProd, sshProd, dbNew}
  kubeProd = kubeProd
  sshProd = sshProd
  dbNew = dbNew
  t1 = t1
  t2 = t2
  t3 = t3
  prod = prod
  new = new
  db = db
  web = web
  KindOf <- MCKindOf
  NameOf <- MCNameOf
  User = {u1}
  ServiceAccount = {}
  Group = {g1}
  TargetUser = {r1}
  TargetGroup = {s1}
  Target = {t1, t2, t3}
  TargetName <- MCTargetName
  TargetKind <- MCTargetKind
  Jobs <- MCJobs
  Orders <- MCOrders
  Grants <- MCGrants
SYMMETRY Editors
INVARIANTS
  OnlyAskedChanges
  
CHECK_DEADLOCK FALSE
