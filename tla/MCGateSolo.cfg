SPECIFICATION FairSpec
CONSTANTS
  t1 = t1
  t2 = t2
  a1 = a1
  a2 = a2
  u1 = u1
  u2 = u2
  at1 = at1
  ad1 = ad1
  m1 = m1
  ae1 = ae1
  p1 = p1
  open = open
  inner = inner
  private = private
  extra = extra
  None = None
  Token = {t1, t2}
  App = {a1, a2}
  UserToken = {u1, u2}
  AdminToken = {at1}
  Admin = {ad1}
  Module = {m1}
  AuthEndpoint = {ae1}
  Perm = {p1}
  Method = {"GET", "POST"}
  Path = {open, inner, private, extra}
  Schema = {open, inner, private, extra}
  AppOf <- MCAppOf
  AdminOf <- MCAdminOf
  NoExtraHeaders = {u2}
  Request = {r1}
  Input <- SoloInput
  ConfigSet <- SoloConfig
  RoutingTable <- SoloRoutes
  MaxGen = 2
INVARIANT AdmissionSound
INVARIANT ClientIdForwarding
 
 
