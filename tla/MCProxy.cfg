SPECIFICATION FairSpec
CONSTANTS
  None = None
  Name <- MCName
  XName = {"x-request-id", "x-application", "x-admin-id", "x-user", "x-role"}
  RequestIdHeader = "x-request-id"
  ApplicationHeader = "x-application"
  AdminIdHeader = "x-admin-id"
  ProxyMethodNameHeader = "proxy_method_name"
  Value = {"id", "e", "a", "d", "u", "v1", "v2"}
  Input <- MCInput
CHECK_DEADLOCK FALSE
INVARIANT IndInv
 
INVARIANT OneResponse
PROPERTY HandleReturns
