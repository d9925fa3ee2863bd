SPECIFICATION Spec
CONSTANTS
  Requests = {r1}
  Hosts <- MCHosts
  Paths <- MCPaths
  Tenants <- MCTenants
  NoTenant = "none"
  Forged = "forged"
  ProductHosts <- MCProductHosts
  Claims <- MCClaims
  Surfaces <- MCSurfaces
  CorePaths <- MCCorePaths
  Blocked <- MCBlocked
  PluginRoutes <- MCPluginRoutes
  AuthEnabled = TRUE
INVARIANTS TypeOK Authorised HeadersTrusted TenantOfHost
