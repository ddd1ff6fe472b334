CONSTANTS
  None = None
  t1 = t1
  t2 = t2
  s1 = s1
  s2 = s2
  web = web
  job = job
  Tenants = {t1, t2}
  Slugs = {s1, s2}
  SlugOf <- OwnSlug
  Manifests = {web, job}
  PortNames = {"http"}
  InterfacesOf <- Interfaces
  PortsOf <- DeclaredPorts
  HasImage <- JobHasNoImage
  ClusterIPs = {ip1, ip2}
  Clusters = {"lth-5glab-gpu-zone", "xerces-cloud-zone"}
  ZoneRequests = {None, "xerces-cloud-zone"}
  Zone2Configured = FALSE
  AppIds = {a1, a2}
  InstanceIds = {i1, i2}
  Faults = {"api", "net"}
SYMMETRY IdSymmetry
SPECIFICATION Spec
INVARIANTS LatestDeployed EndpointsComplete
PROPERTIES OnlyOwnerTouches
