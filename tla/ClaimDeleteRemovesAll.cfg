CONSTANTS
  None = None
  t1 = t1
  t2 = t2
  s1 = s1
  s2 = s2
  web = web
  job = job
  Tenants = {t1}
  Slugs = {s1}
  SlugOf <- OwnSlug
  Manifests = {web, job}
  PortNames = {"http"}
  InterfacesOf <- Interfaces
  PortsOf <- DeclaredPorts
  HasImage <- AllHaveImages
  ClusterIPs = {ip1, ip2}
  Clusters = {"lth-5glab-gpu-zone", "xerces-cloud-zone"}
  ZoneRequests = {None, "xerces-cloud-zone"}
  Zone2Configured = TRUE
  AppIds = {a1, a2}
  InstanceIds = {i1, i2}
  Faults = {}
SYMMETRY IdSymmetry
SPECIFICATION Spec
INVARIANTS DeleteRemovesAll
