SPECIFICATION Spec
CONSTANTS
    t1 = t1  t2 = t2  d1 = d1  d2 = d2  r1 = r1  r2 = r2  i1 = i1  i2 = i2
    s1 = s1  s2 = s2  w1 = w1  w2 = w2
    Tenants = {t1, t2}
    Domains = {d1}
    Requests = {r1, r2}
    Schemas = {s1, s2, w1, w2}
    SchemaName <- MCSchemaName
    StoreSchemaName <- MCStoreSchemaName
    NoDomain = NoDomain  NoSchema = NoSchema  NoTenant = NoTenant
    Instances = {i1, i2}
    InstanceOf <- OwnInstance
    RequestScoped = TRUE
    Operations <- CreateLoadAndStatus
    MaxInFlight = 2
    MaxFaults = 1
    MaxCrashes = 1
INVARIANTS
    OpenRowsHaveSchema
    AtMostOneCreator
