CONSTANTS
    Name <- MCName
    NoValue = NoValue
    AuthName = {"a", "b", "c"}
    HeaderKey <- MCHeaderKey
    NoCredential = NoCredential
    Blank = Blank
    Worker <- MCWorker
    Definition <- MCDefinition
    Ambient = Ambient
    AmbientNames = {"x", "id"}
    MaxFaults = 1
SPECIFICATION Spec
INVARIANTS TypeOK CredentialIsOwn NilMeansAuthenticated
PROPERTIES OwnValues
