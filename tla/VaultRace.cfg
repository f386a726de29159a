CONSTANTS
    c1 = c1  w1 = w1  w2 = w2  creds = creds  session = session
    Orch = orch
    Cli <- OneCli
    Writers <- TwoWriters
    Secrets <- TwoSecrets
    Creds = creds
    Token = token
    Db = db
    MaxOps = 3
    MaxBoots = 2
    MaxCrashes = 2
SPECIFICATION VaultSpec
SYMMETRY SymmetricWriters
INVARIANTS VaultReadable NoLostUpdate PasswordStable
CHECK_DEADLOCK FALSE
