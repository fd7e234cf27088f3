CONSTANTS
  AsIs <- McAsIs
  Items <- McItems
  Mappings <- McMappings
  EnvFiles <- McEnvFiles
  KeyItems <- McKeyItems
  Lines <- McLines
  Envs <- McEnvs
  Hosts <- McHosts
SPECIFICATION Spec
INVARIANTS
  KeysStayInWsl
