SPECIFICATION Spec
CONSTANTS
  Schemas <- MCSchemas
  Layers <- MCLayers
  Values <- MCValues
  MemoryArgs <- MCMemoryArgs
  Absent = absent
  SecretOf <- MCSecretOf
CHECK_DEADLOCK FALSE
INVARIANTS
  ValidatorAgrees
  SchemasFitHandlers
  RequestsStayInside
  RefsAgree
