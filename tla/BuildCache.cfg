SPECIFICATION Spec
CONSTANTS
  Builders = {api}
  Sources = {old, new}
  None = None
INVARIANTS
  PackageIsOfItsSources
