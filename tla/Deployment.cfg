SPECIFICATION Spec
CONSTANTS
  me = me
  ann = ann
  bob = bob
  base = base
  extra = extra
  Users <- MCUsers
  Me = me
  Skills <- MCSkills
  Requires <- MCRequires
  Wizards <- MCWizards
  Scopes <- MCScopes
  
PROPERTIES   Serving
CHECK_DEADLOCK FALSE
