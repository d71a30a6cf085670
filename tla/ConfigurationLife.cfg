\* Two commands of any kind, on files of every schema.
SPECIFICATION Spec
CONSTRAINT Bound
SYMMETRY Alike
CONSTANTS
  Cmd = {c1, c2}
  App = {a1, a2}
  Port = {p1, p2}
  Path = {f1, f2}
  None = None
INVARIANTS
  SettingsKept
  NewSchemaOnly
  OwnKept
  LinkedOnce
