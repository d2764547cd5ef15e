SPECIFICATION Spec
CONSTANTS
  a1 = a1
  m1 = m1
  o1 = o1
  o2 = o2
  Actions = {a1}
  Modules = {m1}
  ModuleOf <- MCModuleOf
  Operators = {o1, o2}
  Requests = {"r1", "r2", "r3"}
CHECK_DEADLOCK FALSE
INVARIANT OverridesOnRecord
