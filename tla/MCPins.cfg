SPECIFICATION Spec
CONSTANTS
  Revs = {"r1", "r2"}
  Tomls = {"Cargo.toml"}
  Packages = {"package.json"}
  Workflows = {"ci.yml"}
  Trees <- MCTrees
  MaxBumps = 2
INVARIANTS
  BumpHeals
  GateSeesSkew
