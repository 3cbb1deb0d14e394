CONSTANTS
  N = 5
  Pool = {"slots"}
  Plans <- EnginePlans
SPECIFICATION Spec
PROPERTIES NoLateEpisode
