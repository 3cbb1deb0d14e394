CONSTANTS
  NNodes = 6
  NScopes = 3
  Trees <- InnerPolicyTrees
SPECIFICATION Spec
PROPERTIES InnerPolicyGoverns
