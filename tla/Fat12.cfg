CONSTANTS
  NClusters <- MCNClusters
  Values <- MCValues
SPECIFICATION Spec
PROPERTY FatRefinement
