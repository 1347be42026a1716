SPECIFICATION Spec
CONSTANTS
  MaxVersion = 3
  MaxFiles = 3
  MaxCrashes = 1
PROPERTY
  EditsSurvive
