\* One library without createFxPlugin is enough.
CONSTANTS
  File = {so1}
  SharedObject = {so1}
  Name = {n1}
  NoFile = NoFile
  MaxVersion = 0
SPECIFICATION Spec
INVARIANT EveryCloseMatched
