\* Two shared objects and one other file, two names (so that two files can
\* offer the same one), every shared object rewritten at most once.
CONSTANTS
  File = {so1, so2, txt}
  SharedObject = {so1, so2}
  Name = {n1, n2}
  NoFile = NoFile
  MaxVersion = 1
SPECIFICATION FairSpec
INVARIANTS TypeOK PluginCodeMapped NothingLeftMapped ReloadIsFresh EveryPluginFound
PROPERTY HandlerProgress
