\* Every effect, every parameter in any order and any number of times.
CONSTANTS
  Top = 2000
  Garbage <- MCGarbage
  Setting <- MCSetting
SPECIFICATION EffectSpec
INVARIANTS SettingsInUse NotesAreMajor FoldedIsBounded DistortedIsBounded
