------------------------- MODULE MCFxPluginHandler -------------------------
(* Instances of FxPluginHandler small enough for TLC: paths and names are  *)
(* model values.  Liveness is checked, so that no symmetry is declared.    *)
EXTENDS FxPluginHandler
=============================================================================
