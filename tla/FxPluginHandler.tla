-------------------------- MODULE FxPluginHandler --------------------------
(***************************************************************************)
(* FxPluginHandlerImpl (engine/src/fx_plugin_handler.cc), the dynamic      *)
(* loader it calls and the plugin directory it reads.  One handler lives   *)
(* at a time: the controller destroys the old one before it makes the next *)
(* (onReload), so that files that were rebuilt meanwhile are loaded anew.  *)
(* The directory may change at any moment, a scan included: the iterator   *)
(* may then visit a file that was written meanwhile, although it has       *)
(* visited it before, and may pass over one that was removed.              *)
(*                                                                         *)
(* The loader keeps one mapping per path with a count of its openings, and *)
(* answers dlopen of a path that is mapped with the mapping it has,        *)
(* whatever the file has become.                                           *)
(***************************************************************************)
EXTENDS Naturals, Sequences

CONSTANTS
  File,         \* paths in the plugin directory
  SharedObject, \* those with the extension .so
  Name,         \* what getPluginInfo().name may return
  NoFile,
  MaxVersion    \* bound: times a file is rewritten

ASSUME DirectoryAssumption ==
  /\ SharedObject \subseteq File
  /\ NoFile \notin File
  /\ MaxVersion \in Nat
  /\ Name \cap {"absent", "broken", "nosymbol"} = {}

(***************************************************************************)
(* What a file holds: nothing (it was removed), something that dlopen      *)
(* refuses, a library without createFxPlugin, or the plugin of some name.  *)
(***************************************************************************)
Kind == {"absent", "broken", "nosymbol"} \cup Name

Content == [kind : Kind, version : 0 .. MaxVersion]

VARIABLES
  disk,      \* the directory: the Content of each path
  phase,     \* where the constructor or the destructor is
  todo,      \* files the directory iterator has still to visit
  current,   \* file: the handle in hand
  m_handles, \* sequence of files, standing for their handles
  m_fxPlugins, \* name -> [file, version]: the object, and the code it runs
  opened,    \* file -> times it was opened less times it was closed
  mapped,    \* file -> Content it had when it was last mapped
  unmatched, \* history: dlclose was given a handle that is not open
  atScan     \* history: the versions on disk when the scan began

handlerVars == <<phase, todo, current, m_handles, m_fxPlugins>>
loaderVars == <<opened, mapped, unmatched>>
vars == <<disk, handlerVars, loaderVars, atScan>>

-----------------------------------------------------------------------------
(* The directory and the loader *)

IsOpen(f) == opened[f] > 0

Dlopens(f) == IsOpen(f) \/ disk[f].kind \notin {"absent", "broken"}

Dlopen(f) ==
  /\ opened' = [opened EXCEPT ![f] = @ + 1]
  /\ mapped' = IF IsOpen(f) THEN mapped ELSE [mapped EXCEPT ![f] = disk[f]]
  /\ UNCHANGED unmatched

Dlclose(f) ==
  /\ opened' = IF IsOpen(f) THEN [opened EXCEPT ![f] = @ - 1] ELSE opened
  /\ unmatched' = (unmatched \/ ~IsOpen(f))
  /\ UNCHANGED mapped

SymbolUnchecked(f) == mapped[f].kind # "absent"  \* mutant: dlsym's null is called
IsPlugin(f) == mapped[f].kind \in Name

\* What the entries still to be read of a directory under iteration become when
\* f is written, or removed: an iterator need not notice either.
Unread(f) ==
  IF phase \notin {"scan", "opened"} THEN {todo}
  ELSE {todo, IF disk'[f].kind = "absent" THEN todo \ {f} ELSE todo \cup {f}}

\* What other files hold makes no difference.
Rewrite(f) ==
  /\ f \in SharedObject
  /\ disk[f].version < MaxVersion
  /\ \E k \in Kind : disk' = [disk EXCEPT ![f] = [kind |-> k, version |-> @.version + 1]]
  /\ todo' \in Unread(f)
  /\ UNCHANGED <<phase, current, m_handles, m_fxPlugins, loaderVars, atScan>>

-----------------------------------------------------------------------------
NoPlugins == [n \in {} |-> [file |-> NoFile, version |-> 0]]

Init ==
  /\ disk \in [File -> [kind : Kind, version : {0}]]
  /\ \A f \in File \ SharedObject : disk[f].kind = "broken"
  /\ phase = "none"
  /\ todo = {}
  /\ current = NoFile
  /\ m_handles = <<>>
  /\ m_fxPlugins = NoPlugins
  /\ opened = [f \in File |-> 0]
  /\ mapped = disk
  /\ unmatched = FALSE
  /\ atScan = [f \in File |-> 0]

(* The constructor *)

BeginScan ==
  /\ phase = "none"
  /\ phase' = "scan"
  /\ todo' = {f \in File : disk[f].kind # "absent"}
  /\ atScan' = [f \in File |-> disk[f].version]
  /\ UNCHANGED <<disk, current, m_handles, m_fxPlugins, loaderVars>>

\* directory_iterator throws, in the beginning or between two files.
ScanFails ==
  /\ phase \in {"none", "scan"}
  /\ phase' = "thrown"
  /\ todo' = {}
  /\ m_fxPlugins' = NoPlugins
  /\ m_handles' = <<>>
  /\ UNCHANGED <<disk, current, loaderVars, atScan>>

Visit(f) == todo' = todo \ {f}

\* mutant: a file dlopen refuses is tried again and never passed over
RetryFile(f) ==
  /\ phase = "scan"
  /\ f \in todo
  /\ f \notin SharedObject \/ ~Dlopens(f)
  /\ UNCHANGED vars

SkipFile(f) ==
  /\ phase = "scan"
  /\ f \in todo
  /\ f \notin SharedObject \/ ~Dlopens(f)
  /\ Visit(f)
  /\ UNCHANGED <<disk, phase, current, m_handles, m_fxPlugins, loaderVars, atScan>>

OpenFile(f) ==
  /\ phase = "scan"
  /\ f \in todo \cap SharedObject
  /\ Dlopens(f)
  /\ Dlopen(f)
  /\ Visit(f)
  /\ current' = f
  /\ m_handles' = Append(m_handles, f)
  /\ phase' = "opened"
  /\ UNCHANGED <<disk, m_fxPlugins, atScan>>

\* The continue after an invalid plugin; a break would end the loop.
BreaksOff == phase' = "ready"                 \* mutant
GoesOn == phase' = "scan"

RejectFile ==
  /\ phase = "opened"
  /\ ~IsPlugin(current)
  /\ Dlclose(current)
  /\ current' = NoFile
  /\ GoesOn
  /\ UNCHANGED <<disk, todo, m_handles, m_fxPlugins, atScan>>

AddPlugin ==
  /\ phase = "opened"
  /\ IsPlugin(current)
  /\ LET plugin == [file |-> current, version |-> mapped[current].version]
         name == mapped[current].kind
     IN  m_fxPlugins' = [n \in DOMAIN m_fxPlugins \cup {name} |->
                          IF n = name THEN plugin ELSE m_fxPlugins[n]]
  /\ current' = NoFile
  /\ phase' = "scan"
  /\ UNCHANGED <<disk, todo, m_handles, loaderVars, atScan>>

EndScan ==
  /\ phase = "scan"
  /\ todo = {}
  /\ phase' = "ready"
  /\ UNCHANGED <<disk, todo, current, m_handles, m_fxPlugins, loaderVars, atScan>>

(* The destructor *)

PluginsKept == UNCHANGED m_fxPlugins          \* mutant
PluginsCleared == m_fxPlugins' = NoPlugins

ClearPlugins ==
  /\ phase = "ready"
  /\ PluginsCleared
  /\ phase' = "closing"
  /\ UNCHANGED <<disk, todo, current, m_handles, loaderVars, atScan>>

ForgetsHandles == m_handles' = <<>>           \* mutant
NextHandle == m_handles' = Tail(m_handles)

CloseHandle ==
  /\ phase = "closing"
  /\ m_handles # <<>>
  /\ Dlclose(Head(m_handles))
  /\ NextHandle
  /\ UNCHANGED <<disk, phase, todo, current, m_fxPlugins, atScan>>

EndDestructor ==
  /\ phase = "closing"
  /\ m_handles = <<>>
  /\ phase' = "none"
  /\ m_fxPlugins' = NoPlugins
  /\ UNCHANGED <<disk, todo, current, m_handles, loaderVars, atScan>>

Constructor ==
  \/ RejectFile \/ AddPlugin \/ EndScan
  \/ \E f \in File : SkipFile(f) \/ OpenFile(f)

Destructor == CloseHandle \/ EndDestructor

\* The exception ends the process.
Stopped == phase = "thrown" /\ UNCHANGED vars

Next ==
  \/ BeginScan \/ ScanFails \/ Constructor
  \/ ClearPlugins \/ Destructor
  \/ (\E f \in File : Rewrite(f))
  \/ Stopped

Spec == Init /\ [][Next]_vars

\* A constructor or a destructor that has begun goes on.
FairSpec == Spec /\ WF_vars(Constructor) /\ WF_vars(Destructor)

-----------------------------------------------------------------------------
(* Properties *)

Plugin == [file : File, version : 0 .. MaxVersion]

\* The values the variables range over.
TypeOK ==
  /\ disk \in [File -> Content]
  /\ phase \in {"none", "scan", "opened", "ready", "closing", "thrown"}
  /\ todo \subseteq File
  /\ current \in File \cup {NoFile}
  /\ m_handles \in Seq(File)
  /\ DOMAIN m_fxPlugins \subseteq Name
  /\ m_fxPlugins \in [DOMAIN m_fxPlugins -> Plugin]
  /\ opened \in [File -> Nat]
  /\ mapped \in [File -> Content]
  /\ unmatched \in BOOLEAN
  /\ atScan \in [File -> 0 .. MaxVersion]

(***************************************************************************)
(* The code and the vtable of every plugin object the handler owns are     *)
(* mapped, and are those the object was made from: they are not unmapped   *)
(* under an object by the dlclose of a rejected file, by a second file     *)
(* that offers the same name, or by the destructor.                        *)
(***************************************************************************)
PluginCodeMapped ==
  \A n \in DOMAIN m_fxPlugins :
    LET f == m_fxPlugins[n].file
    IN  IsOpen(f) /\ mapped[f] = [kind |-> n, version |-> m_fxPlugins[n].version]

(***************************************************************************)
(* A handler that is gone leaves nothing mapped: otherwise a reload would  *)
(* be given the old mapping of a file that was rebuilt.                    *)
(***************************************************************************)
NothingLeftMapped == phase = "none" => \A f \in File : ~IsOpen(f)

(***************************************************************************)
(* Every plugin of a finished handler runs code that was on disk when its  *)
(* scan began, or newer.                                                   *)
(***************************************************************************)
ReloadIsFresh ==
  phase = "ready" =>
    \A n \in DOMAIN m_fxPlugins :
      m_fxPlugins[n].version >= atScan[m_fxPlugins[n].file]

(***************************************************************************)
(* A file that is rejected or cannot be loaded, one that vanishes or is    *)
(* rewritten during the scan, and one that offers a name a second time     *)
(* cost no other plugin its place: every plugin that lies in the directory *)
(* from the beginning of the scan on is found under its name.              *)
(***************************************************************************)
EveryPluginFound ==
  phase = "ready" =>
    \A f \in SharedObject :
      disk[f].version = atScan[f] /\ disk[f].kind \in Name =>
        disk[f].kind \in DOMAIN m_fxPlugins

(***************************************************************************)
(* "Failed to close solib" (fx_plugin_handler.cc:52) is an error: every    *)
(* handle that dlclose is given is one that is still open.                 *)
(***************************************************************************)
EveryCloseMatched == ~unmatched

\* A scan ends, with a handler or an exception, and a destructor ends, although
\* files that dlopen refuses, files without the symbol and files that vanish
\* take other ways through the loop.
HandlerProgress ==
  /\ phase = "scan" ~> phase \in {"ready", "thrown"}
  /\ phase = "closing" ~> phase = "none"
=============================================================================
