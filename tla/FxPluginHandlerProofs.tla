----------------------- MODULE FxPluginHandlerProofs -----------------------
(***************************************************************************)
(* Machine-checked proofs about FxPluginHandler, for every directory,      *)
(* every set of names, any number of rewrites and of handlers one after    *)
(* the other: the five invariants that TLC checks on three files.          *)
(***************************************************************************)
EXTENDS FxPluginHandler, SequenceTheorems, FiniteSetTheorems, FunctionTheorems, TLAPS

(* The inductive invariant *)

Places(s, f) == {i \in 1 .. Len(s) : s[i] = f}

\* A file is open no more often than its handle stands in m_handles, so that
\* the destructor closes it as often; a handler that is gone has no handle.
HandlesKept ==
  /\ phase # "thrown" =>
       \A f \in File : opened[f] <= Cardinality(Places(m_handles, f))
  /\ phase = "none" => m_handles = <<>>

\* The file in hand is open.
InHand ==
  /\ phase = "opened" => current \in File /\ IsOpen(current)
  /\ phase # "opened" => current = NoFile

\* Plugin objects exist from the scan to the beginning of the destructor.
PluginsOnlyInLife ==
  phase \in {"none", "closing", "thrown"} => m_fxPlugins = NoPlugins

Scanned == phase \in {"scan", "opened", "ready"}

\* Nothing that is on disk, open or in the table is older than the scan.
NothingOlderThanScan ==
  /\ Scanned =>
       \A f \in File : /\ disk[f].version >= atScan[f]
                       /\ IsOpen(f) => mapped[f].version >= atScan[f]
  /\ \A n \in DOMAIN m_fxPlugins :
       m_fxPlugins[n].version >= atScan[m_fxPlugins[n].file]

\* A file that was not touched since the scan began.
Untouched(f) == disk[f].version = atScan[f]

\* A plugin that was not touched is yet to be visited, in hand, or found; a file
\* that is open and was not touched is mapped as it is on disk.
FoundSoFar ==
  Scanned =>
    /\ \A f \in File : Untouched(f) /\ IsOpen(f) => mapped[f] = disk[f]
    /\ \A f \in SharedObject :
         Untouched(f) /\ disk[f].kind \in Name =>
           \/ phase # "ready" /\ f \in todo
           \/ phase = "opened" /\ current = f
           \/ disk[f].kind \in DOMAIN m_fxPlugins

HandlerInv ==
  /\ TypeOK
  /\ HandlesKept
  /\ InHand
  /\ PluginsOnlyInLife
  /\ PluginCodeMapped
  /\ NothingOlderThanScan
  /\ FoundSoFar

-----------------------------------------------------------------------------
(* How often a handle stands in a sequence *)

\* The number of places is a natural number.
LEMMA PlacesCounted ==
  ASSUME NEW s \in Seq(File), NEW f
  PROVE  IsFiniteSet(Places(s, f)) /\ Cardinality(Places(s, f)) \in Nat
<1>1. IsFiniteSet(1 .. Len(s))
  BY FS_Interval
<1>2. Places(s, f) \subseteq 1 .. Len(s)
  BY DEF Places
<1>3. IsFiniteSet(Places(s, f))
  BY <1>1, <1>2, FS_Subset
<1> QED BY <1>3, FS_CardinalityType

\* A handle that is put at the end adds one place for its file.
LEMMA PlacesAppended ==
  ASSUME NEW s \in Seq(File), NEW f \in File, NEW g \in File
  PROVE  Cardinality(Places(Append(s, f), g))
           = Cardinality(Places(s, g)) + (IF g = f THEN 1 ELSE 0)
<1> DEFINE last == Len(s) + 1
<1>1. /\ Len(s) \in Nat /\ Len(Append(s, f)) = last
      /\ \A i \in 1 .. Len(s) : Append(s, f)[i] = s[i]
      /\ Append(s, f)[last] = f
  BY AppendProperties
<1>2. last \notin Places(s, g)
  BY <1>1 DEF Places
<1>3. IsFiniteSet(Places(s, g)) /\ Cardinality(Places(s, g)) \in Nat
  BY PlacesCounted
<1>4. CASE g = f
  <2>1. Places(Append(s, f), g) = Places(s, g) \cup {last}
    BY <1>1, <1>4 DEF Places
  <2> QED BY <2>1, <1>2, <1>3, <1>4, FS_AddElement
<1>5. CASE g # f
  <2>1. Places(Append(s, f), g) = Places(s, g)
    BY <1>1, <1>5 DEF Places
  <2> QED BY <2>1, <1>3, <1>5
<1> QED BY <1>4, <1>5

\* The handle at the front takes one place of its file with it.
LEMMA PlacesOfTail ==
  ASSUME NEW s \in Seq(File), s # <<>>, NEW g \in File
  PROVE  Cardinality(Places(Tail(s), g))
           = Cardinality(Places(s, g)) - (IF g = Head(s) THEN 1 ELSE 0)
<1> DEFINE rest == Places(s, g) \ {1}
           shift == [i \in Places(Tail(s), g) |-> i + 1]
<1>1. /\ Len(s) \in Nat \ {0} /\ Head(s) = s[1]
      /\ Tail(s) \in Seq(File) /\ Len(Tail(s)) = Len(s) - 1
      /\ \A i \in 1 .. Len(Tail(s)) : Tail(s)[i] = s[i + 1]
  BY HeadTailProperties, EmptySeq, LenProperties
<1>2. shift \in Bijection(Places(Tail(s), g), rest)
  <2>1. \A i \in Places(Tail(s), g) : i \in Nat /\ i + 1 \in rest
    BY <1>1 DEF Places
  <2>2. shift \in [Places(Tail(s), g) -> rest]
    BY <2>1
  <2>3. \A i, j \in Places(Tail(s), g) : shift[i] = shift[j] => i = j
    BY <2>1
  <2>4. ASSUME NEW k \in rest
        PROVE  \E i \in Places(Tail(s), g) : shift[i] = k
    <3>1. k \in Nat /\ 1 < k /\ k <= Len(s) /\ s[k] = g
      BY <1>1 DEF Places
    <3>2. k - 1 \in 1 .. Len(Tail(s)) /\ (k - 1) + 1 = k
      BY <3>1, <1>1
    <3>3. k - 1 \in Places(Tail(s), g)
      BY <3>1, <3>2, <1>1 DEF Places
    <3> QED BY <3>2, <3>3
  <2> HIDE DEF shift, rest
  <2>5. shift \in Injection(Places(Tail(s), g), rest)
    BY <2>2, <2>3, Fun_IsInj
  <2>6. shift \in Surjection(Places(Tail(s), g), rest)
    BY <2>2, <2>4, Fun_IsSurj
  <2> QED BY <2>5, <2>6 DEF Bijection
<1>3. ExistsBijection(Places(Tail(s), g), rest)
  BY <1>2 DEF ExistsBijection
<1>4. IsFiniteSet(Places(Tail(s), g))
  BY <1>1, PlacesCounted
<1>5. Cardinality(rest) = Cardinality(Places(Tail(s), g))
  BY <1>3, <1>4, FS_Bijection
<1>6. IsFiniteSet(Places(s, g)) /\ Cardinality(Places(s, g)) \in Nat
  BY PlacesCounted
<1>7. 1 \in Places(s, g) <=> g = Head(s)
  BY <1>1 DEF Places
<1>8. Cardinality(rest) = IF 1 \in Places(s, g) THEN Cardinality(Places(s, g)) - 1
                          ELSE Cardinality(Places(s, g))
  BY <1>6, FS_RemoveElement
<1> HIDE DEF rest
<1>9. CASE g = Head(s)
  BY <1>5, <1>7, <1>8, <1>9
<1>10. CASE g # Head(s)
  BY <1>5, <1>6, <1>7, <1>8, <1>10
<1> QED BY <1>9, <1>10

-----------------------------------------------------------------------------
(* What the loader does to the file it is given *)

\* The table of a handler that has found nothing.
LEMMA EmptyTable ==
  /\ DOMAIN NoPlugins = {}
  /\ NoPlugins \in [DOMAIN NoPlugins -> Plugin]
BY DEF NoPlugins

\* A file is opened once more, and mapped as it is on disk if it was not open.
LEMMA DlopenEffect ==
  ASSUME TypeOK, NEW f \in File, Dlopen(f)
  PROVE  /\ opened' \in [File -> Nat]
         /\ mapped' \in [File -> Content]
         /\ unmatched' = unmatched
         /\ opened'[f] = opened[f] + 1
         /\ IF IsOpen(f) THEN mapped'[f] = mapped[f] ELSE mapped'[f] = disk[f]
         /\ \A g \in File : g # f => opened'[g] = opened[g] /\ mapped'[g] = mapped[g]
<1>1. /\ opened \in [File -> Nat] /\ mapped \in [File -> Content]
      /\ disk[f] \in Content
  BY DEF TypeOK
<1>2. /\ opened' = [opened EXCEPT ![f] = opened[f] + 1]
      /\ mapped' = IF IsOpen(f) THEN mapped ELSE [mapped EXCEPT ![f] = disk[f]]
      /\ unmatched' = unmatched
  BY DEF Dlopen
<1> QED BY <1>1, <1>2

\* A file is closed once, if it is open; no other is touched.
LEMMA DlcloseEffect ==
  ASSUME TypeOK, NEW f \in File, Dlclose(f)
  PROVE  /\ opened' \in [File -> Nat]
         /\ unmatched' \in BOOLEAN
         /\ mapped' = mapped
         /\ opened'[f] = IF opened[f] = 0 THEN 0 ELSE opened[f] - 1
         /\ \A g \in File : g # f => opened'[g] = opened[g]
BY DEF TypeOK, IsOpen, Dlclose

-----------------------------------------------------------------------------

\* HandlerInv holds in every state: at each place of the scan and of the
\* destructor, the libraries that the loader has open are those of m_handles,
\* and what was not touched since the scan began has been found or will be.
THEOREM HandlerInvariant == Spec => []HandlerInv
<1> USE DirectoryAssumption
<1>1. Init => HandlerInv
  <2> SUFFICES ASSUME Init PROVE HandlerInv
    OBVIOUS
  <2>1. TypeOK
    <3>1. disk \in [File -> Content] /\ mapped = disk
      BY DEF Init, Content
    <3>2. m_handles \in Seq(File)
      BY DEF Init
    <3>3. opened \in [File -> Nat] /\ atScan \in [File -> 0 .. MaxVersion]
      BY DEF Init
    <3>4. DOMAIN m_fxPlugins \subseteq Name /\ m_fxPlugins \in [DOMAIN m_fxPlugins -> Plugin]
      BY EmptyTable DEF Init
    <3> QED BY <3>1, <3>2, <3>3, <3>4 DEF Init, TypeOK
  <2>2. HandlesKept
    <3>1. \A f \in File : opened[f] = 0 /\ Cardinality(Places(m_handles, f)) \in Nat
      BY <2>1, PlacesCounted DEF Init, TypeOK
    <3> QED BY <3>1 DEF Init, HandlesKept
  <2> QED
    BY <2>1, <2>2, EmptyTable
    DEF Init, HandlerInv, InHand, PluginsOnlyInLife,
        PluginCodeMapped, NothingOlderThanScan, FoundSoFar, Scanned
<1>2. HandlerInv /\ [Next]_vars => HandlerInv'
  <2> SUFFICES ASSUME HandlerInv, [Next]_vars PROVE HandlerInv'
    OBVIOUS
  <2> USE DEF HandlerInv, Scanned
  <2>1. CASE BeginScan
    <3>1. /\ phase = "none" /\ phase' = "scan"
          /\ todo' = {f \in File : disk[f].kind # "absent"}
          /\ atScan' = [f \in File |-> disk[f].version]
          /\ UNCHANGED <<disk, current, m_handles, m_fxPlugins, opened, mapped, unmatched>>
      BY <2>1 DEF BeginScan, loaderVars
    <3>2. \A f \in File : ~IsOpen(f)
      <4>1. \A f \in File : opened[f] <= 0
        <5>1. m_handles = <<>> /\ \A f \in File : Places(m_handles, f) = {}
          BY <3>1 DEF HandlesKept, Places
        <5> QED BY <5>1, <3>1, FS_EmptySet DEF HandlesKept
      <4> QED BY <4>1 DEF IsOpen, TypeOK
    <3>3. TypeOK' /\ HandlesKept'
      BY <3>1 DEF TypeOK, HandlesKept, Content
    <3>4. InHand' /\ PluginsOnlyInLife' /\ PluginCodeMapped'
      BY <3>1, EmptyTable DEF InHand, PluginsOnlyInLife, PluginCodeMapped
    <3>5. NothingOlderThanScan'
      BY <3>1, <3>2, EmptyTable
      DEF NothingOlderThanScan, PluginsOnlyInLife, IsOpen, TypeOK, Content
    <3>6. FoundSoFar'
      BY <3>1, <3>2 DEF FoundSoFar, IsOpen
    <3> QED BY <3>3, <3>4, <3>5, <3>6
  <2>2. CASE ScanFails
    BY <2>2, EmptyTable DEF ScanFails, TypeOK, HandlesKept, InHand, PluginsOnlyInLife,
     PluginCodeMapped, NothingOlderThanScan, FoundSoFar, IsOpen, loaderVars
  <2>3. ASSUME NEW f \in File, SkipFile(f)
        PROVE  HandlerInv'
    <3>1. /\ phase = "scan" /\ f \in todo /\ todo' = todo \ {f}
          /\ f \notin SharedObject \/ disk[f].kind \in {"absent", "broken"}
          /\ UNCHANGED <<disk, phase, current, m_handles, m_fxPlugins, opened, mapped,
                         unmatched, atScan>>
      BY <2>3 DEF SkipFile, Visit, Dlopens, loaderVars
    <3>2. TypeOK' /\ HandlesKept' /\ InHand' /\ PluginsOnlyInLife'
          /\ PluginCodeMapped' /\ NothingOlderThanScan'
      BY <3>1 DEF TypeOK, HandlesKept, InHand, PluginsOnlyInLife, PluginCodeMapped,
                  NothingOlderThanScan, IsOpen
    <3>3. FoundSoFar'
      BY <3>1 DEF FoundSoFar, Untouched, IsOpen
    <3> QED BY <3>2, <3>3
  <2>4. ASSUME NEW f \in File, OpenFile(f)
        PROVE  HandlerInv'
    <3>1. /\ phase = "scan" /\ f \in todo /\ Dlopen(f)
          /\ todo' = todo \ {f} /\ current' = f /\ phase' = "opened"
          /\ m_handles' = Append(m_handles, f)
          /\ UNCHANGED <<disk, m_fxPlugins, atScan>>
      BY <2>4 DEF OpenFile, Visit
    <3>2. /\ opened' \in [File -> Nat] /\ mapped' \in [File -> Content]
          /\ unmatched' = unmatched
          /\ opened'[f] = opened[f] + 1
          /\ IF IsOpen(f) THEN mapped'[f] = mapped[f] ELSE mapped'[f] = disk[f]
          /\ \A g \in File : g # f => opened'[g] = opened[g] /\ mapped'[g] = mapped[g]
      BY <3>1, DlopenEffect DEF TypeOK
    <3>3. m_handles' \in Seq(File)
      BY <3>1, AppendProperties DEF TypeOK
    <3>4. TypeOK'
      BY <3>1, <3>2, <3>3 DEF TypeOK
    <3>5. HandlesKept'
      <4>1. ASSUME NEW g \in File
            PROVE  opened'[g] <= Cardinality(Places(m_handles', g))
        <5>1. Cardinality(Places(m_handles', g))
                = Cardinality(Places(m_handles, g)) + (IF g = f THEN 1 ELSE 0)
          BY <3>1, PlacesAppended DEF TypeOK
        <5>2. opened[g] <= Cardinality(Places(m_handles, g)) /\ opened[g] \in Nat
          BY <3>1 DEF HandlesKept, TypeOK
        <5>3. Cardinality(Places(m_handles, g)) \in Nat
          BY PlacesCounted DEF TypeOK
        <5> QED BY <5>1, <5>2, <5>3, <3>2
      <4> QED BY <4>1, <3>1 DEF HandlesKept
    <3>6. InHand' /\ PluginsOnlyInLife'
      BY <3>1, <3>2 DEF InHand, PluginsOnlyInLife, TypeOK, IsOpen
    <3>7. \A g \in File : IsOpen(g) => IsOpen(g)' /\ mapped'[g] = mapped[g]
      BY <3>2 DEF IsOpen, TypeOK
    <3>8. PluginCodeMapped'
      BY <3>1, <3>7 DEF PluginCodeMapped, TypeOK, Plugin
    <3>9. NothingOlderThanScan'
      BY <3>1, <3>2 DEF NothingOlderThanScan, IsOpen
    <3>10. FoundSoFar'
      BY <3>1, <3>2 DEF FoundSoFar, Untouched, IsOpen
    <3> QED BY <3>4, <3>5, <3>6, <3>8, <3>9, <3>10
  <2>5. CASE RejectFile
    <3>1. /\ phase = "opened" /\ current \in File /\ mapped[current].kind \notin Name
          /\ Dlclose(current)
          /\ current' = NoFile /\ phase' = "scan"
          /\ UNCHANGED <<disk, todo, m_handles, m_fxPlugins, atScan>>
      BY <2>5 DEF RejectFile, GoesOn, IsPlugin, InHand
    <3>2. /\ opened' \in [File -> Nat] /\ unmatched' \in BOOLEAN
          /\ mapped' = mapped
          /\ opened'[current] = IF opened[current] = 0 THEN 0 ELSE opened[current] - 1
          /\ \A g \in File : g # current => opened'[g] = opened[g]
      <4>1. TypeOK
        OBVIOUS
      <4> QED BY <4>1, <3>1, DlcloseEffect
    <3>3. TypeOK'
      BY <3>1, <3>2 DEF TypeOK
    <3>4. ASSUME NEW g \in File
          PROVE  opened'[g] <= opened[g] /\ opened[g] \in Nat /\ opened'[g] \in Nat
      <4>1. opened[g] \in Nat /\ opened'[g] \in Nat
        BY <3>2 DEF TypeOK
      <4>2. CASE g = current
        BY <4>1, <4>2, <3>2
      <4>3. CASE g # current
        BY <4>1, <4>3, <3>2
      <4> QED BY <4>2, <4>3
    <3>5. HandlesKept'
      <4>1. \A g \in File : Cardinality(Places(m_handles, g)) \in Nat
        BY PlacesCounted DEF TypeOK
      <4> QED BY <4>1, <3>1, <3>4 DEF HandlesKept
    <3>6. \A g \in File : IsOpen(g)' => IsOpen(g)
      BY <3>4 DEF IsOpen
    <3>7. InHand' /\ PluginsOnlyInLife'
      BY <3>1 DEF InHand, PluginsOnlyInLife
    <3>8. PluginCodeMapped'
      <4>1. ASSUME NEW n \in DOMAIN m_fxPlugins
            PROVE  m_fxPlugins[n].file \in File /\ m_fxPlugins[n].file # current
        <5>1. m_fxPlugins[n] \in Plugin /\ n \in Name
          BY DEF TypeOK
        <5>2. mapped[m_fxPlugins[n].file].kind = n
          BY mapped[m_fxPlugins[n].file] = [kind |-> n, version |-> m_fxPlugins[n].version]
          DEF PluginCodeMapped
        <5> QED BY <5>1, <5>2, <3>1 DEF Plugin
      <4> QED BY <4>1, <3>1, <3>2 DEF PluginCodeMapped, IsOpen
    <3>9. NothingOlderThanScan'
      BY <3>1, <3>2, <3>6 DEF NothingOlderThanScan
    <3>10. FoundSoFar'
      <4>1. IsOpen(current) /\ (Untouched(current) => mapped[current] = disk[current])
        BY <3>1 DEF InHand, FoundSoFar
      <4> QED BY <4>1, <3>1, <3>2, <3>6 DEF FoundSoFar, Untouched
    <3> QED BY <3>3, <3>5, <3>7, <3>8, <3>9, <3>10
  <2>6. CASE AddPlugin
    <3> DEFINE name == mapped[current].kind
               plugin == [file |-> current, version |-> mapped[current].version]
    <3>1. /\ phase = "opened" /\ current \in File /\ IsOpen(current)
          /\ name \in Name
          /\ m_fxPlugins' = [n \in DOMAIN m_fxPlugins \cup {name} |->
                               IF n = name THEN plugin ELSE m_fxPlugins[n]]
          /\ current' = NoFile /\ phase' = "scan"
          /\ UNCHANGED <<disk, todo, m_handles, opened, mapped, unmatched, atScan>>
      BY <2>6 DEF AddPlugin, IsPlugin, InHand, loaderVars
    <3>2. plugin \in Plugin
      BY <3>1 DEF TypeOK, Plugin, Content
    <3>3. mapped[current] = [kind |-> name, version |-> plugin.version]
      BY <3>1 DEF TypeOK, Content
    <3>4. DOMAIN m_fxPlugins' = DOMAIN m_fxPlugins \cup {name}
      BY <3>1
    <3>5. \A n \in DOMAIN m_fxPlugins' :
            m_fxPlugins'[n] = IF n = name THEN plugin ELSE m_fxPlugins[n]
      BY <3>1
    <3>6. \A f \in File : IsOpen(f)' <=> IsOpen(f)
      BY <3>1 DEF IsOpen
    <3>7. plugin.file = current /\ plugin.version = mapped[current].version
      OBVIOUS
    <3>8. Untouched(current) => name = disk[current].kind
      BY <3>1 DEF FoundSoFar
    <3> HIDE DEF plugin, name
    <3>9. TypeOK'
      <4>1. m_fxPlugins' \in [DOMAIN m_fxPlugins' -> Plugin]
        BY <3>1, <3>2 DEF TypeOK
      <4> QED BY <4>1, <3>1, <3>4 DEF TypeOK
    <3>10. HandlesKept' /\ InHand' /\ PluginsOnlyInLife'
      BY <3>1 DEF HandlesKept, InHand, PluginsOnlyInLife
    <3>11. PluginCodeMapped'
      BY <3>1, <3>3, <3>4, <3>5, <3>6, <3>7 DEF PluginCodeMapped, TypeOK, Plugin
    <3>12. NothingOlderThanScan'
      BY <3>1, <3>4, <3>5, <3>6, <3>7 DEF NothingOlderThanScan
    <3>13. FoundSoFar'
      BY <3>1, <3>4, <3>6, <3>8 DEF FoundSoFar, Untouched
    <3> QED BY <3>9, <3>10, <3>11, <3>12, <3>13
  <2>7. CASE EndScan
    BY <2>7 DEF EndScan, TypeOK, HandlesKept, InHand, PluginsOnlyInLife,
     PluginCodeMapped, NothingOlderThanScan, FoundSoFar, Untouched, loaderVars, IsOpen
  <2>8. CASE ClearPlugins
    BY <2>8, EmptyTable DEF ClearPlugins, PluginsCleared, TypeOK, HandlesKept, InHand,
     PluginsOnlyInLife, PluginCodeMapped, NothingOlderThanScan, FoundSoFar, loaderVars, IsOpen
  <2>9. CASE CloseHandle
    <3>1. /\ phase = "closing" /\ m_handles # <<>>
          /\ Dlclose(Head(m_handles)) /\ m_handles' = Tail(m_handles)
          /\ m_fxPlugins = NoPlugins
          /\ UNCHANGED <<disk, phase, todo, current, m_fxPlugins, atScan>>
      BY <2>9 DEF CloseHandle, NextHandle, PluginsOnlyInLife
    <3>2. Head(m_handles) \in File /\ m_handles' \in Seq(File)
      BY <3>1, HeadTailProperties DEF TypeOK
    <3>3. /\ opened' \in [File -> Nat] /\ unmatched' \in BOOLEAN
          /\ mapped' = mapped
          /\ opened'[Head(m_handles)] = IF opened[Head(m_handles)] = 0 THEN 0
                                        ELSE opened[Head(m_handles)] - 1
          /\ \A g \in File : g # Head(m_handles) => opened'[g] = opened[g]
      <4>1. TypeOK
        OBVIOUS
      <4> QED BY <4>1, <3>1, <3>2, DlcloseEffect
    <3>4. TypeOK'
      BY <3>1, <3>2, <3>3 DEF TypeOK
    <3>5. HandlesKept'
      <4>1. ASSUME NEW g \in File
            PROVE  opened'[g] <= Cardinality(Places(m_handles', g))
        <5>1. Cardinality(Places(m_handles', g))
                = Cardinality(Places(m_handles, g)) - (IF g = Head(m_handles) THEN 1 ELSE 0)
          BY <3>1, PlacesOfTail DEF TypeOK
        <5>2. opened[g] <= Cardinality(Places(m_handles, g)) /\ opened[g] \in Nat
          BY <3>1 DEF HandlesKept, TypeOK
        <5>3. /\ Cardinality(Places(m_handles, g)) \in Nat
              /\ Cardinality(Places(m_handles', g)) \in Nat
          BY <3>2, PlacesCounted DEF TypeOK
        <5>4. CASE g = Head(m_handles)
          BY <5>1, <5>2, <5>3, <5>4, <3>3
        <5>5. CASE g # Head(m_handles)
          BY <5>1, <5>2, <5>3, <5>5, <3>3
        <5> QED BY <5>4, <5>5
      <4> QED BY <4>1, <3>1 DEF HandlesKept
    <3> QED
      BY <3>1, <3>3, <3>4, <3>5, EmptyTable
      DEF InHand, PluginsOnlyInLife, PluginCodeMapped, NothingOlderThanScan, FoundSoFar
  <2>10. CASE EndDestructor
    BY <2>10, EmptyTable DEF EndDestructor, TypeOK, HandlesKept, InHand, PluginsOnlyInLife,
     PluginCodeMapped, NothingOlderThanScan, FoundSoFar, loaderVars, IsOpen
  <2>11. ASSUME NEW f \in File, Rewrite(f)
         PROVE  HandlerInv'
    <3>1. PICK k \in Kind :
            disk' = [disk EXCEPT ![f] = [kind |-> k, version |-> disk[f].version + 1]]
      BY <2>11 DEF Rewrite
    <3>2. /\ f \in SharedObject /\ disk[f].version < MaxVersion
          /\ todo' \in {todo, todo \ {f}, todo \cup {f}}
          /\ UNCHANGED <<phase, current, m_handles, m_fxPlugins, opened, mapped, unmatched, atScan>>
      BY <2>11 DEF Rewrite, Unread, loaderVars
    <3>3. /\ disk[f] \in Content /\ disk' \in [File -> Content]
          /\ disk'[f].version = disk[f].version + 1
          /\ \A g \in File : g # f => disk'[g] = disk[g]
      BY <3>1, <3>2 DEF TypeOK, Content
    <3>4. TypeOK'
      BY <3>2, <3>3 DEF TypeOK
    <3>5. HandlesKept' /\ InHand' /\ PluginsOnlyInLife' /\ PluginCodeMapped'
      BY <3>2 DEF HandlesKept, InHand, PluginsOnlyInLife, PluginCodeMapped, IsOpen
    <3>6. NothingOlderThanScan'
      <4>1. ASSUME NEW g \in File, Scanned
            PROVE  /\ disk'[g].version >= atScan[g]
                   /\ IsOpen(g) => mapped[g].version >= atScan[g]
        <5>1. disk[g].version >= atScan[g] /\ (IsOpen(g) => mapped[g].version >= atScan[g])
          BY <4>1 DEF NothingOlderThanScan
        <5>2. disk[g].version \in Nat /\ atScan[g] \in Nat
          BY DEF TypeOK, Content
        <5>3. CASE g = f
          BY <5>1, <5>2, <5>3, <3>3
        <5>4. CASE g # f
          BY <5>1, <5>4, <3>3
        <5> QED BY <5>3, <5>4
      <4> HIDE DEF Scanned
      <4>2. Scanned' <=> Scanned
        BY <3>2 DEF Scanned
      <4> QED BY <4>1, <4>2, <3>2 DEF NothingOlderThanScan, IsOpen
    <3>7. Scanned => ~Untouched(f)'
      BY <3>2, <3>3 DEF NothingOlderThanScan, TypeOK, Content, Untouched
    <3>8. FoundSoFar'
      BY <3>2, <3>3, <3>7 DEF FoundSoFar, Untouched, IsOpen
    <3> QED BY <3>4, <3>5, <3>6, <3>8
  <2>12. CASE UNCHANGED vars
    BY <2>12 DEF vars, TypeOK, HandlesKept, InHand, PluginsOnlyInLife, PluginCodeMapped,
     NothingOlderThanScan, FoundSoFar, Untouched, loaderVars, handlerVars, IsOpen
  <2> QED
    BY <2>1, <2>2, <2>3, <2>4, <2>5, <2>6, <2>7, <2>8, <2>9, <2>10, <2>11, <2>12
    DEF Next, Constructor, Destructor, Stopped
<1> QED BY <1>1, <1>2, PTL DEF Spec

-----------------------------------------------------------------------------
(* What follows *)

\* The variables keep their types: whatever the scan meets.
THEOREM TypeInvariant == Spec => []TypeOK
<1>1. HandlerInv => TypeOK
  BY DEF HandlerInv
<1> QED BY <1>1, HandlerInvariant, PTL

\* No object outlives its code, whatever the scan rejects or overwrites and
\* whatever the destructor closes.
THEOREM PluginCodeAlwaysMapped == Spec => []PluginCodeMapped
<1>1. HandlerInv => PluginCodeMapped
  BY DEF HandlerInv
<1> QED BY <1>1, HandlerInvariant, PTL

\* The destructor closes whatever the constructor opened.
THEOREM NothingEverLeftMapped == Spec => []NothingLeftMapped
<1>1. HandlerInv => NothingLeftMapped
  <2> SUFFICES ASSUME HandlerInv, phase = "none", NEW f \in File, IsOpen(f)
               PROVE  FALSE
    BY DEF NothingLeftMapped
  <2>1. m_handles = <<>> /\ opened[f] <= Cardinality(Places(m_handles, f))
    BY DEF HandlerInv, HandlesKept
  <2>2. Places(m_handles, f) = {}
    BY <2>1 DEF Places
  <2>3. opened[f] \in Nat
    BY DEF HandlerInv, TypeOK
  <2>4. opened[f] <= 0
    BY <2>1, <2>2, FS_EmptySet
  <2> QED BY <2>3, <2>4 DEF IsOpen
<1> QED BY <1>1, HandlerInvariant, PTL

\* A handler runs no code that was replaced before its scan began.
THEOREM ReloadAlwaysFresh == Spec => []ReloadIsFresh
<1>1. HandlerInv => ReloadIsFresh
  BY DEF HandlerInv, NothingOlderThanScan, ReloadIsFresh
<1> QED BY <1>1, HandlerInvariant, PTL

\* No other file, and nothing that happens to the directory during the scan,
\* hides a plugin that was there from its beginning.
THEOREM EveryPluginAlwaysFound == Spec => []EveryPluginFound
<1>1. HandlerInv => EveryPluginFound
  BY DEF HandlerInv, FoundSoFar, Scanned, Untouched, EveryPluginFound
<1> QED BY <1>1, HandlerInvariant, PTL
=============================================================================
