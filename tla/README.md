# awesome-fxd in TLA+

awesome-fxd is a daemon that runs a chain of audio effects between the capture
and the playback ports of a JACK server. Each effect is a JACK client of its
own; its code comes from a plugin (a shared object); an HTTP interface
replaces the chain, sets parameters, and reloads the plugins.

This directory holds TLA+ models of the daemon, TLC configurations, and TLAPS
proofs. Paths in this text are relative to the repository's root.

## The system

| Component | Code | State | Operations |
|---|---|---|---|
| JACK client of one effect | `engine/src/jack_client.cc` | the JACK client, a ring buffer of parameters, the processor, four ports | constructor, `setParameter`, `connect*`, destructor; `process()`, called by JACK on its real-time thread |
| Plugin handler | `engine/src/fx_plugin_handler.cc` | handles from `dlopen`, table name -> plugin object | constructor (scans a directory), `getPlugin`, `getAllPlugins`, destructor |
| Controller | `engine/src/controller.cc` | the chain of clients, the current configuration, global settings, the plugin handler | seven callbacks: apply configuration, set parameters, reload, apply settings, three getters; `start` |
| Configuration backend | `config_backend/src/configuration_backend_impl.cc` | seven `std::function`s, a router, a listening socket | registration, `start`, one handler per route |
| Program | `src/main.cc` | options, the `io_context` | start, run, end |
| Effects (13) | `effects/src/*.cc` | parameter tables, delay lines, phases, filter registers | `process`, `setParameter` on the real-time thread |

How they interact: the backend's handlers run on the control thread, one at a
time, inside `io_context::run`, and call the controller's callbacks. The
controller makes and destroys clients, writes parameters into their rings and
connects their ports. The JACK server calls `process()` of each active client
every period, on other threads; the only memory the two sides share is the
ring buffer (and what was set before the client was activated). Processors are
objects whose code lies in the plugins, so that no plugin may be unloaded
while a client with one of its processors is active.

What is hard here:

* `process()` interrupts the control thread anywhere: between the bytes of a
  parameter, while a chain is built or taken down, while plugins are reloaded.
* Nothing catches exceptions: each external call that fails (JACK, `dlopen`,
  the directory) ends the process wherever it stands.
* Reconfiguration is a sequence of steps on a graph that is live meanwhile.
* Files in the plugin directory change while they are scanned, and a library
  that stays mapped makes `dlopen` return old code.
* The backend listens before the controller exists.
* Effects index buffers with floats, which round, and with delays that scale
  with the sample rate, while each buffer wraps at a place of its own.
* Parameters come in any order and any number of times; what an effect derives
  from them must be what a reload would derive from the last values.
* Phases are floats that grow by small steps, and positions in buffers are
  rounded to the place after the last.

What makes each component correct: the client hands parameters to the processor
whole, once and in order, and is complete whenever it is called; the handler
never has an object whose code is unmapped and leaves nothing mapped; the
controller makes a whole configuration sound or none, and closes clients before
it unloads their code; the daemon serves requests only when it can, and ends
when it cannot listen; an effect reads what was written at the time its delay
says, and works with the last value of each of its parameters.

## Modules

| Module | What it is |
|---|---|
| `ParameterQueue` | abstract: parameters are accepted, and delivered first in first out |
| `JackClient` | one `JackClientImpl` and its two threads, byte by byte |
| `FxPluginHandler` | `FxPluginHandlerImpl`, the dynamic loader, the directory |
| `FxPluginHandlerProofs` | its theorems |
| `FxService` | abstract: a whole configuration with one routing sounds, or silence |
| `Controller` | `ControllerImpl` with its clients, their connections and the handler |
| `ControllerProofs` | its theorems, and that it implements `FxService` |
| `Daemon` | `main` and the backend |
| `DaemonProofs` | its theorem |
| `FloatFormat` | a float as a number of so many digits, its rounding, and the float positions in a buffer that all delay lines share |
| `FloatFormatProofs` | the laws of these floats |
| `DelayLine` | the circular buffers of `simple_delay`, `chorus`, `reverb1`, `reverb2` |
| `DelayLineProofs` | its theorems |
| `Reverb2` | the lines and taps of the plate reverb, with the sizes of the program |
| `Reverb2Proofs` | its theorems |
| `PitchShifter` | the two heads, the phase and the fades of `pitchshifter` |
| `PitchShifterProofs` | its theorems |
| `Effects` | construction and `setParameter` of all thirteen effects, the notes of `sine_osc`, the curves of `wavefolder` and `simple_dist`; operators only |
| `EffectState` | one effect of any kind: its members, as its parameters are set |
| `EffectClient` | composes `JackClient` and `Effects`: a client and the processor it owns |
| `EffectClientProofs` | theorems of `Effects`, `EffectState`, `JackClient` and `EffectClient` |
| `MC*` | instances for TLC: finite sets for the constants, and nothing else |

`Controller` composes the others at the level of what they promise: a client's
ring is a sequence of parameters, which is what `JackClient` implements
(`ParameterQueue`); the plugin handler is the set of names it found and a
generation number, which stands for the code it mapped. `Daemon` in turn
reduces a callback to "returns or throws". `EffectClient` is the other
composition: the real ring and the real settings of an effect, so that what a
caller of `setParameter` writes can be followed to the coefficient that a filter
uses.

### JackClient

The control thread is at `ctl`; an object is constructed (`OpenClient`,
`PrepareContext`, `RegisterPorts`, `Activate`: the constructor's checked
external calls, each of which may fail), used (`StartWrite`, `PublishBytes`,
`EndWrite`: `setParameter`) and destroyed (`CloseClient`, `DestroyMembers`).
The real-time thread is at `rt` and goes through `process()` in five steps
(`RtBegin` ... `RtProcess`), which interleave with everything except
`CloseClient`: `jack_client_close` waits for a callback that runs.

Bytes are pairs of a parameter and the number of the byte, so that a parameter
put together from two others is seen (`Decode` gives `Garbled`). The ring
buffer is JACK's, an external component: it holds one byte less than its size,
writes the bytes that fit when the call begins, and publishes them in one piece
or several. The model lets it publish in any pieces.

`issued` and `delivered` are history variables; `sent` and `limit` are the
progress of `jack_ringbuffer_write`, whose result is compared with
`sizeof(Parameter)`. A write that finds too little room (`jack_client.cc:234`)
has already left the first bytes of its parameter in the ring when it throws;
that does no harm only because nothing catches the exception (`FrameInv` says
that such a cut is there in the failed state and in no other). A constructor
that throws does not run the destructor, so that the JACK client it opened is
closed by the end of the process.

### EffectClient

Every step of `JackClient` is a step here, with the members of the processor
beside it: they are made by `PrepareProcessor`, changed by the callback
(`SetProcessorParameter`), and go with the client (`DestroyProcessor`).
`SettingsTakeEffect` says that when the writes are done and the ring is empty,
the effect is as if a new one had been given the last value of each parameter.
The run uses the equalizer, whose coefficients depend on what was set before.

### FxPluginHandler

`phase` is the place in the constructor's loop or the destructor's, and `todo`
what the directory iterator has still to visit. A file that is written while the
scan runs may be visited, also a second time, and one that is removed may be
passed over: the iterator need not notice either (`Unread`). `opened`
and `mapped` belong to the loader: the count of openings of a path and what the
file held when it was mapped. `EveryPluginFound` is about
what a scan owes to a plugin that nobody touches: whatever other files turn out to
be, it is found. `Rewrite` is anyone who installs or removes a
plugin. A handle is represented by its path; two paths are two libraries.
Names are unique in `m_fxPlugins`: when two files offer one name the last wins,
and both libraries stay open. An exception in the constructor (the directory
iterator throws) ends the process.

### Controller

`ctl` is the statement that the control thread is at: `onApplyConfig` is
`CloseClient` for each client of the old chain, `ApplyConfig`, then for each
effect `CreateClient`, `WriteParameter` for each parameter, `EndWrites`,
`ConnectInputs`, and at last `ConnectCapture` and `ConnectPlayback`. A request
that reloads passes through `ResetHandler` and `MakeHandler` first. `clients`
and `links` are the JACK server's: which clients are open and which ports are
connected. `Process(c)` is the callback of a client that finds a parameter.
Of the two `jack_connect` calls for a pair of ports either may fail; the model
takes the pair in one step and keeps the connections that were made.

What sounds is computed from the links (`Paths`, `Heard`), never from the
controller's variables: a way is the effects that sound passes, the capture port
it comes from and the playback port it goes to. `WholeConfigOrSilence` is about
the effects of each way. `FxService` has the configuration, with a number that
tells two equal ones apart, and the ways together: they start from silence, all
with one routing, and end in silence, and a configuration is replaced in silence.
That rules out a change of the routing under the sound, such as new capture
connections for an old chain when the settings change.

Requests that change nothing (the getters) are left out; a `PUT /config/<index>`
past the end of the chain is answered and changes nothing. `requested` is a history
variable: what the clients asked for, by position in the chain.

### Daemon

`main` is the statement that `main()` is at. `Listen` opens the port (converted
to 16 bits), or fails in a way that stops the `io_context` (address in use,
permission denied) or in another way that is only printed. Requests arrive from
then on and wait. `RegisterCallback` sets one callback after the other. While
`io_context::run` is on, the first request is answered at once (no route, or
OPTIONS) or calls its callback, which returns or throws. `GET /config/<number>`
past the end of the configuration is undefined behaviour in the code: the model
lets it end in an answer of any kind or in the end of the process.

### Effects, EffectState

A parameter is a numerator over `Top` (2000 in the run, since 0.0005 is a default
of the code), and so is what a parameter is scaled into; what a filter computes
from its gain with powers and tangents is named by the gain it comes from. That
is enough to tell which gain a coefficient belongs to, and whether it is there
at all. `Settled` makes a new object and gives it each parameter once, in the
order of their indices, as `onApplyConfig` does; `SettingsInUse` compares what
`process()` reads (`InUse`) with that. The code has these traits, which the
properties state or the definitions keep:

* A new equalizer is not neutral: `m_v0` and `m_c` are 0 until the first gain. The
  high shelf's coefficient is 0 / 0 when made (`simple_eq.cc:45`), and later does
  not depend on the gain, which is multiplied in and divided out; the 0 / 0 is
  computed again or not used before it is heard.
* A new `svf` has `m_f1` = 0 and `m_q1` = 0, although its table says 0.5 for the
  cutoff: the table's value is not used until the parameter is set.
* `sine_osc` reads `m_index` before it is set, and the parameter 1.0 selects a
  71st note of 70.
* `wavefolder` has the gain 0.5 until its parameter is set, which is then scaled
  by 10.
* `simple_dist` compares magnitudes but bends samples with their sign: a negative
  full scale sample becomes -122/3. At the parameter 1.0 both of its thresholds
  are 0 and it is silent.

The phases of `sine_osc`, `panner`, `chorus` and `reverb2` are not modelled. They
are floats from which nothing is ever taken off, so that a step is lost in the
rounding when the distance of floats has grown to twice the step. No text of the
repository says how long an effect should run.

### FloatFormat, DelayLine, Reverb2, PitchShifter

The effects run inside `process()` of their client, one sample after the other,
and parameters change between two periods. Samples are not computed; the models
follow which sample is heard.

A float is an integer on a fine grid, of which only `Precision` binary digits
are kept: `Round` is rounding to nearest, ties to even. It is applied where the
code has a float operation that can round. `Position` is the expression that
`chorus`, `reverb1`, `reverb2` and `simple_delay` share, index less delay and the
size added where that is negative, with both roundings. Powers of two are a recursive
function (`Power`), about which something can be proved, instead of the
operator `^`.

`DelayLine` has one variable `line` for the four kinds of buffer in the sources,
which differ in the order of tap and write, in where the index wraps, and in
how the memory is made (`resize` clears it; `std::fill` on a vector that was
only reserved clears nothing). A cell holds the number of the write that set
it, so that the age of what a tap hears can be compared with the delay. `unset`
are the places whose content comes from memory that nobody has set, also through
feedback. Two facts about the code are stated by the properties:

* A delay of 0 hears the oldest sample, not the newest (`DelayHonoured`), except
  in `SimpleDelay`: the left side of `reverb1` has its longest delay while Size
  is 0 (`reverb1.cc:94`, and 0 is the default), and a predelay of 0 in `reverb2`
  is the longest predelay.
* A tap can read the place after the last (`StrayOnlyByRounding`): a position
  just below 0, with the size added, rounds to the size. In binary32 this
  happens to `SimpleDelay` at Time = 0.127 (a delay of 8128.0005 samples) at
  index 8128 of every lap, and to a few other values of the parameter.

`Reverb2` has the real sizes and delays. Its taps are of four kinds: the lengths
of the lines less one; the predelay, a float with any fraction; two modulated
taps, whose delay is a double that becomes a float when it is passed; and the
taps of the output, which are multiplied by a float ratio. The product is taken
to be any of the floats around the exact one (`Scaled`), which the two roundings
of the code cannot leave. Positions are those of `FloatFormat`, so that taps
do leave their lines here too, by one place (`TapsStrayOnlyByRounding`): the
modulated tap of the left side with a delay of 994 and 2^-14 samples reads place
1123 of a line of 1123 at index 994. Which sample comes first inside `process()`
does not move the taps, so that one step advances all indices. Above 54114 Hz
the tap at 3627 and its rounding do not fit in their line (`RateFits`): nothing
in the code limits the rate, and the properties then promise nothing.

`PitchShifter` has the phase as one integer that is `m_phase` in fractions of
the line and `phase` in fractions of a place, since the line has a power of two
of places. The phase does reach 1.0 (at the default pitch once per lap), and the
first head then reads the place after the last, with weight 0. `written` is the
set of places that hold a sample: `HeardIsWritten` says that after a lap nothing
else is heard (the lines are only reserved, so that before it is what happens to
be in memory), but for what lies after the last place, with a weight of nothing or
of less than a float step; that it cannot be heard supposes that it is a finite
number. `NoClick` is about the fade: the weights change slowly and are small where a
head goes from the end of the line to its start. The fade knows nothing of
`m_index`: a head that meets it is heard with the weight it has there.
`HeadsKeepPace` relates the heads to the index that writes.

Parameter values are taken to be in 0 .. 1, and indices to be among those the
effect announces, in all modules about effects: neither is checked in the code.

## Runs

| Run | Shows |
|---|---|
| `jack_client` | `CallbackContextReady`, `DeliveredInOrder`, the inductive `FrameInv`, `SettingsTakeEffect`, and the refinement `ImplementsQueue` with its liveness |
| `plugin_loading` | `PluginCodeMapped`, `NothingLeftMapped`, `ReloadIsFresh`, `EveryPluginFound`; scans and destructors end (`HandlerProgress`) |
| `plugin_double_close` | finding: the handle of a rejected file is closed twice |
| `controller` | `WholeConfigOrSilence`, `ProcessorCodeMapped`, `ChainIsCurrentConfig`, `RoutingIsCurrent`, `LastRequestWins`, `ImplementsService`; requests end, parameters arrive |
| `controller_reported_config` | finding: the reported configuration misses parameters that were set one by one |
| `daemon` | `CallbackUsable`; requests are served or the process ends, and it does end when it cannot listen |
| `daemon_port` | finding: the announced port is not the one that is opened |
| `daemon_plugin_dir` | finding: `--plugin-dir` ends the process |
| `delay_line` | `DelayHonoured`, `StrayOnlyByRounding`, `InterpolatesAtDelay`, `UnsetHasACause` |
| `reverb2` | `TapsStrayOnlyByRounding`, `TapsHonourDelays` |
| `pitch_shifter` | `HeardIsWritten`, `NoClick`, `HeadsKeepPace` |
| `effect_state` | `SettingsInUse`, `NotesAreMajor`, `FoldedIsBounded`, `DistortedIsBounded` |

Bounds, and why they are enough:

* `JackClient`: parameters of 2 bytes in a ring of 5 bytes stand for 8 bytes in
  8191: in both the ring takes some whole parameters and a part of one. Five
  writes overflow the ring (which takes two) also after some were read; two
  lives show that nothing survives from one object to the next. The four
  parameters are three gains of one band of the equalizer (two cuts and a
  boost) and one of another. The proofs drop all of these bounds.
* `FxPluginHandler`: two shared objects give every pair of kinds (valid, not
  loadable, no symbol, absent), also two that offer one name; one rewrite of
  each puts a change before, in and after a scan; handlers follow one another
  without a bound.
* `Controller`: chains of no, one, two and three effects, one with the same
  effect twice, rings of two parameters (one writes at most two in a request,
  so that rings overflow at the second request), two capture ports. Three
  requests after the start reach reconfiguration, reload, settings and
  parameters in any order of three. The plugin directory changes at will.
* `DelayLine`: six places, every float delay up to five samples in eighths,
  floats of 4 digits. As in the program, floats near the end of the buffer are
  coarser than short delays, and whole numbers are floats. Fourteen samples wrap
  the index twice.
* `Reverb2`: the sizes and delays of the program; two rates that fit and one that
  does not; samples past the wrap of the longest line. Floats have 24 digits, with
  2^15 steps in a sample: from 256 samples on, these are all floats of the
  program, and only fractions of shorter delays finer than 2^-15 are left out.
  The predelays and modulations are the ends, none, the value when made, and
  those whose floats lie next to a whole number, where rounding matters; the
  theorems take all of them.
* `PitchShifter`: a line of 8 places in eighths, floats of 5 digits, every pitch
  that is a float, changed at any sample; the state space is finite without a
  bound on time.
* `EffectState`: both ends, the middle and the values next to them for each
  parameter (for the sine, places between all notes; for `reverb2`, which has
  seven parameters, the ends), in any order without a bound.
* `Daemon`: two requests that arrive in any state; four port numbers for 2^16.

Fairness. JACK calls `process()` every period while a client is active, hence
weak fairness of the callback's steps; a `jack_ringbuffer_write` that has begun
ends; a request that is being served goes on, as does `main`. No fairness makes
requests come, files change, or a request end well: an external call may always
fail, and then the process ends.

## Proofs

Each theorem below holds for every value of the constants that satisfies the
named assumptions, which TLC evaluates for the instances of the runs. Every
invariant and every action property that a passing run checks is a theorem, and
so is the safety part of both refinements. Hardly any of them is inductive: what
is proved is an invariant that says what else has to be known at each place of
the code.

### The client and its effect (`EffectClientProofs`, parts 3 and 4)

For every size of parameters and rings and every number of writes and lives:

1. `LifeInvariant`: `Spec => []LifeInv`. Its parts: types, the room in the ring
   (the bytes a write has left always fit, because the reader only makes room),
   and how far construction has come at each place of the control thread.
   `CallbackContextAlwaysReady` follows.
2. `FrameInvariant`: `Spec => []FrameInv`. `DeliveredInOrder` is not inductive:
   one must know what the ring holds. `Framed` says that the bytes in it are
   those of the parameters issued and not taken, each at its place, the last
   perhaps cut short; `Handling` that the callback read a whole parameter, and
   that only a write in progress or a failed one leaves a cut. One lemma per
   action that touches the ring (`FrameStartWrite`, `FramePublishBytes`,
   `FrameRtRead`, `FrameRtSetParameter`, `FrameForget`); `FrameUntouched` covers
   the others. Places are multiples of `ParameterSize`, whose arithmetic is in
   `Multiples`. `ParametersDeliveredInOrder` follows.
3. `QueueRefinement`: `Spec => Queue!Spec`. A parameter counts as accepted when
   its last byte is published; `AcceptedCut` shows with `Framed` that the one
   being written is not taken before.
4. `ClientWithProcessor`: `SpecWithProcessor => Spec`. A client with an effect in
   it takes the steps of `JackClient` and no other, so that 1 and 2 hold for it.
5. `SettingsAlwaysTakeEffect`, for any of the thirteen effects. `ProcessorInv`
   says that the processor is settled on the last value of each index in
   `delivered`. It is kept because what the callback decodes is a whole parameter
   (`FrameInv`), and giving a settled object one more parameter settles it on the
   new value (`SettledStays` below). When the ring is empty and nothing is being
   written, `delivered` is `issued`.

Assumptions: `SizeAssumption` (sizes are positive), `EnvironmentAssumption`,
`ProcessorAssumption` (parameters are for the effect) and `GarbledAssumption`
(the name of what is no parameter is not that of an effect's members).

### What an effect derives from its parameters (`EffectClientProofs`, parts 1 and 2)

`Settings` states, for each effect, the three facts on which everything rests:
`setParameter` keeps the members within their types; of two values for one index
only the last matters for what `process()` uses; and values for two indices may
be given in either order. The equalizer is the hard case: a boost leaves the
coefficient of an earlier cut in the band, so that members do differ, and only
what is in use agrees (`EqSettings`, `EqKeepsUse`). `OneIndex` follows a new
object through `Settled`, index after index: up to the index of the new value
both runs agree; from there on one has the new value. `SettledStays` is the
result. `SettingsAlwaysInUse` needs one thing more, that no band of the equalizer
uses 0 / 0, which is why `SettingsInv` says which coefficients can be heard.

`NotesAlwaysMajor`: the notes are a recursive function; the scale is a solution of
its recursion (`MajorSteps`), so that the function exists, and a least note at
which it is another one is impossible (`ScaleIsMajor`). `NoteInv` says where
`m_index` comes from. `FoldedAlwaysBounded`: the folded wave is the distance to the
nearest multiple of 2, with the sign of the sample (`FoldIs`), and such a distance
never changes faster than its argument (`NearestMultiple`, `DistanceMoves`).
`DistortedAlwaysBounded`: the cubic piece of the distortion is bounded at its ends
(`CubeBounded`). Samples are
the 21 of `Sample`, the resolution of parameters and gains is any.
Assumptions: `ParameterAssumption`, `SettingAssumption`.

The lemmas write a table entry with `Put` instead of `EXCEPT`: an update of an
update of a function is kept out of the obligations, by a name.

### Plugin loading (`FxPluginHandlerProofs`)

`HandlerInv` ties the loader's count of openings to `m_handles`: whatever is open
has its handle there (`HandlesKept`), and what the scan has still to visit is
not open, so that no path is opened twice (`OnceEach`). With that,
`PluginCodeMapped` is kept by each step, `NothingLeftMapped` holds when the
destructor's loop has run out of handles, `ReloadIsFresh` follows from
`NothingOlderThanScan` (a library that nobody holds is mapped from the disk).
`FoundSoFar` is what `EveryPluginFound` needs during the scan: a plugin that has not
changed since the beginning is still to be visited, in hand, or in the table
under its name, and no entry of the table is ever taken out. The assumption is
`DirectoryAssumption`.

### Controller (`ControllerProofs`)

`ControllerInv` says, for each statement that the control thread can be at,

* which clients exist: those of the chain and the one being made
  (`ClientsOfChain`), with the code of the handler in use (`CodeOfHandler`);
* how far the chain has come: the first effects of the current configuration
  while it is built, all of them when it is complete (`ChainSoFar`);
* which links exist: between neighbours of the chain, into its first client and
  out of its last one; none to the outputs while it is built (`LinksAlongChain`);
* that only a chain that is the whole configuration is fed (`FedIsWhole`), and
  from the inputs that the global settings name (`InputsAsSet`);
* that what a client's processor has, after what is in its ring and what is
  still to be written to it, is what was requested for its place
  (`ParametersDue`).

There is one lemma for each action. A path from capture to playback can be of
any length, so that `WholeConfigOrSilence` also needs that a path runs through
the chain from its first client to its last one without leaving out any. That
is an induction on the place in the path, which is done with the least place at
which it would fail (`Least`, from `NatLessThanWellFounded`); `ApplyAll` of a
longer ring is treated in the same way. `RoutingIsCurrent` asks for exactly the links of
the chain: `ControllerInv` says that there are no others, and `LinksMade` that, at
each statement, those that the code has gone past are there, which is inductive
with it (`LinksAlwaysMade`). From the invariants come
`ProcessorCodeAlwaysMapped`, `ChainAlwaysCurrentConfig`, `RoutingAlwaysCurrent`,
`LastRequestAlwaysWins`, `WholeConfigOrSilenceAlways`; and
`ControllerImplementsService`, the refinement of `FxService`: each action either
leaves what sounds alone (`SoundKept`), or silences it, or, from silence, makes
ways through a whole configuration sound with the routing of the settings
(`HeardAsRouted`).

The number of requests (`MaxRequests`), names of clients (`ClientId`), slots of a
ring and capture ports are arbitrary. The set of names bounds how many clients
are open at once, not how many there are over time. Assumptions:
`RequestAssumption` and `ResourceAssumption`.

### Program (`DaemonProofs`)

`DaemonInv` says that main registers the seven callbacks in order, all before
`io_context::run`, and that a callback is called only from there, for the first
request that waits. `CallbackAlwaysUsable` follows, for any port and for requests
that arrive at any time from the opening of the port. The assumption is
`DaemonAssumption`.

### Delay lines (`DelayLineProofs`)

For every size of buffer, every number of digits and every delay that is a float,
from the laws of floats and of positions (`FloatFormatProofs`, below):

1. What is exact: `index - delay`, when it is negative, is nearer to 0 than the
   delay, where floats are no coarser (`NegativeExact`); and a sample is a whole
   number of steps anywhere in the buffer (`SamplesAreSteps`).
2. Where a tap reads. A negative position is exact, so that adding the size
   rounds only once: in both branches of the code the position is the end of the
   delay in the lap it falls into, less its fraction, rounded (`PositionIs`).
   Rounding cannot pass a whole place, since whole places are floats: the place is
   the one before that end, or, with the fraction rounded away, that end itself
   (`PlaceIs`).
3. `LineInv`: place k of the buffer holds the newest sample that fell on it
   (`Newest`); with 2, what a tap finds is as old as the delay (`TapIs`).

`DelayAlwaysHonoured`, `StraysOnlyByRounding`, `AlwaysInterpolatesAtDelay`,
`UnsetAlwaysHasACause` and `TypeInvariant` are its parts. The assumptions:
`FloatAssumption`, `UnitAssumption` (a sample is a power of two of the finest step)
and `LineAssumption`: the buffer is within the range of the format, and floats count
its samples, as binary32 does for lines up to 2^24 samples. Precision = 24, MaxExponent = 253
and Unit = 2^149 is binary32 itself, so that the theorems speak of the floats of
the build and of the buffers of the sources (up to 128000 places),
which TLC cannot enumerate.

### Plate reverb (`Reverb2Proofs`)

For every set of sample rates, predelays and modulations, every format of float
that counts the places of the lines, and any number of samples. `TypeOK` is
inductive: `Wrap` is what keeps an index in its line. `TapsAreDelays` bounds every
tap by the length of its line: the modulated ones by arithmetic and one rounding
(`RoundedDelay`), those of the output from `RateFits` and the roundings of
`Scaled` (`ExactIs`, `ScaledIs`: less than two samples from the exact product, which
is why `RateFits` asks for two to spare). `PlaceIs`, the law of positions that the
delay lines use too, then says where the tap reads (`TapsRight`), and `AgeAround` how
old that place is, before and after the wrap: `TapsAlwaysStrayOnlyByRounding` and
`TapsAlwaysHonourDelays`. Precision = 24, MaxExponent = 253 and Unit = 2^149 is
binary32, for every predelay and modulation. The assumptions are `RateAssumption`
(rates are positive), `FormatAssumption` (floats count the places) and
`SettingAssumption` (the ranges of `setParameter` and of `sin`).

`RatesThatFitAre`: the rates of which all this is promised are those up to 54114 Hz,
and no other, so that 44100 and 48000 Hz fit and 88200 Hz does not.

### Pitch shifter (`PitchShifterProofs`)

For every length of line, every format of float that counts its places, and any
pitch at any sample:

1. One sample. The sum of phase and step is rounded, by less than the finest
   step at 1.0, and less than a line is added (`SumIs`); taking a line off is
   exact, because above 1.0 floats are whole steps of those at 1.0; a phase of
   nothing becomes the whole line (`AdvanceIs`).
2. `ShifterInv`: the phase is a float of the line, its end included, and `Lap`
   says which places were written: those up to the index in the first lap, all
   of them after it. `TypeInvariant` follows.
3. What the heads read (`PlaceOf`, `HeadIs`). The second head is half a line
   away, which may be rounded to the end of the line, but only from less than a
   float step; its weight is then less than that step (`OppositeIs`).
   `HeardAlwaysWritten` follows with `Lap`.
4. The fade is twice the distance to the nearer end of the line, so that it does
   not notice the jump from one end to the other (`FadeMoves`); and a head that
   goes back comes from less than a step before the end to less than a step after
   the start, where its weight is small, the second head included, whose weight
   is what the first one leaves (`FadeHidesJumps`): `NeverClicks`.
5. At the neutral pitch whole places are not rounded (`WholePlaces`, and
   `PastTheEnd` for the place after the last), so that the heads keep their
   distance from the index around the line (`AroundTheLine`); a step of more
   than half a float at 1.0 always moves the phase: `HeadsAlwaysKeepPace`.

`PhaseAssumption`: four places at least, an even number of the finest steps; a
place is a power of two of these; the line and one more are within the format,
and floats count its places. The program has 2048 places, a power of two; with
the fraction of a line as the phase, as in the code, this is binary32.

### The laws of floats (`FloatFormatProofs`)

What delay lines, the plate reverb and the pitch shifter rest on, for any number
of digits and any range. `TableExists` and `PowerIs`: the recursive `Power` is what it says (by the least
length without a table); `PowerLaw`, `PowersDivide`, `PowersGrow`. `StepIs` and
`StepsDivide`: the distance of floats is a power of two, and grows with them.
`Rounding`: to a multiple of the step, by half a step at most;
`RoundingKeepsOrder`: never past a multiple of the step. `RoundIsFloat`: also when
rounding leads into the next binade, what comes out is a float, which rounding
leaves alone. `MultiplesAreFloats`, `StepAdded`, `StepDoubles` follow. Then the
positions in a buffer whose places floats count: `NegativeExact`, `PositionIs` and
`PlaceIs`, as told for the delay lines.

### Only model-checked

Liveness, which needs fairness and ENABLED and is beyond TLAPS here:
`HandlerProgress` of the plugin handler, that requests end and parameters arrive,
that the daemon serves or ends, the liveness part of `ImplementsQueue`.

## Findings

* `fx_plugin_handler.cc:27,35,50`: double `dlclose` for a library without
  `createFxPlugin`.
* `controller.cc:83`: `GET /config`, `GET /config/<index>`, reload and global
  settings do not know parameters set by `PUT /config/<index>`.
* `configuration_backend_impl.cc:195`: ports above 65535.
* `main.cc:52`: `--plugin-dir` cannot be used.

## Not modelled

* Bodies of requests and their JSON, and the HTTP library beyond the order of
  arrival.
* Memory that is never freed (`jack_ringbuffer_create` has no counterpart).
* Sample values: the sums that filters, delays and reverbs compute are floating
  point and out of TLC's reach. With them the registers of the filters are left
  out, and the peak filter's second register, which is given the new value of
  the first (`simple_eq.cc:127`).
* The phases of oscillators (`m_t`, `m_phase` of `sine_osc`, `panner`, `chorus`,
  `reverb2`), floats that are only added to. What they modulate is left
  nondeterministic where a model needs it (`Reverb2`, `DelayLine`).
* The random generator of `white_noise`, an external component.
* Parameters outside 0 .. 1, or with an index that the effect does not announce.
* Build files and sample configurations, which have no behaviour.
