# Formal models of the simple_bench ramp test, its stream profile and the IPFIX plugin commands

This directory holds TLA+ models of the code under `src/`, TLC configurations that
model-check them on small instances, and TLAPS proofs. The models are written from
the source. The server-side IPFIX engine is the exception: it is not in `src/`, so it
is modelled from `spec.md`, and each such definition is marked `spec_modelled` in
`PROJECT.json`.

## The system

| Part | Source | What it does |
|---|---|---|
| Ramp-test driver `SimplePacketTest` | `src/simple_bench.py` | Connects to a TRex server, loads the `simple.py` streams on both sides of every port pair, and starts them at 1 kpps. It then walks a rate ladder `range(base, target, int((target-base)/steps))`. For each rate it clears the counters, updates the multiplier, sleeps `duration` and judges the received rate against a 10% threshold. It breaks at the first failure, measures a final window of `6*duration` and disconnects. It is one Python thread. Every RPC can raise, and only `start()` and the body of the loop catch exceptions. |
| Stream profile `STLSimpleStateless` | `src/interactive/profiles/stl/simple.py` | Builds one UDP stream per port. It checks the packet size and writes a random 1-byte address field into src, and into dst with `+128`. |
| IPFIX plugin client `IPFIXPlugin` | `src/trex/emu/emu_plugins/emu_plugin_ipfix.py` | Commands of one EMU client: set generator rates (0.0 means unchanged), enable or disable a generator, enable or disable IPFIX for the whole client, push a profile that exports from a directory, load a profile from a JSON file, and getters for counters, generator info and exporter info. Each command is one RPC. |
| IPFIX engine (server) | `spec.md` only | The generator table, the credit-based record pacer, packet batching, the UDP/HTTP/file transports with HTTP retry, and a ring of at most 30 export-session records. |

The driver loads the stream profile on every port (`RampTest` abstracts the streams to
their rate; `StreamProfile` models what one stream sends). The driver and the IPFIX
plugin never interact. The driver uses the stateless client, and
the plugin uses the EMU client of the same server.

## Modules

### `RampTest.tla` (driver, `src/simple_bench.py`)

**State.**
- `pc`: the statement group of `do_test` the driver is in.
- `connected`: whether the session is open.
- `tx`: the server's multiplier in kpps; 0 means stopped.
- `rx`: packets counted since the last `clear_stats`, in kilo-packets.
- `rates`: the ladder.
- `i`: the loop index.
- `fail`: the loop's flag.
- `win` and `verdicts` (ghost): the rates sent and the time slept in the current window, and one record per judged rate.

**Actions.** There is one action per step of the code, each a whole handler:
- `Construct`: `__init__`.
- `Start`: `start()`, whose except branch disconnects and exits.
- `InitialRamp`: lines 101-106.
- `ComputeRates`: lines 108-109.
- `Update`: lines 110-119 with `update()`.
- `Judge`: lines 120-125.
- `Finish`: lines 126-133.

An uncaught exception is `Crash`: the process ends and the server state stays as it was.

**Python semantics kept.**
- `int(a/b)` truncates toward zero (`Trunc`).
- `range` has length `ceil((stop-start)/step)` and raises on a zero step (`PyRange`, `RampRaises`).
- Division by a zero duration raises.
- `time.sleep` of a negative value raises.

**Environment.** RPCs take no time. Traffic accrues only while the driver sleeps, at the
current multiplier, minus a loss drawn from `Losses`. That count is `Received`, an
environment definition with no code behind it. The driver only reads it back: `get_stats`
(lines 40-41) and the per-direction sums of `ipackets` (lines 43-53) are abstracted to the
single count `rx`. `OffTarget` is line 122 with the rate `rx / d` of line 92 multiplied out
by `d`. Two things are assumed about the external library:
- `STLClient.disconnect()` stops traffic (its default is `stop_traffic=True`).
- When the interpreter dies, the server keeps transmitting.

### `IpfixGen.tla` (generator commands, `emu_plugin_ipfix.py`; generator table from `spec.md`)

**State.**
- `rate[g][k]`: the server's rate for the template and data streams.
- `genOn[g]`.
- `ipfixOn`: the client's state.
- `asked[g][k]` (ghost): the rate last requested for each stream.

**Actions.** Every client method checks its argument types (`EMUValidator`, Python types
only, not modelled) and sends one RPC. What the RPC does is the server's:
- `SetGenRate`: `set_gen_rate`, which sends both rates as given. `ServerSetGenState` is
  the server's handling (`spec.md` §4.1: a 0 leaves that stream's rate) and is marked
  `spec_modelled`.
- `SetDataRateLine` and `SetTemplateRateLine`: the console wrappers that pass 0.0 for
  the other stream.
- `EnableGenerator` and `EnableDisableGenLine`.
- `EnableIpfix` and `EnableDisableLine`.

The ghost `Request(g, tr, r)` records what the caller asked for. A console command asks
only for its own stream. A direct `set_gen_rate` call asks for each stream it gives a
non-zero rate.

**An ambiguity.** The docstring of `enable_ipfix` (line 236) says it "enable/disable[s]
all generators and the exporter". It can be read as setting every generator's own flag.
The RPC carries only the client key and the flag, and the server is not in `src/`. The
model follows `spec.md` (a client-wide flag next to the per-generator ones, which it
leaves alone). No property depends on this reading.

The credit-based record pacer of `spec.md` §4.2 runs in the server with no client code
to translate, and is not modelled.

### `ProfileLoad.tla` (profile replacement, `emu_plugin_ipfix.py` lines 504-591)

**State.** `installed`: the profile the EMU server runs, or `NoProfile`. `outcome`
(ghost): how the last command ended.

**Actions.**
- `IpfixPush(u, h)`: `ipfix_push`. It raises before touching the server when the
  factory returns no exporter params for the URL (`BadUrls`) or when the header-fields
  file is missing. Otherwise it builds `PushProfile(u, h)`: directory export for every
  type, retry and header fields for HTTP, the packet wait time for UDP.
- `IpfixLoadProfileCfg(f)`: `ipfix_load_profile_from_cfg_file`. A `ValueError` while
  building the profile is printed and the command returns.
- Both end in `RemoveThenLoad(p)`: `remove_profile()` then `load_profile(p)`. With
  `RpcMayFail`, either RPC may raise. If remove raises, nothing changed. If load raises,
  the old profile is already gone. `ipfix_push` calls `profile.get_profile()` between
  the two RPCs (line 568). That method is outside `src/`. The model builds the profile
  first, and a `get_profile()` that raised would lead to the same state as a failed load.

The URLs, files and profiles are model values and records that keep only what decides
the control flow (exporter type, whether a header file was given).

### `ProfileStore.tla` (abstract profile store, `spec.md` section 7)

The promise: the installed profile is replaced by a profile a command can build, in
one step, or not at all. `ProfileLoad` instantiates it with the identity mapping on
`installed`, and `AtomicReplace == Store!StoreSpec` is checked as a property.

### `IpfixClient.tla` (composition of `ProfileLoad` and `IpfixGen`)

`G == INSTANCE IpfixGen` and `P == INSTANCE ProfileLoad` are combined in two actions:
- `ProfileCommand`: a profile command. A completed load replaces the generator table
  with a fresh one (`FreshGens`, `spec.md` section 3: generators are created at profile
  load). Any other outcome leaves the table.
- `GenCommand`: a rate or enable command. The server applies it only while a profile is
  installed. With no client it answers with an error and nothing changes, which is a
  stutter here. This guard is server behaviour and is marked `spec_modelled`.

### `StreamProfile.tla` (stream profile, `src/interactive/profiles/stl/simple.py`)

**State.** `streams[p]`: the stream `get_streams` returned for port `p`. `pkt`: the
last packet a loaded stream sent.

**Actions.**
- `GetStreams(p, size, offset)`: the size checks raise; otherwise both addresses get
  `int(port_id/2)+offset` as their third octet, and `create_stream` pads the packet to
  `size` minus the 42 header bytes and the 4-byte FCS.
- `Send(p)`: the field engine draws the 1-byte `ip` and the 2-byte `port` and writes
  `ip` into the last octet of the source and `ip + 128` (one byte, so modulo 256) into
  the destination.

Addresses are the four numbers the f-string writes, not strings, so an octet above 255
is visible. `TypeOK` therefore types the octets as integers. It bounds the size by the
limits of lines 43-46 and the source port by `port_range`.

## Runs

| Run | Expect | Checks | What it shows |
|---|---|---|---|
| `ramp_safety` (`MC_RampTest.cfg`) | pass | `PassedVerdictsSound`, `RampProgress` | Every RPC may raise (`RpcMayFail = TRUE`). A passing verdict was always taken on a window in which exactly its rate ran for exactly one duration. So no verdict rests on a stale window after a failed update, or on traffic added to an uncleared window. The ladder 20, 21, 22, 23 has rungs 5% apart, so a stale window passes the 10% test on the numbers, and only the `fail` flag rejects it. The verdicts follow the ladder in order, and all but the last passed. |
| `ramp_exit_traffic` (`MC_RampTest_exit.cfg`) | violation | `TrafficStoppedAtExit` | No RPC fails, yet the process can end with traffic running. The counterexample is base = target = 10: the step is 0, so `range()` raises. |
| `ramp_steps` (`MC_RampTest_steps.cfg`) | violation | `RampHasRequestedSteps` | Base 20, target 10, steps 3 gives a ladder of 4 rungs. |
| `ipfix_client` (`MC_IpfixClient.cfg`) | pass | `RatesFollowRequests`, `RejectKeepsProfile` | Pushes and config loads whose RPCs may fail interleave with rate and enable commands. Every stream runs at the rate its profile set or a later command asked for it, so the 0.0 placeholders of the console commands never reach a stream. A rejected command keeps the running profile. |
| `ipfix_push_fail` (`MC_ProfileLoad_fail.cfg`) | violation | `AtomicReplace` | A cfg profile is installed, then a push whose `load_profile` raises leaves no profile at all. |
| `stream_profile` (`MC_StreamProfile.cfg`) | pass | `TypeOK`, `PacketsAsConfigured` | Every packet is exactly the accepted size, FCS included, and its two host bytes differ, across the size limits and the wrap of the 1-byte field. |
| `stream_offset` (`MC_StreamProfile_offset.cfg`) | violation | `AddressesValid` | Port 3 with `--offset 255` writes the octet 256. |

### Bounds

**Ramp driver.**
- Base rates {10, 20} and targets {10, 24, 40, 45} give an empty ladder, a one-rung ladder, ladders that divide exactly and ladders that do not, and descending ladders. They also give the ladder 20, 21, 22, 23, whose neighbouring rungs are within the 10% threshold of each other.
- Steps {−2, 0, 3, 50} give a negative count, a zero count, a normal count and one so large the step truncates to 0.
- Durations {−1, 0, 1, 2} include both raising values.
- Losses {0, 1, 5} give windows that are exact, within 10%, and outside it.

**Composed IPFIX client.**
- Two generators with rates {1, 3}, so a command for one stream can disturb the other stream or the other generator.
- One URL of each kind (HTTP, UDP, rejected), and one valid and one invalid configuration file. This reaches a load, a failed remove, a failed load, a rejected command, and generator commands before and after each.
- Generators are symmetric. The URLs are not, because they play different roles.

**Stream profile.** Sizes {63, 64, 9216, 9217} are the values on both sides of each
limit. Ports {0, 3} lie in different pairs. Offsets {−1, 7} include a negative value,
which argparse accepts. The sampled ip bytes {0, 1, 127, 128, 255}
include the values where `+128` wraps, and the source ports are both range ends.

Every property of a passing run has a mutant in `PROJECT.json`: a plausible bug in a
mapped definition. TLC finds each mutant's property violated.

### Fairness

No module assumes fairness, because every property checked is a safety property.

## Findings

1. **Traffic left running** (`src/simple_bench.py:109`, also lines 108, 104 and 92). Some
   values that argparse accepts make `do_test` raise an exception it does not catch, after
   traffic has started:
   - a zero step: target equal to base, or |target − base| < |steps|;
   - `--steps 0`;
   - a negative `--duration`;
   - `--duration 0`, at the first judgement (line 120). With an empty ladder the division
     comes only at line 131, after `stop()` at line 129, so traffic is stopped there. The
     session is still left open.

   The process then exits with the streams transmitting and the session still open.
   `start()` disconnects before it exits, and nothing else does.
2. **More steps than requested** (`src/simple_bench.py:108-109` against the help text at
   line 160). Because the step is truncated, the ladder has more rungs than `--steps`
   whenever the difference is not a multiple of it, and the target rate is never tested.

3. **A failed load leaves no profile** (`emu_plugin_ipfix.py:567-568` and `590-591`
   against `spec.md` section 7, "no partial state change"). Both commands remove the
   running profile before they load the new one. If the server rejects the load, the
   client runs nothing, so replacement is not atomic. Every client-side check does run
   before the remove (`RejectKeepsProfile` holds).
4. **`--offset` is not validated** (`simple.py:48`). Only the size is checked. An offset
   that puts `int(port_id/2)+offset` above 255 yields an address string such as
   `16.0.256.1`.

A smaller divergence, not checked by any run: line 126 logs "triple step duration", but
line 128 sleeps six durations.

## Proofs

`RampTest_proofs.tla` proves `THEOREM RampSafety`:
`Spec => [](TypeOK /\ PassedVerdictsSound /\ RampProgress)`. It holds for every value of
the constants that satisfies `ArgsAssumption`: positive base and target rates, integer
steps and durations, natural losses containing 0, and a positive initial multiplier.

**The inductive invariant.** The invariants are not inductive as they stand, so the proof
uses `IInv == TypeOK /\ LoopInv /\ WindowInv /\ PassedVerdictsSound /\ RampProgress`.
`IInv` was model-checked on the `ramp_safety` instance before it was proved. The two added conjuncts are:
- `LoopInv` ties `i` to the verdicts: `Len(verdicts) = i − 1` while looping and `= i` in the final phase, with all earlier verdicts passed.
- `WindowInv` states what the window holds when a judgement starts with `fail = FALSE`: exactly `{rates[i]}` for `arg.dur` seconds.

Without `WindowInv`, `Judge` could append a passing verdict on any window.

**The argument.**
- `InitIInv` proves that Init implies `IInv`.
- `NextIInv` proves that `IInv` is preserved. It has one case per action, with lemmas `UpdateStep`, `JudgeStep`, `FinishStep` and `CrashStep`.
- The temporal step combines the two with PTL.

**Lemmas about the model's operators.**
- `RangeType`: the `range` model yields positive rates whenever the step is non-zero.
- `SleepType`: what a sleep leaves in `rx` and `win`.
- `ArgType`: the types of the command-line fields.
- `TypeSplit`: splits `TypeOK` into its arithmetic part and its flags, for the two backends.

`RampTest_proofs.tla` also states the two corollaries `RampTypeCorrect` (`[]TypeOK`)
and `RampOrder` (`[]RampProgress`) of `RampSafety`.

`IpfixClient_proofs.tla` is about the composed client. It extends `IpfixClient`, so its
theorems speak of the client's own `Spec` and properties, for every set of generators,
rates, URLs and files.
- `THEOREM RatesSafety`: `Spec => []RatesFollowRequests`. `rate = asked` is inductive
  as it stands:
  - A load sets both to the profile's rates.
  - A rate command and its request apply the same update to one generator's streams (`SetAndRequest`). The console wrappers are `set_gen_rate` with a 0 for the other stream (`GenStep`).
  - An enable command changes neither.
- `THEOREM RejectKeeps`: `Spec => RejectKeepsProfile` (`RejectStep`,
  `RejectKeepsStep`). Every client-side check of `ipfix_push` and
  `ipfix_load_profile_cfg` runs before `remove_profile`.

`StreamProfile_proofs.tla` proves `THEOREM StreamSafety`:
`Spec => [](TypeOK /\ PacketsAsConfigured)`. It holds for every set of ports, sizes,
offsets and draws allowed by `StreamAssumption` and `SPortAssumption`: natural port ids,
integer sizes and offsets, bytes for `ip`, and source ports inside `port_range`.
- **The inductive invariant.** `IInv == TypeOK /\ FrameInv /\ PacketsAsConfigured`.
  `FrameInv` says that every loaded stream's frame already has its accepted size, which
  is what `Send` copies into the packet. `IInv` was model-checked first.
- **The lemmas.**
  - `CreateStreamOK`: the padding is exact for an accepted size.
  - `WriteIpOK`: the field engine keeps a stream a stream and writes two different bytes.
  - `HostBytesKeepType` and `SportKeepsType`: the record updates keep the type.
  - `GetStreamsStep` and `SendStep`: the two cases of `NextIInv`.
- The octets in `Streams` are integers, not bytes, because an `--offset` (any int, and
  the MC instance uses −1 and 7) can push the third octet outside 0..255. That is the
  `stream_offset` finding.
- `COROLLARY StreamTypeCorrect`: `Spec => []TypeOK`.

### What only TLC checks

- **The violation runs** (`ramp_exit_traffic`, `ramp_steps`, `ipfix_push_fail`,
  `stream_offset`). These properties are false of the code, and TLC's counterexamples
  are the evidence.
- Liveness and `ENABLED` are beyond the prover. No property here needs them.

The prover also cannot do induction over recursive definitions, and no module with a
theorem uses `RECURSIVE`.

## Not modelled

- **The exporter transports and the session ring.** The HTTP retry, directory export and
  the ring of 30 session records run only in the server, which is not in `src/`. The
  client code sets their parameters and has no control structure of its own to translate.
- **The third exporter type.** `ipfix_push` has branches for `http` and `udp` only; what
  other types `IpfixExporterParamsFactory` returns is defined outside `src/`.
- **A server that loads part of a profile.** `load_profile` either succeeds or raises.
- **How scapy renders an invalid address.** The model stops at the octet value.
- **The server's record pacer**, packet batching and record encoding. They run only in the
  server.
- **`clear_counters`** (`emu_plugin_ipfix.py:128-130`) zeroes the plugin's counters on the
  server. No modelled state depends on those counters. The other getters (counters,
  generator info, exporter info) only read.
- **Logging, printing, argparse and table rendering.**
