# TLA+ models of the trust-platform runtime

This directory holds TLA+ specifications of the concurrent and stateful parts
of trust-platform. The sources are under `src/` and the design is in `spec.md`.
Each module is written from the Rust source. The parts of the system that the
source tree does not contain (the executor, the debug control, the scheduler)
are modelled from the spec, and the map in `PROJECT.json` marks them
`spec_modelled`.

## 1. The system and its parts

| Part | Source | State it keeps | Operations that change state |
|---|---|---|---|
| Historian | `trust-runtime/src/historian.rs` | journal file, sample ring, tracked variables, samples_total, last_capture_ms, alert trackers (keyed by rule name), alert ring, alerts_total | `new` (load journal), sampler loop → `capture_snapshot_at`, `append_samples`, `evaluate_alerts`, `dispatch_hook` |
| Debug stop coordinator | `trust-debug/src/adapter/stop.rs` | the stop channel, pause_expected, the shared seq counter, the shared writer | `spawn` loop: `recv`, `wait_clear`, `should_emit_stop`, `emit_stop` |
| MQTT I/O driver | `trust-runtime/src/io/mqtt.rs` | the io.params table, session (or none), next_reconnect, health; the worker thread's connected flag, last_error and incoming slot | `MqttIoConfig::from_params`, `from_params_with_factory`, `ensure_session`, `read_inputs`, `write_outputs`, the worker's event loop |
| Pairing store | `trust-runtime/src/web/pairing.rs` | pending code, tokens (id, hash, role, expiry, enabled), tokens file | `start_pairing`, `claim`, `validate_with_role`, `list`, `revoke`, `revoke_all`, prune, `save_tokens` |
| Package registry | `trust-runtime/src/registry.rs` | registry.toml, index.json, package directories with metadata | `init_registry`, `publish_package`, `download_package`, `verify_package`, `list_packages` |
| Conformance runner | `bin/trust-runtime/conformance.rs` | case list, per-case results, summary counters | `run_conformance`, `execute_runtime_case`, `civil_from_days` |
| OPC UA server | `trust-runtime/src/opcua.rs` | the server thread and its JoinHandle, the exposed nodes, the address space's variable values | `start_wire_server` (checks, node collection, spawn, `wait_for_endpoint`, startup probe), its polling action, `stop`/`Drop`, `run_load_fixture` |
| Security, settings, trace toggle, registry CLI, LSP handlers | | configuration data, a OnceLock, argument parsing | none that a property distinguishes |

How the parts interact (spec §2, §6):
- The scheduler owns the scan cycle. Each cycle it reads inputs through the I/O drivers, runs the executor, writes outputs through the drivers, and lets the historian sample the snapshot.
- The executor posts `DebugStop`s to the coordinator's channel and waits for a resume.
- The coordinator runs on its own thread. It shares `pause_expected`, the sequence counter and the protocol writer with the adapter's request loop.
- The historian's sampler thread polls `DebugControl::snapshot()`.
- The OPC UA server thread's polling action reads the same snapshot and copies it into the address space; OPC UA clients read and write that address space.
- The MQTT driver has a worker thread that the scan thread talks to through shared flags.
- The pairing store and the registry are called from request handlers, possibly concurrently, and persist to files.

The hard behaviours, listed with their lines in `PROJECT.json` under
`hazards`:
- The wall clock going backwards, combined with a restart.
- A journal append that fails part way, inside a line or before its newline, and the next append continuing that line.
- Alert trackers keyed by name.
- Check-then-act races in the coordinator: the generation check versus the write, and sequence numbering versus the writer lock.
- Several executor threads stopping for one pause request.
- Reconnect pacing after a lost MQTT session.
- Ids built from the current second, ignored save errors, and a code consumed on failure in pairing.
- A server thread that outlives a failed OPC UA start-up, and client writes that the polling action reverts.
- In the registry, an exists check before copying and a read-modify-write of the index without a lock.

## 2. Modules

### Historian (`Historian.tla`, `MCHistorian.tla`)

State variables and the code each one stands for:
- `journal`: the lines of `history_path`. Each line records the sample whose text it carries and whether it parses as one sample.
- `journalOpen`: the file ends without a newline after its last line.
- `samples`: `inner.samples`.
- `trackedVariables`, `samplesTotal`, `lastCapture`: the `inner` fields of the same name.
- `trackers`: `inner.alert_trackers`, a function from rule name to tracker.
- `alerts`, `alertsTotal`: the alert ring and its counter.
- `hookLog`: events delivered to hook targets.
- `clock`: `unix_ms()`.
- `cycled`: whether the snapshot has globals yet.

`streak` and `fired` are history variables: per rule index, the consecutive breaches seen, and the events of the latest evaluation. `clockSteps` counts how often the clock was set back, up to `MaxClockSteps`. `failures` counts failed appends, up to `MaxAppendFailures`.

Actions:
- `CaptureRecorded` is the whole locked section of `capture_snapshot_at`, followed by the hook dispatch. It performs, in order:
  - the interval check;
  - collecting the samples;
  - the append;
  - the ring push and trim;
  - the counters;
  - `latest_numeric`;
  - `evaluate_alerts`, a recursive fold over the rules in `EvalFrom`;
  - the alert ring.
- `CaptureEmpty` covers a snapshot with nothing recorded: only `last_capture_ms` moves.
- `AppendLines` is `append_samples`, and `WriteLine` is one `write_all(line)`. On a file that ends without a newline the text continues the last line, which then no longer parses.
- `CaptureAppendFails` covers `append_samples` failing at the line after k whole lines. The failure can come before a byte is written, part way through `write_all(line)` (leaving a fragment), or at `write_all("\n")` (leaving a whole line without a newline). The ring and counters are untouched, and `last_capture_ms` does not move, so the sampler retries at once.
- `Restart` is `HistorianService::new` with `load_existing_samples` (the operator `Load`). `Parsed` keeps the lines that read and parse, as the `continue`s of the loader do. An unterminated last line that is a whole sample reads.
- `Tick` and `ClockStepBack` model the wall clock.
- `Query(variable, since, limit)` is `HistorianService::query`: the limit clamped to 1..5000, the filters, and the most recent matches in ring order.
- `AlertsView(limit)` is `HistorianService::alerts`: the last `limit` alerts, the limit clamped to 1..1000. `PrometheusSnapshot` is `prometheus_snapshot`: the three counters. `AlertsAlternate` is stated over these read paths.
- `CompiledRule(r)` is `compile_alert_rules`: a rule with a name, a variable, a threshold and a non-zero debounce. The ASSUME requires every configured rule to pass it.

Data is abstracted:
- A snapshot maps each leaf path to a small integer or a text value.
- The glob allow-list is the set of admitted paths.
- Bool leaves count as numeric, as `as_f64` does.

### StopCoordinator (`StopCoordinator.tla`, `MCStopCoordinator.tla`)

The coordinator thread is a program counter `cpc` whose steps follow the code:
- `Recv`;
- `Filter`, which is `wait_clear` plus `should_emit_stop`, using `PauseGate` (swap or store of `pause_expected`) and `GenerationCurrent`;
- `FetchOut` and `FetchStopped`, the two `fetch_add`s;
- `WriteOut` and `WriteStopped`, the two locked writes, where an error ends the thread;
- `TakeWatch` and `WriteInvalidated`.

The actors around it are modelled from spec §4.3:
- executor threads that post a stop and wait for a resume;
- `SetBreakpoints`, which advances a file's generation;
- `Pause`;
- `Resume`, which clears the gate, resumes the threads, and either withdraws a pending pause (continue) or arms a step;
- `ArmGate`, which arms the gate after a stopped event has been written;
- `ChangeWatch`;
- `Disconnect`;
- the adapter's request loop, which numbers a message from the shared counter and writes it (`RespondNumber`, `RespondWrite`).

The gate is armed after a stop has been emitted (spec §4.3, item 1). The code that arms it is not in the source tree, and `emit_stop` does not touch the gate. So arming is a step of its own, which can come at any point after the stopped write.

### MqttDriver (`MqttDriver.tla`, `MCMqttDriver.tla`)

State variables and the code each one stands for:
- `hasSession`, `health`: `MqttIoDriver.session` (present or not) and `health`.
- `wait`: `next_reconnect - Instant::now()`, 0 once it has passed. Time is kept
  relative because the code uses `Instant`s only to compare with `next_reconnect`.
- `inputs`: the input image `read_inputs` fills.
- `table`: the io.params table the driver is built from, until `Build` has run.
- `received`: the latest payload the worker received since the last `read_inputs` (a history variable for `InputsTakeLatest`).
- `sConnected`, `sError`, `sIncoming`: the session's `connected` flag, `last_error` and `incoming` slot, shared with the worker thread.
- `sQueue`, `sAlive`: rumqttc's request channel (its fill level) and whether the worker thread still runs.
- `phase`: where the scan thread is (`new` before construction, `read`, `write`, or `blocked` inside `publish`).
- `broker`, `outages`, `drops`, `connectErrors`: the environment and its bounds.
- `sinceConnect`, `minGap`, `sinceFailure`, `minRetryGap`: history of `factory.connect` calls, with ages capped at the reconnect interval.

`ensure_session` is a pure operator on a record of the driver (`EnsureSession`, using `Connect`). `ReadInputs` and `WriteOutputs` apply it and then do the rest of the call in the same step. This includes the publish: it can enqueue, fail because the channel is closed (`PublishFailed`), or block on a full channel. The worker's event loop gives `WorkerConnAck`, `WorkerIncoming`, `WorkerSend` and `WorkerExit`. `WorkerExit` is reached through `WorkerFails` (the broker is down) or `WorkerDrops` (the broker drops the connection). It breaks out of the loop, which drops the channel's receiver; that is what releases a publish blocked on a full channel.

Construction is modelled from the table up. `ParseBrokerEndpoint` is `parse_broker_endpoint`: a `[host]:port` form keeps the host untrimmed, a plain form splits at the last `:` and refuses an empty host, and a form without a separator is refused, except `::1`, which splits into host `:` and port 1. `ParsePort` is `parse_port`, and `IsLocalHost` is `is_local_host`. `MqttIoConfigAccepts` is the chain of checks in `MqttIoConfig::from_params`: the endpoint parses, `tls` is not true, a remote host needs `allow_insecure_remote`, username and password come together, and `keep_alive_s` fits a u16. `AcceptedTables` is what `validate_params` accepts. Init picks any accepted table, and `Build` (`from_params_with_factory`) turns it into a driver with no session.

### Pairing (`PairingAbstract.tla`, `Pairing.tla`, `MCPairing.tla`)

`PairingAbstract` is the contract of spec §4.7:
- one outstanding code (`pending`);
- a set of live grants, each a token and a role;
- the set of tokens ever issued.

`Claim` consumes the code and adds at most one grant, for a fresh token and a role below Admin. Every other step only withdraws grants. `Restart` forgets the code and keeps the grants.

`Pairing` follows `PairingStore`:
- `tokens`, `pending` and `file` are `state.tokens`, `state.pending` and the JSON file.
- `clock` is `now_secs()`.
- `pc` holds, per caller, the call in progress together with the `now` it read before taking the mutex.
- `Call` is that clock read.
- `StartPairing`, `Claim`, `Validate` (the effect shared by `validate_with_role`, `validate` and `list`), `Revoke` and `RevokeAll` are each one atomic step for the locked section. Each step includes the prune and the conditional `save_tokens`.
- `Save` may write the list, leave the old file (the create or open fails), or leave a file that no longer parses (the write fails after the truncating open). Its result is ignored, as in the code.
- `Restart` and `Init` are `with_clock`: `load_tokens` followed by `normalize_loaded_tokens`.

The refinement mapping sends the enabled tokens with `expires_at >= clock` to the abstract grants, and `0..nextTok-1` to the issued set.

### OpcUaServer (`OpcUaServer.tla`, `MCOpcUaServer.tla`)

State variables and the code each one stands for:
- `cfg`: the `OpcUaRuntimeConfig` passed to `start_wire_server`, with `listen` and `endpoint_path` abstracted to whether they parse and the security profile to its (policy, mode) pair.
- `globals`: the runtime's global storage as the snapshot provider returns it. `Unmapped` is a value `map_iec_value` maps to `None`: always for a global of a type it does not map (`Opaque`), and for a WCHAR holding an invalid code point (`Surrogates`).
- `result`, `caller`: `start_wire_server`'s return and where its thread is (running the checks, in `wait_for_endpoint`, returned).
- `thread`: the server thread (not spawned, starting, listening, exited). `owned`: an `OpcUaWireServer` holds its `JoinHandle`.
- `nodes`, `space`: the exposed nodes in publication order and the value of each node's variable.
- `client`: `run_load_fixture` (its node, the value it read, the iteration).

Actions:
- `Start` is `start_wire_server` up to the spawn: `Ok(None)` for a disabled config; `Err` for a config error or any failing step (PKI directories, no snapshot, server build, publication, spawn); otherwise the nodes that `collect_exposed_nodes` returns (`CollectFrom`, which stops once `max_nodes` have been pushed, checked after the push) are published with their snapshot values and the thread starts.
- `Bind` is `run_server` binding the endpoint, or failing to and returning.
- `EndpointReady` is `wait_for_endpoint` connecting, followed by the startup probe. A probe with no identity, or one that fails, returns `Err`, and the `OpcUaWireServer`'s `Drop` stops the thread.
- `EndpointTimeout` is the 4 s deadline of `wait_for_endpoint` passing: `Err`, and nothing owns the thread.
- `Poll` is the polling action: every node whose global maps takes the snapshot value (`Refresh`).
- `Stop` is `OpcUaWireServer::stop`: abort, then join.
- `ClientStart`, `ClientRead`, `ClientWrite` are `run_load_fixture`: a session on the returned server, then per iteration a read of the node and a write of the value read.
- `RuntimeCycle` is the scan cycle changing the globals (spec §4.2).

## 3. Runs and what they show

| Run | Expect | Checks | Shows |
|---|---|---|---|
| `hist_alerts` | pass | TypeOK, DebounceRespected, AlertsAlternate | Debounce holds per rule over every value sequence, with trackers keyed by name. The events of each rule alternate Triggered/Cleared in the alert ring, and the ring starts with a Triggered while `alerts_total` shows nothing was evicted. This holds with the ring evicting (cap 2), the clock set back, appends failing part way, and a restart. |
| `hist_torn` | violation | RingPersisted | A capture's append fails inside its first line. The retry succeeds and returns Ok, but its first line continues the fragment, and `load_existing_samples` skips that line. The `temp` sample is in the ring, and `query` returns it, yet a restart loses it. This goes against spec §4.5's newline-delimited journal and its round-trip law. |
| `hist_order` | violation | QueryChronological | A capture, the wall clock set back, and a restart: `HistorianService::new` leaves `last_capture_ms` unset after loading the journal, so the next capture is accepted with an older timestamp and `query` returns samples out of order, against spec §4.5. |
| `opcua_orphan` | violation | NoOrphanServer | The server thread binds after `wait_for_endpoint`'s deadline: `start_wire_server` returns `Err` through `?`, the `JoinHandle` is dropped, and the thread keeps serving with nothing left to stop it. |
| `mqtt_live` | pass | ConnectRetryPaced, RecoversWhenBrokerUp, PublishReturns, InputsTakeLatest | The driver is built from any table `from_params` accepts. `read_inputs` applies exactly the latest payload received since the previous call. After a failed connect or a failed publish, the next connect waits `reconnect_ms`. Once the broker stays up, the driver ends up connected and Ok. A `write_outputs` blocked in `publish` on the full request channel always returns: the worker either drains the channel after ConnAck or exits and closes it. The spec's stronger rule, that `write_outputs` never blocks, does not hold (hazard `mqtt.rs:206`). |
| `mqtt_rate` | violation | ReconnectRateLimited | A session lost by the worker is replaced at once: two connects with no interval between them (spec §4.4). |
| `pair_refine` | pass | PairingRefinesAbstract | With two concurrent callers, the clock, a restart and saves that succeed, the store implements the abstract contract. Revoked or expired tokens never return, and no grant is Admin. A caller holding a `now` read before the lock is not caught: the abstract contract allows it. |
| `reg_seq` | pass | ListedVerifies, DownloadIntact | With one publisher, a concurrent downloader and copies and writes that fail part way, every listed package verifies with the digest the index records. An Ok download leaves exactly the package's files. |
| `reg_race` | violation | PublishedOnce | Two concurrent publishes of one (name, version) both pass the `exists()` check and both return Ok, against spec §4.6. |
| `conf_golden` | pass | SummaryTruthful, VerifyConfirmsUpdate, StampIsUtc | Over successive update and compare runs, with a rebuild, a case that fails to execute, and failed writes: the summary counts exactly the per-case statuses, and Ok means every case passed. A case that an update run reported passed passes every later compare run of that build. The timestamp is the UTC date and time of the clock, and `civil_from_days` matches the calendar across leap days, centuries and the era boundary. |
| `sc_seq` | violation | WireSeqMonotonic | Numbering before locking lets an adapter message with a higher seq overtake the coordinator's output/stopped events. |
| `sc_stale` | violation | StaleBreakpointNeverEmitted | A `setBreakpoints` between the generation check and the write lets a stop for the replaced vector reach the host. |
### Registry (`Registry.tla`, `MCRegistry.tla`)

`Registry` models one registry directory shared by processes running `publish_package` and `download_package`, with no lock between them:
- `pkg` holds, per (name, version), either "no directory" or the bundle's file tree (path to content) together with `metadata.json`.
- `index` is `index.json`, or `Corrupt` after an interrupted write.
- A file's content determines its bytes and its sha256, so a digest is represented by what it digests.
- A publish is a sequence of steps, and another process can run between any two of them:
  - `PublishBegin` is the `package_root.exists()` check;
  - `PublishCopy` copies one file per step (`copy_dir_recursive`);
  - `PublishDigest` is `collect_file_digests`, and refuses an empty payload;
  - `PublishMeta` writes `metadata.json`;
  - `PublishIndexRead` and `PublishIndexWrite` are the read-modify-write of `update_registry_index`.
- Every write may fail, leaving the old file or one that no longer parses, up to `MaxFailures` failures.
- `Download` is `download_package` in full: metadata, the optional verify, `ensure_empty_output_dir`, a copy that may fail part way, and the verify of the output.
- `config` is `registry.toml` (visibility and token) or `Corrupt`. `Access(tok)` is `load_registry_config` followed by `ensure_access`: a corrupt file refuses every call, and a private registry requires the configured token. `PublishBegin` and `Download` take the presented token from `Presented`; a refused call changes nothing.
- `InitRegistry` is `init_registry` run again on an existing registry: `enforce_private_contract` (`PrivateContract`: a private registry needs a token), then a `registry.toml` write that may fail (`WriteConfigFailed`), up to `MaxInits` times. It does not touch packages or the index, and it can fall between the steps of a publish, which checked access only at its start.
- `Digests`, `AggregateSha` and `Verify` are the digest helpers, written as operators.
- `okCount` and `lastOk` are history variables. They record publishes that returned Ok, and the key each downloader last got Ok for.

### Conformance (`Conformance.tla`, `MCConformance.tla`)

`Conformance` models successive calls of `run_conformance` over one suite:
- `expected` holds the golden files, and `summary` holds the latest run's summary file.
- `build` is the runtime build. `Rebuild` changes it between runs.
- `Start` selects the cases. An empty selection is an error before anything is written. It then sorts the cases and reads the clock.
- `RunCase` is one iteration of the loop. `CaseOutcomes` gives every branch of the `execute_case` / update / compare match, with the status and counter each branch sets, and the expected write or read with its failures.
- `Finish` writes the summary and returns Ok or an error.
- A case's artifact is a function of the case and the build (`Payload`). `FailsToExecute` lists the cases whose `execute_case` returns Err.
- The `reports/actual` files are written with their errors ignored, and no run reads them. Only a failed write is counted.
- `CivilFromDays` and `SplitUnixUtc` translate the date code, using Rust's truncating `/` (`Quot`). `DateReference` is a separate reference calendar that counts years and months; its month offsets are a RECURSIVE operator.
- `upd` and `lastRun` are history variables. `upd` records the cases an update run reported passed, per build. `lastRun` records the latest run's per-case results and result.

Other disagreements between the code and the spec came up while modelling. Each is recorded as a hazard in `PROJECT.json`, with a note, rather than as a run:
- Two alert rules with one name share a tracker.
- `publish` can block `write_outputs` on rumqttc's full request channel.
- Two claims in one second get the same token id.
- A legacy token without `expires_at` gets a new expiry at every load.
- `revoke`, `revoke_all` and `claim` ignore a failed `save_tokens`, so a restart brings back a revoked token. The Pairing model has this fault (`AllowSaveFailure`), and TLC refutes `PairingRefinesAbstract` with it in a few steps; the spec does not say what a failed save means, so `pair_refine` checks saves that succeed.
- The polling action overwrites client writes to the writable OPC UA nodes.
- Concurrent publishes of different packages can lose an index entry, and an unparsable `index.json` is replaced by one holding a single entry.

Some modelled behaviour has no property, because any property would only restate a guard, or a definition, of the code:
- the pairing cap: the count and the push are under one lock;
- the capture interval within one process: the guard is `saturating_sub` itself;
- the acceptance rules of `MqttIoConfig::from_params`;
- a single publisher's `exists()` check.

The coordinator's pause filter (`PauseGate`) is modelled, but no run states its bound. Both coordinator runs are spent on ordering properties that the code violates.

Each property of a passing run has a mutant in `PROJECT.json`: a plausible bug in the modelled code that TLC shows the property catches. The mutants are:
- the ring trim stopping one element late;
- a tracker that does not reset its count;
- an event pushed whenever the tracker is active;
- a publish without the `exists()` check;
- `ensure_empty_output_dir` accepting a non-empty directory;
- a compare branch that bumps `failed` for a read error;
- an update branch that ignores the write error;
- `civil_from_days` carrying the year for January only;
- a failed connect that does not advance `next_reconnect`;
- a worker that sets the error flag and keeps looping instead of breaking out (for `PublishReturns`);
- an inverted `now < next_reconnect` comparison;
- `sanitize_requested_role` letting Admin through;
- a worker that keeps the first payload in the incoming slot instead of overwriting it.

### Bounds

Historian:
- Two leaf paths: `temp` is numeric with values 0..2, and `mode` is text. Every capture therefore appends two lines, and a failed append can stop between them.
- Two rules: `hot` is `temp > 1` with debounce 2 and a hook, and `cold` is `temp < 1` with debounce 1. `temp` takes the values 0 and 2: 2 breaches `hot` only and 0 breaches `cold` only, so every breach, non-breach, debounce and clear path is reached (a middle value would breach neither rule, which 0 and 2 already do for the other rule).
- `max_entries` = 3, so the sample ring evicts; an alert cap of 2 in `hist_alerts`, so the alert ring evicts by the third event (the cold rule Triggered, Cleared and Triggered again).
- An interval of 2 with a clock of 0..5, set back at most once, allows three captures; the journal is bounded to 6 lines (`JournalBound`).
- One restart and one failed append (`MaxAppendFailures`). One failure already leaves every kind of line end: none, a fragment, or a whole unterminated line. The next append continues it, or a restart reads it first. More failures only repeat this with other values. `hist_order` allows none.
- In `hist_order` the values do not matter, so there is one value and no rules, and the clock runs over 0..5.

OPC UA:
- Two globals, a DINT and a WCHAR that may hold an invalid code point, both admitted by the patterns; values 1 and 2.
- Configs with a valid profile and every combination of anonymous, username and password, and `max_nodes` 1 or 2, so a probe can lack an identity and the node list can be cut short.
- Two iterations of `run_load_fixture`, so a poll can fall between a read and its write-back.

Coordinator:
- Two threads (model values, with symmetry), so two stops can be in flight.
- One file with one generation step.
- Two stops, one pause request, one adapter message.
- These reach every path of the filter and every interleaving of the two stops with the gate arming, a resume, a pause and a write failure.

MQTT:
- Reconnect interval of 2 ticks and a request channel of capacity 1, so the channel fills with one unsent publish.
- One broker outage, one dropped connection and one failing `connect`. These bounds make the broker eventually stay up, which is the premise of the liveness property.
- Two payloads.
- io.params tables: scheme absent or `tcp`, with and without brackets and a `:` separator; hosts `localhost`, `127.0.0.1`, `::1`, `plc` and the empty host, blank or not; port texts 1883, 0, 65536 and a non-number; `tls`, `allow_insecure_remote` absent, true or false; credentials present or absent; `keep_alive_s` absent, 0 or 65536. That is 2,560 tables, 704 of them accepted. The bracket and separator cases reach every branch of `parse_broker_endpoint`, and the out-of-range values reach every refusal.

Pairing:
- Two callers (model values, with symmetry) and two codes, so a claim can carry the wrong code.
- The requested roles are None and Admin.
- Code TTL 1 s and token TTL 2 s, with a clock of 0..3 starting anywhere in 0..2, so codes and tokens both expire during a run.
- A cap of 1 enabled token, two claims and one restart. Together these reach the capacity refusal, expiry, revocation and reload.

Registry:
- Two keys and two source trees: one file, or two files that share a path with the first. A publish is therefore interrupted between files, and a download copies over an earlier one.
- Two failures, enough for a failed copy followed by a failed metadata or index write.
- One downloader. `reg_seq` has one publisher; `reg_race` has two, which is the race.
- Configs: public, private without a token (refused by `PrivateContract`), and private with token `t1`; presented tokens none, `t1` and `t2`. So a call is refused for a missing or wrong token. `reg_seq` allows one re-init, `reg_race` none.

Conformance:
- Two cases and two builds, with case 2 failing to execute under build b2.
- Two failing writes, enough for a corrupted golden file and a failed summary write.
- Clock samples: the epoch (also what a clock before 1970 reads), the leap days of 1972 and 2000, 2000-03-01, the end of 2024, and 2^31-1. TLC's integers are 32-bit, so a clock reading after 2038-01-19 cannot be represented. `civil_from_days` is therefore also checked directly, in the initial states, over days around 0000-03-01, 0001-01-01, 1900-02-28, the epoch, 1972-02-29, 2000-01-01, 2000-02-29, 2100-02-28 and 2400-02-29.

### Fairness

Only `mqtt_live` checks liveness. Its `FairSpec` gives weak fairness to:
- `ReadInputs` and `WriteOutputs`, which the scheduler calls every cycle;
- the worker thread's ConnAck, send and error exit, because rumqttc's event loop runs on its own thread;
- `Tick`, because time passes;
- `Build`, because the runtime constructs the driver before the first cycle.

`PublishReturns` relies on the same fairness: the worker's ConnAck and send, or its exit, are what the blocked scan thread waits for.

The broker, the network and the incoming publishes get no fairness.

## 4. Plan

The modules in order of importance (✓ = done):
1. ✓ Historian.
2. ✓ StopCoordinator.
3. ✓ **MqttDriver.** The scan thread's `ensure_session`, `read_inputs` and `write_outputs`, plus the worker thread (ConnAck, Publish, error) and a broker that accepts, drops and refuses connections.
   - Properties:
     - reconnect attempts are at least `reconnect_ms` apart (spec §4.4; expected violation after a session loss);
     - health Ok implies the session is connected;
     - the latest payload wins.
   - A liveness property under weak fairness of the scan cycle: after the broker comes back, the driver is eventually connected.
4. ✓ **Pairing.** All operations of `PairingStore` under concurrent callers, the clock, save failures and restarts.
   - Properties:
     - a revoked token never validates again, across a restart (expected violation when a save fails);
     - ids are unique (expected violation in the same second);
     - a role is never Admin from a claim.
   - An abstract `PairingAbstract` (a set of live grants) with `Pairing` refining it through a mapping.
5. ✓ **Registry.** Two concurrent publishers, a downloader and partial failures.
   - Properties:
     - the index lists every published package (expected lost update);
     - verify succeeds for every package the index lists;
     - republish after a failure.
   - Content digests are abstracted to model values. The aggregate digest is a pure operator checked against its definition.
6. ✓ **Conformance.**
   - The case loop and the summary counters: passed + failed + errors = total; skipped is always 0.
   - `civil_from_days` as a pure operator, checked against a reference calendar over a bounded range of days.
7. **Scan cycle composition** (spec-modelled scheduler). One cycle reads inputs through the MQTT driver, executes, writes outputs and lets the historian sample the snapshot. This checks spec §6's rule that the outputs of cycle N are visible to the historian by cycle N+1.
8. ✓ **OPC UA wire server** (`start_wire_server`, its polling action, `stop`, `run_load_fixture`). Checked: the server thread left running when `wait_for_endpoint` times out. Open: a property about client writes racing the polling action, once the spec says which value should win.

## 5. Not modelled

- In the OPC UA server: the opcua crate's address space, session protocol and `probe_read`/`connect_session` wire exchanges (a probe is an outcome), variant conversion, and the security-policy text parsers.
- TLS and certificate loading (`security.rs`), which is file I/O and PEM parsing.
- Settings, which are data.
- The trace toggle.
- The registry CLI, a wrapper whose library calls the Registry module covers.
- The LSP handlers, which are out of the spec's scope.
- The tests.

Inside modelled parts, these are left out:
- glob compilation;
- JSON encoding;
- the hook transports (a delivered hook is an append to `hookLog`);
- the coordinator's protocol log and message text;
- in the MQTT driver: letter case of the scheme and host, `client_id` and topic strings, and `keep_alive_s` beyond its range check (`connect` sets a fixed 5 s keep-alive, mqtt.rs:139).
- in the registry: identifier validation and token trimming (names, versions and tokens are model values, and `ensure_access` trims only the presented token), `ensure_registry_layout`, and `registry_api_profile` (constant data);
- in the conformance runner: manifest and value parsing, `encode_value`, the test harness itself (a case's artifact is a deterministic function of the case and the build), and the `reports/actual` files.
