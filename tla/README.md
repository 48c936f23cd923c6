# A TLA+ model of the parking-assist fault-tolerance stack

The program under `src/` runs on QNX. It reads two redundant ultrasonic rangers and two
redundant IMUs, watches the sensors for faults, keeps faulty ones out of the
distance it reports, and tries to bring them back. This directory models its
control logic in TLA+, checks it with TLC and proves its central properties with
TLAPS.

File and line references are to `src/src/` unless they name `README.md`, which is
`src/README.md`.

## 1. The system

### Components

| Component | Code | State | Operations |
|---|---|---|---|
| Fault detection state machine | `fault_detector.c/.h` | one `fdi_context_t` per sensor: state, last fault, three `uint8_t` streaks | `fdi_context_init`, `fdi_update_state`, `fdi_isolate`, `fdi_start_probe`, `fdi_probe_evaluate` |
| Fault checks | `fault_detector.c` | none; reads the ring buffers, one lock per check | `fdi_detect`: `check_delayed`, `check_stuck`, `check_noisy`, `check_contradictory` |
| Threads and channels | `main.c`, `mq_names.h` | `g_sup[]` (probe start, attempts, backoff, permanent latch), connection ids, the logger's `last_state[]` | `sensor_fusion_thread`, `fault_detector_thread`, `recovery_thread`, `logger_thread` |
| Distance fusion | `fusion.c/.h` | `fusion_state_t`: last good distance and time, velocity, last integration | `fusion_init`, `fusion_compute`, `fusion_zone_name` |
| Sample history | `sensor_buffer.c/.h` | ring of samples, write index, count, sequence number, a mutex | write, read history, latest, count, last timestamp |
| Sensor manager | `sensor_manager.c/.h` | the buffers and driver handles | init, poll, shutdown |
| Ultrasonic driver | `ultrasonic_driver.c/.h` | GPIO client, pulse channel | init, read (trigger, two edges, timeout), close |
| IMU driver | `imu_driver.c/.h` | I2C handle, offsets | init, calibrate, read, close |
| GPIO client library | `rpi_gpio.h` | outside the repository | - |

### Interactions

The sensor/fusion thread polls the sensors into the buffers, sends one message to
the fault detector and computes the distance. The fault detector evaluates the
four sensors in turn; for each it sends an event to the logger and, when the sensor
is EXCLUDED, PROBING or VALIDATING, one to recovery. Recovery starts probes, judges
them, supervises their time and logs its own events. The messages are QNX
`MsgSend`/`MsgReceive` pairs: the sender blocks until the receiver takes the message.
Every receiver replies *before* it handles the message, so the two go on in parallel.
The contexts `g_us1_ctx ... g_imu2_ctx` are shared by the first three threads with no lock;
what protects them is that the fault detector writes `state` only in HEALTHY, SUSPECT and FAULTED
and recovery only in the other three (`evaluate_sensor()`, main.c:247-253). The buffers
have a mutex, taken anew by every call.

### What is hard here

* two writers of one context, each acting on a state it read earlier, one of them on
  an event sent a cycle or more ago;
* a reinstatement of three stores that the other thread may see one by one;
* four threads that block on each other, and one that may exit at start-up;
* time-outs, attempts, backoff and a permanent latch, against late events and probe results;
* a verdict put together from several locked reads while the buffer is being written;
* time stamps that can be newer than "now", wrapping counters, a streak kept in 8 bits;
* a degradation ladder whose promises span many calls.

`PROJECT.json` lists these as hazards, each with its line and the properties that cover it.

### What makes each component correct

* *Fault detection and recovery*: a sensor is condemned, acquitted and reinstated only
  on enough evidence, in the order of the life cycle, in whatever order the threads
  run; a sensor recovery has given up on stays out; a sensor that is clean comes back.
* *Threads*: no two stores of one state at a time; nobody waits forever; no
  exclusion and no return is missing from the timeline.
* *Fault checks*: no verdict against clean sensors unless the vehicle creeps; no clean sensor excluded for its twin;
  a silent one always excluded.
* *Fusion*: no distance outlives its evidence; blindness never relaxes the zone; the safe
  edge stays before the nearest obstacle seen.
* *Sample history*: a history is the last samples, in order, at every wrap.
* *Ultrasonic driver*: the two edges of a measurement are of its own echo, though a pulse does not say
  what it is; a read ends in bounded time; a miss does not make the last sample stale; a failed start-up
  keeps nothing.
* *IMU driver*: a buffer holds readings of its own IMU only, the bias taken out and gravity left in, whatever fails on the bus.

## 2. The modules

| Module | Models | Built on |
|---|---|---|
| `SensorContract` | states, fault classes, the redundant pair, the split of the states between writers (`mq_names.h`, `evaluate_sensor()`) | - |
| `FaultDetector` | the five operations on a context, as operators from context to context | `SensorContract` |
| `FdiThreads` | the four threads and their channels | `FaultDetector` |
| `SensorLifecycle` | *abstract*: the life cycle of a sensor in terms of evidence, with no threads, messages or streaks | `SensorContract` |
| `FdiHistory` | `FdiThreads` with history variables, and the refinement of `SensorLifecycle` | `FdiThreads` |
| `FaultChecks` | the four checks as predicates of histories | `SensorContract` |
| `DetectionCycle` | `fdi_detect()` lock by lock, against the polling sensor thread and the vehicle's motion | `FaultDetector`, `FaultChecks` |
| `SampleWindow` | *abstract*: the last samples written | - |
| `SensorBuffer` | the ring with its indices, and the refinement of `SampleWindow` | - |
| `Inertial` | an IMU from start-up over calibration and polling to its ring | `SensorBuffer` |
| `Ranging` | both rangers: start-up, `ultrasonic_read()` with its pulses and time-outs, the poll and the sensor thread's cycle around it | - |
| `Fusion` | `fusion_compute()` with the state it carries from call to call | `SensorContract` |
| `FaultDetectorProofs`, `FdiThreadsProofs`, `FusionProofs`, `RangingProofs`, `SensorBufferProofs`, `InertialProofs`, `LifecycleProofs`, `DetectionCycleProofs` | theorems and proofs | the module they name |
| `MCFdiThreads`, `MCFdiHistory`, `MCDetectionCycle`, `MCFusion`, `MCInertial` | instances for TLC | the module they name |

Definitions commented "Bug:" are plausible mistakes in the definition that follows them. No specification
uses them: `PROJECT.json` names, for each property, the one that breaks it.

### FdiThreads

Each thread is a program counter and the locals that live across its steps. A step ends
wherever the thread touches something another thread uses: each access to
`ctx->state`, each `MsgSend`, each `MsgReceive`.

* A message is a rendezvous: one action in which the sender goes on and the receiver picks the
  message up (`FdiReceive`, `RecoveryReceive`, `FdiLog`, `RecoveryLogTimeout`, `RecoveryLogPermanent`). The logger's
  handling of an event touches only `last_state[]` and its output, so it is part of the
  rendezvous with it (`LogEvent`); the logger is then ready again.
* `attached` is the set of connections `queue_connect()` made; a thread without a
  connection goes on without sending, as the code does.
* `fdi_detect()` is a nondeterministic verdict here. `DetectionCycle` looks inside.
* Time. The code stamps every cycle once (`msg.now_us`) and compares only differences of
  stamps. The model keeps the differences: `age` (since `probe_started_us`), `wait` (until
  `next_probe_us`) and `lag` (how old the event recovery holds has become). `FdiReceive` ages
  them by any gap in `Gaps`. `AgeCap` and `LagCap` stop them where no comparison
  can tell values apart, and `AttemptsCap` stops `attempts` above the limit.
* `RecoveryEvaluate` and `RecoveryStore` split the reinstatement in `fdi_probe_evaluate()`
  into its visible stores in any order: the fields are plain memory, and there is no barrier.
* `RecoverySettle` reads `ctx->state` a second time, as main.c:441 does.
* `FuseAdmit` and `FuseWeigh` are the two reads of `ctx->state` in `read_contributor()`.

### DetectionCycle

One pair of rangers, their buffers as windows (what `SensorBuffer` is shown to implement), a clock kept as
ages, and an obstacle whose distance changes by one of `Moves` in each cycle: the vehicle may stand, creep or drive. A clean
sensor reports the distance, a faulty one anything in `Wild` or nothing, one with a glitch is
clean but for one reading. `MotionAssumption` keeps a cycle's step within the noise and the contradiction thresholds; the
stuck threshold is free. The history variable `route` is where the obstacle was in the last cycles, as many as a buffer holds, and `crept`
says that over some such route the distance varied no more than the stuck threshold. That is when the code, whose threshold is 3 cm (main.c:584),
condemns clean sensors as STUCK, so the properties of clean sensors say what holds until then, and that nothing else
is ever held against them. `FdiCount`, `FdiTimestamp`, `FdiStuck`, `FdiNoisy`, `FdiLatest` and `FdiCompare` are the locked
reads of `fdi_detect()`; the next poll may write between any two of them. Here exclusion is
final. A sensor whose state fusion may use is in `Usable`.

### Fusion

The unit of distance is a millimetre and of time a tick of 100 ms; one reading of the code's floating-point
formulas in integers, with divisions rounded down. `Joint` tabulates the square root for the two
sigmas the code has. `held` and `unintegrated` are the differences to `now_us` that the
code compares. The ladder is FULL (two contributors), SINGLE, HOLDOVER, UNSAFE: `Full`,
`DegradedSingle`, `Holdover`, `GiveUp`. `evidence` and `nearest` are history variables.

### Ranging

Start-up (`SetUpPins` to `SettleTrigger`) is one action for each step of `ultrasonic_init()`, for the first ranger and then
the second; any may fail (`InitFails`), which gives back `Released(step)` and ends the process. A read is `Drain`,
`SendTrigger`, `ReceiveRise`, `ReceiveFall` and `Deliver`; it returns -1 by `SendTriggerFails`, `Expire` (in either
reception), `ReadFails` (the reception or the clock after it fails, or the pulse is not the expected one) and `ReceiveFallOutOfRange`.
Then come the rest of the poll, the message to FDI and the sleep. The message waits until FDI is done with the cycle before: `Send` begins a wait of any time in `Holds`,
`Replied` ends it.

* Time is in units of 1 ms. `Tick` lets it pass to what is due first: an edge of an
  echo, the time-out, the end of a sleep. What is due at the same moment happens in any order, which is how an edge races a time-out.
  A thread that has nothing to wait for takes no time, except that a reception may come up to
  `Latency` after its pulse; both stamps of a measurement are taken after such a reception.
* A trigger starts an echo that rises after some delay and lasts for some width, or none: a ranger with an echo
  under way is deaf. Each edge is a pulse, or is lost (`Notify`). `AddEventDetect` leaves edges of an echo nobody asked for.
* A pulse carries no data in the code. The fields of `Edge` (which edge, of which call's echo, how wide) are history, read by the properties only.
* Left out: an echo heard by the other ranger (they are read one after the other), and a drain that ends at an error of `TimerTimeout()`
  or `MsgReceivePulse()` other than the time-out (ultrasonic_driver.c:269, 278). What such a drain leaves in the channel could be taken for
  the edges of this read, and with an error at every read the channel would fill without bound: `OwnEdges` and the bound of two pulses hold as long as draining works.

### Inertial

One axis of the second IMU; `pull` says whether it is the vertical one. The first IMU matters only
because `sensor_manager_poll()` reads both into one local variable, `sample`, and a failed read leaves it
as it was: hence `of`. A raw word goes over the bus as two bytes and is merged again (`Bytes`, `Merge`). All values are in LSB times the
number of calibration samples, which makes the mean an integer; the scaling to g is left out.
`CalibrateFails` is a transaction that fails at any sample: `sensor_manager_init()` ignores the result and the IMU runs without offsets.
So does it with a WHO_AM_I of another device, which `mpu6050_init()` only prints. The vehicle's accelerations lie
within `MaxMotion`, as those of a device with a range do; that makes the readings an IMU can produce a set of bounded numbers (`Reading`), the
`Readings` of its ring (`ReadingsAssumption`).

## 3. The runs

| Run | Question | Bounds |
|---|---|---|
| `threads_one` | Do the threads keep one sensor's state, books and timeline consistent, and is its life a behaviour of `SensorLifecycle`? | one sensor, limits 3/3, every set of connections, logger may fail, 2 attempts |
| `threads_pair` | Do the four threads keep running once the logger does, and does a clean sensor come back? | two sensors, limits 2/2, all connections or all but the one to the fault detector, logger may fail |
| `detection_cycle` | Are verdicts right although buffers change while they are read, whether the vehicle stands, creeps or drives? | 3 samples, 4 distances, steps 0, 1, 2, at most one sensor faulty, limits 2/1 |
| `fusion_ladder` | Does the ladder keep its promises over any run of calls? | 3 distances, 2 ages, 3 states, 3 pauses, 4 accelerations |
| `ranging` | Does a measurement belong to its trigger, and a cycle keep to its time, whatever echoes are late, lost or too long? | in ms: time-out 30, period 100, stale above 300, delays 10, 30, widths 3, 30, 38, latency 1, FDI holds up the message for 0 or 10 |
| `inertial` | Does an IMU's buffer hold its own acceleration, and the ring implement the window? | length 3, sequence numbers modulo 5, 2 calibration samples, bytes of 2 bits, accelerations within 2 |
| `probe_timeout`, `oscillation`, `same_cycle`, `logger_down`, `glitch`, `timeline` | Each shows one promise of a comment or of the README that the code does not keep (section 6). | as the run it varies |

Why the bounds are enough.

* `threads_one`: limits of 3 are the program's own. `RecoveryTimeout` 4 lets a probe finish its
  three evaluations, so both reinstatement and time-out occur; a gap of 5 passes the
  time-out in one step. Two attempts reach the permanent latch and the state before it; they are also the
  least with which `AbandonedIsNotFused` holds (the code has five, main.c:68): with one, TLC finds a sensor latched while the distance still rests on it.
  `BackoffMax` 1 keeps the window open for some events and closed for others. The threads
  treat sensors independently but for the order in `pairs[]`, so races on one context need one
  sensor only; STUCK stands for every definitive fault (the code does not tell them apart).
  CHECK_DEADLOCK is off because a logger that exits blocks everybody: that is `logger_down`.
* `threads_pair`: with two sensors an event of one may be under way while the other is
  evaluated. Limits of 2 keep the run in minutes. A logger that exits ends everything here too, so CHECK_DEADLOCK is off; that nothing
  else does is `CyclesRecur`, whose premise is that the logger opened its file.
* `detection_cycle`: a window of 3 is the least in which "all alike" and "a jump" are
  different and a jump can leave; with the stuck threshold 1 and the others 2, steps of 0 and 1 may creep and steps of 2 do not, and the wild readings
  are stuck, noisy and contradictory by turns. A sensor is overdue after two polls without a sample (time-out 1, polls 1 apart), and two
  faults in a row exclude it. In `glitch` the buffer is longer than the debounce, as in the code, and polls come up to 3 apart.
* `fusion_ladder`: 120/300/1100 mm and the uncertainties put the safe edge in all five zones, pairs both below
  and above the disagreement limit; age 3 is stale; pauses 1, 3 and 6 give holdovers of
  several calls, one that ends exactly at the limit, and one that is over at once; the accelerations are
  none, below the deadband and strong either way. `held` stops above `HoldoverMax`, `unintegrated` at
  the code's own clamp.
* `ranging`: the time-out, the period and the staleness are the program's own. Delays: within the wait, and in the very moment of the
  time-out. Widths: near, one just above the range that ends in the moment of the time-out, and the 38 ms of an HC-SR04 without a target, which is still high
  when the read has given up. The budget `BudgetAssumption` (two cycles of reads that all time out, in which one miss must fit) is met
  exactly: 6 * 31 + 2 * 2 + 10 + 100 = 300.
* `inertial`: 5 is prime to 3, so index and sequence number wrap at all offsets. Biases and accelerations of either sign
  make words of either sign; gravity doubles the range. Two calibration samples let the vehicle be pushed both ways.

Every property of a passing run has a mutant in `PROJECT.json`: a plausible mistake that makes TLC find it violated.

## 4. Fairness

Only `threads_pair`, `oscillation` and `logger_down` assume fairness: weak fairness of
each thread, `FairSpec`. A thread that can take a step, or
whose rendezvous partner is ready, does so in the end: the QNX scheduler runs ready threads of
higher priority first, each of them blocks in every cycle, and the sensor thread sleeps 100 ms in each
cycle, which lets the lower priorities run. Nothing is assumed of the verdicts. `CleanSensorsReturn` has its own premise:
it is about behaviours in which all verdicts are clean from some time on and the logger runs.
Priorities are not modelled: the model allows every interleaving, on one core or many.

## 5. The proofs

All for any number of sensors, any limits 1..255, any time-outs, gaps and connections, from the ASSUMEs of the modules.

**FdiThreadsProofs** (on the lemmas about single operations in `FaultDetectorProofs`).
None of the properties is inductive alone. The invariant is `IInv == TypeOK /\ Ownership /\ Expiry`:

* `Ownership` says what each thread's stale knowledge still entails: while the detector is
  about to store, a state it read as its own is still the state of that sensor; while recovery
  evaluates a probe, its sensor is still in PROBING or VALIDATING; while it commits, still VALIDATING
  until the store of `state` lands. Each half needs the other, since it is the other thread that could spoil it.
* `Expiry` says what a timed-out probe entails: the sensor is in PROBING or VALIDATING, its age is
  beyond the limit for good, every event that is dispatched for it is late, and the
  threads are never evaluating a probe of it.

From it: `TypeCorrect`, `NoRaceOnState` (the split of states is enough, with no lock),
`GivenUpIsNeverUsed`, and `TimeoutIsFinal` (the other side of the finding `probe_timeout`). `TimelineShowsExclusions` adds
`Timeline`, how far a sensor may be ahead of what was last logged of it (`Reported`) and what the event under way
says (`Announced`): recovery logs only of sensors whose probe timed out, and of those FDI logs no usable state.

How far the threads may disagree is the subject of four more theorems.

* `CondemnedLingersOneCycle`. Fusion runs beside the evaluation, so the distance may rest on a sensor that is out of use
  (finding `same_cycle`). `Lingering` bounds that: FDI judged the sensor in the very cycle of that distance, and recovery has found it late
  at most once since. The second part is the delicate one. Recovery may still hold an event of an earlier cycle for the sensor, but such an event
  can only start a probe, as it was sent of a sensor in EXCLUDED; the event of this cycle is the only one that can count an
  attempt, and once it has, FDI is done with the sensor until its next cycle, which begins with a new distance. This needs that `pairs[]` lists each sensor once, which `TopologyAssumption` says.
* `AbandonedLeftTheDistance`. With `Latched` (the latch takes `RecoveryMaxAttempts` attempts) it follows that no sensor is
  latched while the distance rests on it. The hypothesis `RecoveryMaxAttempts >= 2` is needed (section 3) and true of the code.
* `BackoffNeverGates`. `Backing`: recovery waits only for a sensor that has counted an attempt, and by `Expiry` such a sensor
  never comes back to EXCLUDED. So the two tests of `case STATE_EXCLUDED` that would hold a probe back are never true.
* `ContradictionsExcludeNobody`. As long as no check gives a definitive fault, every sensor stays in use and recovery is
  never woken, in any interleaving. The hypothesis is on the verdicts an instance has: it is a statement about systems in which sensors only contradict each other.

`CyclesAreBounded` is the half of `CyclesRecur` that needs no fairness. Each thread has a measure of what it has yet to do before it
receives again (`FdiWork`, `RecoveryWork`, `FusionWork`). It is bounded by the numbers of sensors and rangers (`WorkBounded`), falls with each
step of the thread and rises with no step of another (`WorkShrinks`): a thread that is late waits for another one.
That each does take its steps, and that they do not wait for each other in a circle, is left to TLC.

The one assumption of arithmetic is `BackoffAssumption`: the shifted backoff is a number; the provers know no `^`, TLC
evaluates it.

**LifecycleProofs** (on the invariant of `FdiThreadsProofs`). `HInv` adds `Evidence`: each streak is bounded by its
limit and by the verdicts that were recorded for it, and while recovery commits a reinstatement either
enough probes have passed and `state` is still to be stored, or the sensor has left VALIDATING. That
`recovery_streak` is 0 outside SUSPECT is what makes the order of the stores harmless: the late one can only
take from a streak FDI has begun. With it each step of the threads is a step of
`SensorLifecycle` or leaves it alone: `StreaksStayBelow`, `StreaksAreEarned`, `ThreadsImplementLifecycle`.

**DetectionCycleProofs.** Seven parts. `Pace`: at most one sleep ends while the detector evaluates. `Passed`: a history that was in time when it was
checked still is, for later writes only make it younger and time passes for both stamps alike; so a sensor that is overdue gets DELAYED and
nothing else, and `Counted` follows its streak. `Routed` and `Clean`: a clean sensor's history is the vehicle's route, as of this cycle or the one before, so it
looks stuck only when the vehicle has crept, and the steps from sample to sample are the vehicle's. `Twins`: of two clean sensors the newest samples are of the same poll or one apart, also when one was
read before the poll and the other after it. Then `CleanPairIsHealthy`, `CleanStaysInUse`, `SilenceIsNoticed`, `CycleTypeCorrect`, for any buffer length, time-out, confirm
limits, stuck threshold and wild readings, and all motions whose steps are within the noise and the contradiction thresholds. The
sum in `check_contradictory()` is a library fold: `SumOne` unfolds it for the one component a ranger has.

**FusionProofs.** `IInv == TypeOK /\ Backing /\ EdgeBeforeNearest`. `Backing` relates the last result to the state
that is carried to the next call: evidence is at most `held + StaleSample` old while a holdover is
possible, an UNSAFE result means nothing can be held any more, and what a HOLDOVER reported is computed from what
the next one starts from. Then `EvidenceNeverOutlivesHoldover`, `EdgeNeverBeyondNearest`,
`BlindNeverRelaxes` (an action property) and `LadderTypeCorrect`, for all readings, pauses, accelerations and limits. The proofs are
about the integer reading of the formulas, not about floating point.

**RangingProofs.** `IInv` has six parts. `Budget`: a reception has taken at most its time-out and the latency. `Freshness`: how far the cycle
has come at most, and since when a ranger's newest sample is there; with `BudgetAssumption` it gives `MissIsHarmless`. `Handles`: what each step of the start-up has acquired.
`Quietness`: an echo ends before its ranger is triggered again (`EchoAssumption`), so a queue holds two edges at most. `Tracking`: what may
be left of the echo, and what its edges' widths say of the clocks, while the read waits for either edge; it gives `EdgesAreOwn` and `WidthIsMeasured`.
Each of the run's six properties is proved, for any delays, widths, time-outs and latencies.

**SensorBufferProofs.** That the indices stay within the array (`Indexed`) is all the invariant there is. `AroundOnce` and `AroundNext` take the
remainders out of the index arithmetic: where an entry of a history lies, and where it lies one write later. With them a write turns the history of
the whole buffer into the same history with the sample appended and cut to its length (`WriteHistory`, `AppendCut`), which
is the step of `SampleWindow`: `RingImplementsWindow`, for any length. These are about `Spec`, any writer of any readings.

**InertialProofs.** `IInv` adds to `Indexed` what the sum of a calibration is half-way and what its offset means afterwards (`Calibrated`), and that
nothing is held before the first poll. A write adds its own reading to what is held and no other (`WriteHolds`), a word survives its two bytes (`MergeBytes`), and the rest
is linear arithmetic: `OwnSamples`, `SamplesMeasure`, `LatestEndsOfImu`. `Bounded` keeps the sum of the motions of a calibration within
`sampled * MaxMotion`; with it every sample that is written is a `Reading`, so each step of the IMU is a write of the ring or leaves it alone
(`ImuImplementsRing`: `ISpec => Spec`). From there the theorems about the ring carry over: `InertialTypeCorrect` and, by the two refinements
one after the other, `ImuImplementsWindow`.

**Model-checked only.** Liveness, `CyclesRecur` and `CleanSensorsReturn`, is out of this prover's reach: it rests on fairness, and so on
ENABLED. `BackoffNeverGates` and `CyclesAreBounded` are the safety it builds on. Everything else the passing runs check is proved.

## 6. Where the code and its documentation differ

Each is a run that must end in a violation; `PROJECT.json` quotes the texts.

1. `probe_timeout`: a probe that times out is not sent back to EXCLUDED. `fdi_isolate()`
   acts on FAULTED only. The sensor stays in PROBING or VALIDATING until it is latched, one attempt for each event,
   and the backoff gates nothing: `BackoffNeverGates` proves that the backoff and latch tests of `case STATE_EXCLUDED` decide nothing.
2. `oscillation`: a probe that *fails* counts as no attempt, so a sensor that always
   fails is probed for ever and never latched.
3. `same_cycle`: fusion runs beside the evaluation and may use a sensor in the cycle
   that condemns it. What does hold is proved: not in a later one (`CondemnedLingersOneCycle`), and not one that
   has been given up (`AbandonedIsNotFused`).
4. `logger_down`: a logger that cannot open its file stops fault detection and fusion.
5. `glitch`: one wild sample is seen by ten evaluations and excludes the sensor; three
   detections in a row do not filter it.
6. `timeline`: not every state transition is in the log that README.md:275 calls "an auditable sequence of every state transition". FDI logs the state of a
   sensor once in a cycle and recovery logs only time-outs and the latch, so of two transitions between two of FDI's events the state between them is lost:
   recovery starts a probe on one event and carries it on with the next, which FDI sent before it looked again, and the timeline goes from EXCLUDED to VALIDATING.
   FAULTED, a step of its own in README.md:112-113, is never logged, because `evaluate_sensor()` isolates before the event is made; the property counts it and the
   exclusion as one. What does hold is proved: no exclusion and no return is missing (`ExclusionsAreLogged`).

Smaller observations, none of them a run:

* "three consecutive detections" (README.md:103): `fault_streak` is not reset by a clean verdict or a contradiction in
  SUSPECT, only by the acquittal (fault_detector.c:239-251). `StreaksHaveEvidence` states what does hold.
* a clean sensor of a vehicle that stands or creeps varies no more than `stuck_threshold` and is condemned as STUCK (`crept`). README.md:99 gives the threshold
  as 0.5 cm, main.c:584 as 3 cm, over ten samples, which is about a second.
* the uncertainty may be smaller in HOLDOVER than it was before (README.md:137-139 shows +/-15.0 and then +/-4.8): it starts from the base
  accuracy and grows only while the distance is held, as README.md:149 says.
* a probe started on an old event carries the event's time stamp, and so times out earlier.
* of two rangers that agree but are weighed differently, a SUSPECT one may be nearer than the safe edge;
  `EdgeBeforeNearest` leaves that case out.
* a write between `check_stuck()` and `check_noisy()` can give FAULT_NONE for a buffer that fails one of the two checks before the
  write and the other after it (each check takes the lock anew); the next evaluation sees it.
* when the last step of `ultrasonic_init()` fails the event registration at the GPIO server stays, with a connection that is gone.
* one missed echo never makes a ranger's sample stale (`OneMissIsHarmless`), two in a row with a slow twin do: 300 ms are less than three such cycles.
* README.md's noise rule speaks of another measure than `check_noisy()`, which compares neighbours.

## 7. What is not modelled

* The GPIO library: its source is not in the repository. `Ranging` has what the driver relies on, a pulse for each edge unless it is lost.
* Shutdown: `g_running` is never cleared, so `sensor_manager_shutdown()`, `ultrasonic_shutdown()` and the ends of the threads are never
  reached. `mpu6050_thread()` is called by nobody.
* The results of `pthread_create()`, which `main()` ignores: without one of the threads the others block as in `logger_down`.
* In `FdiThreads`, start-up, but for the connections that may be missing and the logger's file. What `sensor_manager_init()` does on a failure is in `Ranging` and `Inertial`,
  each for its own steps; what one driver keeps when a later step fails is given up by the end of the process.
* Errors of `MsgReceive` (the loops retry without effect) and the kernel's delivery itself.
* The text that is printed and logged, priorities, and which IMU's acceleration is taken.
* The wrap of the 64-bit clock, and `next_sequence` at its real width (the modulus is a constant).
* NULL arguments, which no caller passes.

## 8. Plan

Done, in this order: state machine, threads, life cycle, fusion, ring buffer, detection cycle; the proofs
about threads and fusion; the drivers with the poll and the cycle around them, and the proofs about the rangers,
the IMU and the ring; the proofs about the streaks, the life cycle, the timeline and the detection cycle; the proofs about how long
a condemned sensor stays in the distance, the backoff, the contradictions, the threads' work, and the refinement of the IMU; a vehicle that may stand or creep, receptions that fail and a detector that is slow to take its message.

Left:

1. Vectors in `DetectionCycle`: a pair of IMUs, whose contradiction is a distance in three components.
2. `DetectionCycle` and `FdiThreads` in one specification, so that a reinstated sensor's verdicts come from its buffer.
