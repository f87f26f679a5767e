# A TLA+ verification of the 2024 robot program

This directory holds TLA+ models of the robot program in this repository, the TLC
configurations that model-check them and TLAPS proofs of their main properties. Paths
are relative to the root of the repository: `src/main.cpp` is the robot program,
`robot/` what is deployed to the robot, `test/` the unit tests and `doc/` the
documentation.

Contents: 1 the system · 2 the modules and how they correspond to the code · 3 the runs ·
4 fairness · 5 findings · 6 proofs · 7 what is only model-checked · 8 what is not
modelled · 9 plan.

## 1. The system

One process runs on the robot's controller. WPILib's `TimedRobot` loop reads the driver
station every period (16 ms, `robot/config.lua`) and calls the callbacks of `RobotMain`,
all from one thread: when the mode (disabled, autonomous, teleop, test) changed, the
*Exit* of the old mode and the *Init* of the new one; then the *Periodic* of the mode.
In teleop and test the callbacks host a Lua program, a *bot*, which drives the robot
through functions bound to the C++ objects.

| component | state it keeps | operations | correct when |
|---|---|---|---|
| **Shooter** `src/shooter.cpp`, `src/robot.hpp` | Idle, Shooting or Loading; the ticks left of a shot, the delay counted up to its feed; the level; the voltages the motors keep | `reset load/intake shoot stop setShootLevel process`, constructor | a shot warms up, feeds and ends; counters survive aborted shots; motors rest; powers within the configuration |
| **RobotMain** `src/main.cpp` | mode, engine, `luaErrorEncountered`, `protectedLuaCalls`, `gamepadConnected`, `autoInfo`, `hasShot`, `hasStartedMoving`, timer | the twelve mode callbacks, `luaPrepare luaPeriodic luaExit`, `loadEngine safeLoadEngine`, `reloadTrajectory`, `driveDisabled` | no callback calls into a missing or failed program; the robot stands still when nobody is in control; autonomous does what its settings say, in order, once |
| **Engine** `src/engine.hpp` | the program's table, its functions, the last error | `instantiate init prepare run safe_run cleanup` | programs are called in the documented order; errors are seen |
| **Teleop program** `robot/teleop.bot`, `robot/gamepad.lua`, `robot/robot.lua` | the gear, whether the arms have been up | `update_gamepad_state update_speed update_shooter update_arms` in `run` | nothing fires that the driver does not hold; intake and shot do not overlap |
| **Gamepad** (WPILib, external) | buttons down, dpad, latched edges per button, connection | refreshed by the loop; reading a latch clears it | - |
| **Lifter** `src/lifter.cpp` | the voltage the arms keep | `moveUp moveDown stop` | arms move while a button is held |
| **Drivetrain** `src/drivetrain.cpp`, **Parameters** `src/parameters.cpp`, **range mapping** `src/normalisablerange.hpp` | processed sticks, two slew-rate limiters, motor commands; encoders, gyro, odometry | `processParameters`, `driveNormalized`, `drive`, `driveDisabled`, `calculateSpeed/Rotation`; `resetOdometry`, `updateOdometry`, `postProcess` | commands in range, gentle, and zero when the sticks are; the estimated position is where the robot is |
| **Simulation** `src/robot.hpp`, `src/drivetrain.cpp` | simulated robot, wheels and sensors | `initializeSimulation`, `updateSimulation`, `onOdometryReset` | the simulated sensors tell what those of a robot would |
| **Lua bindings** `src/bindings.cpp` | tables of functions per C++ object | `bind` / unbind for the gamepad, parameters, drivetrain, shooter, lifter | Lua reaches an object only while it lives |
| **Lua state** `src/scripting.cpp` | one Lua state, its owner, search path, bootstrap flag | `Lifecycle`, `state`, `set_path`, `bootstrap` | a state as long as its `Lifecycle` lives; there, and configured, before the robot is built and after it is destroyed |
| **Configuration** `src/config.cpp`, `robot/config.lua` | constants | lookups | values as `test/configtest.cpp` asserts |
| not the program's own logic | kinematics, feedforward, PID, the dynamics of the simulation, vision (compiled out), `snider/messageticker.hpp` (not used), sol2 (vendored) | | |

**How they interact.** `RobotMain` owns everything and calls everything; a Lua program
calls back into the shooter, the lifter and the drivetrain in the middle of
`luaPeriodic()`, between the decision to run it and `shooter.process()`. The objects the
modes share (shooter, drivetrain, lifter, limiters, latches of the gamepad) outlive
the mode that commanded them. The whole of it lives between the construction and the
destruction of a static `Lifecycle`, which owns the Lua state everything refers to.

**What is hard here.** There is one thread, so what is hard is not data races but
*order* and *left-over state*: the operator, the field and the gamepad's cable may change
the mode or the connection at any period, and each callback inherits what the others left
(a shot half way, an intake running, latched presses, a limiter's clock, `hasShot` of an
earlier trajectory, an engine that failed). Added to it are *partial failures*: a
program that does not load, or raises in `init`, `prepare`, `run` or `cleanup`; a
trajectory that cannot be read; an exception that ends the process; periods
that overrun; a constructor that throws half way. `PROJECT.json` lists these hazards one by one, at their lines.

## 2. The modules

```
 ShooterOps  --EXTENDS-->  Shooter  --refines-->  ShotCycle
     |  |                     ^ ShooterProofs (with ShooterOpsProofs)
     |  +--> Teleop  --refines-->  SharedShooter   ^ TeleopProofs
     v
 RobotMain  --refines-->  BotLifecycle, AutoRoutine, SharedShooter
     ^   ^ RobotMainProofs, AutonomousProofs
 EngineOps
 Drive     <-- MCDrive        ^ DriveProofs
 Odometry  <-- MCOdometry     ^ OdometryProofs
 LuaState  --EXTENDS-->  LuaHost   ^ LuaHostProofs
```

* **ShooterOps** – the shooter as a record and its methods as operators on it, because
  `RobotMain` and a Lua program call several of them inside one callback. `Process(s)`
  is the whole of `process()`: command the motors of the current state, then count down.
  `primary` and `secondary` are the voltages the flywheel and the feed motors were last
  told, which a motor keeps; `Reset` and `Stop` leave them alone as the code does. Units:
  milliseconds, volts, percent, and hundredths of a volt for a commanded output.
  `ShotTicks` and `WarmTicks` carry the floor at `periodMs` of `shooter.cpp:56-57`.
  `LuaShoot` is the function bound for Lua, which sets the level first.
* **Shooter** – class Shooter alone, one action per public method, called in any order.
* **ShotCycle** – what the shooter promises, without counters: rest, load, warm-up, feed.
* **EngineOps** – one program as its host sees it. `stage` (the method called last) and
  `raised` (where the program raised) are history; `err` is the class's `_error`.
  Each method clears the error, calls and keeps what was raised; `run()` does neither.
* **RobotMain** – one action per callback, with a program counter `pc` for the loop
  (`boot wait exit init periodic dead`). `ReadWord` is the external loop reading the mode
  and letting the time pass; `Restart` is the process being started again, with fresh
  memory: nothing is persisted, so it adds no hazard. A Lua program
  is *any* program that makes up to `MaxCalls` calls to the shooter in a `run()` and may
  command the drivetrain (an error may come after any of them). `drive` records what was
  last asked of the drivetrain: zero, path, spin or whatever Lua wanted. `auto` is history
  of the current autonomous period: whether it was entered with an idle shooter, shots
  fired, shots completed. `DebugBuild` is what `sol::function` is in each build: in a
  release build an error in `run()` is an exception nobody catches.
* **BotLifecycle** – what the host promises a program: never run before it is prepared,
  after it failed or after it was cleaned up; a working program is cleaned up before it
  is replaced.
* **AutoRoutine** – what an autonomous period does: shot, path, turn, stop.
* **SharedShooter** – how autonomous and the programs share the shooter, whatever a shooter
  is (its methods are parameters): a program gets it reset, autonomous as it is; autonomous
  asks for one shot, in its first period after another mode; a period that has begun
  (`owed`) processes it once, after everything else; a program that stopped never gets it
  again. `RobotMain` implements it with any program and every fault, `Teleop` with
  `teleop.bot`; this is what makes `Teleop` a part of `RobotMain` seen close up.
* **Teleop** – `teleop.bot` with its gamepad, the shooter and the lifter, over any
  sequence of disabled, autonomous and teleop. The program is translated as one `run`:
  `update_speed`, `update_shooter`, `update_arms` are the functions of the source. `pad`
  has the buttons, the dpad and the latched edges of the bumpers, which the driver
  station collects in every mode and the program reads and clears. Its host is
  `RobotMain` without faults, reduced to the calls that touch this state;
  `ImplementsSharedShooter` ties it to `RobotMain`, where the program is arbitrary. `lifter` is the
  voltage the arms keep, which nothing but the program changes; `clean` is history, what
  was at rest when the period began.
* **Drive** – the way of a stick to a command: dead zone, gear, range, curve, throttle,
  limiters, and the commands that bypass the limiters. One action per kind of period.
  A stick is in tenths, a requested speed in fortieths and a command in 8000ths of the
  maximum, so that the gear (0.25), the square of the curve and the throttle are exact
  integers. The clock of a limiter is `since`, the periods since its last use.
* **Odometry** – where the robot believes it is: `ModeCallbacks` with the reset of
  `AutonomousInit`, `RobotPeriodic` with the update, then the motion of the robot, seen by
  its sensors, or of the simulated one, whose `updateSimulation()` overwrites them.
  The order of the lines of `resetOdometry` is kept: `ResetPosition` reads the encoders
  after their reset, and `SetPose` comes last. A heading counts quarter turns, a position
  steps; `robot` is the true pose in the frame of the last reset.
* **LuaState** – the Lua state of `scripting.cpp` and what `bindings.cpp` puts into it, as
  operators: `Construct` and `Destruct` of a `Lifecycle`, `set_path`, `bootstrap` with the
  step that fails, `Bind`, `Unbind`, and the references `gamepad.lua` caches when it is first
  required. `tables[o]` is the set of functions Lua has of the object `o`.
* **LuaHost** – the life of a process: the robot program (`main.cpp`, `main()` and the
  members of `RobotMain` in the order of their declaration), the unit tests
  (`test/main.cpp`, which set a path first and catch what is thrown) and a client that
  calls the functions of `scripting.hpp` in any order. `engine` is the state an engine's
  references belong to. When `RobotInit()` throws, the tests have not got hold of the robot
  yet: it is leaked, with its members, and only the static `Lifecycle` goes (`pc` stays
  `leaked`).

Every definition that models code is listed in `PROJECT.json` under `map` with the lines
it stands for. Definitions commented "Variant the runs must reject" are wrong versions of
the definition that follows them; putting one in its place makes a named run fail, which
shows that the properties depend on the code.

## 3. The runs

`tlc -config X.cfg M` for each. States are distinct states.

| run | module, cfg | checks | states |
|---|---|---|---|
| shooter | Shooter, `Shooter.cfg` | TypeOK, ShotFeeds, WarmupHoldsFeed, ShotEnds, MotorsRest, ImplementsShotCycle | 14,242 |
| robot_main | RobotMain, `RobotMain.cfg` | TypeOK, LuaHostSafe, OnlyTeleopDies, StillWhenNotInControl, AutoShootsOnce, ShotBeforeMove, OverlapOnlyInWarmup, ImplementsBotLifecycle, ImplementsSharedShooter | 1,819,570 |
| auto_routine | RobotMain, `AutoRoutine.cfg` | ImplementsAutoRoutine, AutoCompletes, AutoHonoursSetting, AutoShotFed, OverlapBegins | 148,006 |
| teleop | Teleop, `Teleop.cfg` | TypeOK, NoOverlapInTeleop, ArmsFollowButtons, ShotNeedsHold, ShotLevelSteady, ShotRunsOut, ImplementsSharedShooter | 1,898,266 |
| drive | MCDrive, `Drive.cfg` | TypeOK, GentleWhileDriving, BrakesWithoutReversing, ComesToRest | 21,061 |
| odometry | MCOdometry, `Odometry.cfg` | TypeOK, PoseTracks, HeadingErrorIsOffset, NoJump | 227,861 |
| lua_host | LuaHost, `LuaHost.cfg` | TypeOK, LuaReachesLiving, StateSpansRobot, EngineInOpenState, OwnerHasState | 463 |
| shoot_load_overlap, auto_without_shot, init_failure_ignored, simulated_heading, released | see "Findings" | one documented claim each, which TLC refutes | |

What they show, and why their bounds are enough:

* **shooter.** The shipped configuration itself (16 ms, 1 s, 0.8 s: a shot of 112 ticks,
  62 of them warm-up), with levels below, within and above the clamp (10, 60, 120).
  Whatever a client calls, in any order: the feed is not powered before the warm-up is over if it was at rest; a shot that
  runs to its end has fed; a trigger or an intake during a shot changes nothing; every shot
  ends; and a shooter left idle stops its motors.
  There is no bound beyond the configuration: the counters are bounded by the code.
* **robot_main.** Every fault at every place it can occur, two programs, all four modes in
  any order, deaths and restarts. A shot is 4 periods with 2 of warm-up, so that a mode
  can end in each phase of it; the path is 2 periods and the turn 3, and a loop may
  take 2 periods (`MaxLag`), so that an overrun can straddle each limit; a program makes up
  to 2 calls in a run (`MaxCalls`), enough for stop-then-shoot and set-level-during-a-shot.
  The timer is cut at `TimerCap`, one past its last comparison. It shows that no order of
  faults and modes makes a callback call a null, failed, stopped or wrong program; that only
  a run-time error of the teleop program in a release build takes the process down; that
  after every period without control the robot was told to stand still; that autonomous
  fires once, and before moving when it was entered with an idle shooter; that the shooter
  is shared as `SharedShooter` says; and, of the overlap that "Findings" shows to be
  possible, that it is over when the warm-up is.
* **auto_routine.** The routine of `AutonomousPeriodic` goes through its stages in order,
  skips none and ends, whatever mode it is entered from and whatever the shooter was doing.
  Overruns of up to `MaxLag` are there, but not of the length of the turn: with such an
  overrun the turn would be skipped. A shot that ends in it has fed. `OverlapBegins` is checked here because
  a program makes one call in a run (`MaxCalls` 1), the case it says most about: the feed
  and the flywheels begin to work against each other only where a mode entry reset a running
  intake. Trajectories can be read and have a shoot entry;
  the debug build makes a failing program continue.
* **teleop.** The two bumpers, the two buttons of the arms and one direction of the dpad,
  any combination at any period, connected or not, in three modes. The other buttons only
  change the gear and the other directions only the level, and a position between two
  directions asks for no shot, as a released dpad does, so they repeat these cases. Shots of
  3 periods, 2 of them warm-up, which is the floor of `shooter.cpp:57` at work: the
  division alone gives 1. It shows that no stale press fires, that a running shot is never
  cut short by the program, that a period that began at rest overlaps nothing,
  and that it moves the arms only as the buttons held say, down only after up; where it
  did not begin at rest, holding A on a freshly loaded program keeps the arms going
  whichever way they went.
* **drive.** Periods of 100 ms instead of 16, which lets the limiter reach full speed in 4
  (`Rate` 2400 of 8000, i.e. 3 per second times 0.1 s times the full command of 8000);
  overruns of 2 periods; `SinceCap` 7, which by `DriveAssumption` is long enough for a
  limiter to go from one end to the other, so that longer pauses are no different. Sticks
  at one end, at the edge of the dead zone and just beyond it. While the program drives
  period after period, braking takes every command nearer to zero than the last one and
  never past it. After a period in which somebody else commanded the drivetrain the code does
  not do that (section 5), and `BrakesWithoutReversing` and `GentleWhileDriving` do not claim
  it; that the robot comes to rest, `ComesToRest`, holds after any pause.
* **odometry.** Two start poses, one turned and off the origin, resets at any autonomous
  entry, on a robot and in the simulation. `MaxPos` and `MaxTurn` 2 and `MaxWheel` 4 bound
  the way between resets: enough to turn right round, to go out and back and to be reset
  anywhere. A robot that stands still is always possible, so a bound never stops a reset.
  On a robot the estimate is the true pose after every `RobotPeriodic`; in the simulation
  the heading is wrong by nothing or by the whole offset, and never jumps in between.
* **lua_host.** Three `Lifecycle` objects, because the second one closes the state of the
  first and the third is then made without a throw; every step that can throw may. It is
  small because there is little data, with no bound but the number of `Lifecycle`s. It shows that no way a
  process ends leaves a table in Lua with a function of an object that is gone, but for the
  gamepad's `pov`; that `gamepad.lua` keeps references to a gamepad that is gone only where its
  destructor ran, which left that `pov`; that the state is there and configured for as long
  as a member of the robot lives, but for a leaked robot after the `Lifecycle` closed its
  state (`OutlivesState`), whose members' destructors never run; and which `Lifecycle` has
  the state.

Deadlock is checked in every run but those of LuaHost, where a process ends
(`CHECK_DEADLOCK FALSE`): the robot program never stops by itself.

## 4. Fairness

* `Shooter!FairSpec`: `process()` keeps being called. Each callback of a mode that uses the
  shooter calls it (`main.cpp:268`, `main.cpp:456`); disabled does not use it, and a
  shot then stands still, as the model of `RobotMain` has it.
* `RobotMain!FairSpec`: the `TimedRobot` loop goes on. `Restart` has no fairness: nothing
  in the repository promises it.
* `Drive!Spec`: period follows period.
* `Odometry` and `LuaHost` state safety only and assume nothing.

No fairness is assumed of a program, of the driver or of the order of modes. The
properties that need a mode to last say so (`<>[](lastMode = "auto") => ...`).

## 5. Findings

Where the documentation and the code disagree, a run shows it; the details and the quoted
lines are in `PROJECT.json`.

1. **shoot_load_overlap** (`shooter.cpp:30`). `robot.hpp:225` says loading and shooting
   never overlap. Re-entering a Lua mode while the intake runs resets the state and not the
   motors; a program that shoots at once spins the flywheels out while the feed still
   runs in the intake direction, for the whole warm-up.
2. **auto_without_shot** (`main.cpp:265`). Autonomous entered while the shooter loads spends
   its one shot on a shooter that ignores it, and drives off.
3. **init_failure_ignored** (`main.cpp:379`). What `init()` returns is ignored and `prepare()`
   clears the error, so a program whose `init` failed is run.
4. **simulated_heading** (`drivetrain.cpp:88`). In the simulation a robot that had turned
   before autonomous is estimated with that turn as an error of its heading: the reset takes
   the gyro's old angle for the offset, and the next `SimulationPeriodic` overwrites the gyro.
5. **released** (`bindings.cpp:87`). Unbinding the gamepad forgets `pov`, and no unbinding
   reaches what `gamepad.lua` cached: after `~RobotMain()` Lua still has functions with a
   pointer to the controller that is gone, until the `Lifecycle` closes the state.

Seen while modelling, and not checked by a run of their own:

* *Shooter.* Tick counts are floored at `periodMs`, a number of milliseconds
  (`shooter.cpp:56`): with a period of 50 ms a shot and its warm-up would have the same number
  of ticks and the note would never be fed; `RoomToFeed` (section 6) excludes it, and with the
  shipped 16 ms the floor does nothing. Holding the trigger makes the shot that follows a
  shot feed through its warm-up (no `process()` in Idle lies between them). A program other
  than `teleop.bot` can change the level of a shot under way; autonomous shoots with the
  level the last program set.
* *Autonomous.* When a trajectory cannot be read the fallback replaces the settings but not
  the flags (`main.cpp:413`): it shoots, or moves without waiting, as the last readable one
  did. With `reverse` the forward speed of the path follower is negated after it was computed
  (`main.cpp:288`), so its correction along the path has the wrong sign. `config.lua:123`
  gives rotations in degrees and `main.cpp:47` reads radians; all shipped values are 0.
* *Programs.* A program that failed in `prepare` or `run` is unloaded without the `cleanup` that
  the descriptor promises (`main.cpp:460`). A left bumper pressed and released between two
  runs starts an intake nobody holds; its release in the period of a release of the right
  one is lost and the intake goes on. A teleop program that does not load leaves the
  shooter as the previous mode left it. `robot/test_v1.bot` is `teleop.bot` under other
  names; the `run` of `robot/test_v2.bot` always raises.
* *Drivetrain.* The limiters, there to make the inputs "more gentle" (`robot.hpp:115`), are
  bypassed to stop but keep their value and their clock (`main.cpp:470`, `drivetrain.cpp:67`).
  When the program drives again after a pause of a third of a second or more, a full stick is
  a full command at once. After a shorter one the limiters go on from what the program had
  asked for: full speed, one disabled or disconnected period and centred sticks command the
  robot that was told to stop some 90% of full speed at the shipped 16 ms (3200 of 8000 in
  the run's units), and it winds down from there.
* *Lua.* A second `Lifecycle` throws, as documented, after it has closed the state of the
  first; a third is then made without a throw (`scripting.cpp:63`, `scripting.hpp:11`). The flag
  of `bootstrap()` outlives the state: in a state made after another one it returns true and
  loads nothing (`scripting.cpp:117`). A `RobotInit()` that throws in the tests leaks the robot,
  and the Lua state its members are bound to is closed while they exist (`main.cpp:576`).

## 6. Proofs

Eight modules hold proofs; all were checked by `tlapm` with SMT, Zenon and LS4, to the
last leaf. The only assumptions are the named ones on the constants:
`ShooterAssumption` (the periods and times are positive: what `configtest.cpp` asserts),
`RobotAssumption`, `TeleopAssumption`, `DriveAssumption` (types, and that `SinceCap` is long
enough), `OdometryAssumption`, `LuaStateAssumption` and `LuaHostAssumption` (types). What a
theorem needs beyond them is in its statement. They hold for every configuration, level,
program set, fault set, length of path and turn, overrun, set of buttons, rate and throttle,
set of start poses, set of `Lifecycle`s and of programs that satisfies these.

* **ShooterOpsProofs** – lemmas on the methods: which keep `WellFormed` and
  `ClockInStep`, what `Process` does in each state and to the motors, that no other method
  commands one, that the last period of a shot has `delay = ShotTicks - 1` and, with
  `RoomToFeed` (`WarmTicks < ShotTicks`), feeds. Both other owners of a shooter use them.
* **ShooterProofs** – `TypeCorrect`, `ShotClockCorrect`, `WarmupHoldsFeedCorrect`,
  `ShotFeedsCorrect`, `RefinesShotCycle`, `WhenRoomToFeed`, `ShotCountsDownCorrect`,
  `OnlyProcessDrivesCorrect`. The invariant is `TypeOK /\ ShotClock`: that
  `tick + delay = ShotTicks` during a shot is what turns "the shot ends when `tick` runs
  out" into "it ended after the warm-up". `ShotFeedsCorrect` and `RefinesShotCycle` need
  `RoomToFeed`: without it a shot ends before it feeds (section 5).
  `WhenRoomToFeed` derives it from the configuration: with a period of P ms, a shoot time of
  at least P and P(P + 1) ms or more of warm-up and shoot time together. The last two are
  the measures behind the liveness properties: a shot has 1 to `ShotTicks` ticks left, which
  only `process()`, `stop()` and `reset()` change; an idle `process()` leaves both motors at
  zero and nothing else commands one.
* **RobotMainProofs** – `TypeCorrect` (with `ClockInStep`: the level bound survives whatever a
  program calls), `LuaHostIsSafe`, `OnlyTeleopCanDie`, `RefinesBotLifecycle`. `LuaHostSafe` is
  inductive with the types. `OnlyTeleopDies` needs in addition that a dead process died in
  `run` (`DeadInRun`); the refinement needs that no program is live outside a Lua mode, after an
  error and at a mode entry (`RestInv`): what `loadEngine()` replaces is never live.
  `OverlapBeginsCorrect` and `OverlapEnds` are what is true of the claim that
  **shoot_load_overlap** refutes, under `RoomToFeed`: `MotorsInv` says that the voltages agree
  with the state of the shooter, except between the entry of a Lua mode and its first
  period, because `process()` makes them agree whatever they were (`ProcessIsSound`).
  `OnlyInitErrorIsMissed` is what is true of the claim that **init_failure_ignored** refutes:
  without errors in `init` no program that failed to load is in use.
* **AutonomousProofs** – `ShootsOnce`, `ShootsBeforeMoving`, `OnlyControlMoves`,
  `HonoursSetting`, `RefinesAutoRoutine`, `AutoProgressesCorrect`, `AutoShotFedCorrect`,
  `RefinesSharedShooter`. The
  invariant `AutoInv` says which combinations of `hasShot`, the shooter's state,
  `hasStartedMoving` and the history occur: before the shot, during it, after it.
  `OnlyControlMoves` is nearly inductive: `BootStill` adds that no mode has been entered
  at boot. `HonoursSetting` is about trajectories that can be read (`Readable`) and have a
  shoot entry, because the fallback and the two defaults (`main.cpp:57-61`, `main.cpp:174`)
  let the flag and the settings differ; then a shot that is due is one the settings ask
  for (`DueAsSet`). `RefinesAutoRoutine` is the safety of `ImplementsAutoRoutine`, for
  trajectories that can be read and overruns shorter than the turn (`TurnIsSeen`), which a
  longer one would skip: `MovesByClock` says that a robot that moves has its shot behind it
  and which times its last command leaves possible for the next one. `AutoProgressesCorrect`
  bounds `RoutineLeft` and says that it never grows within autonomous and falls in every
  period until it is nothing, for every trajectory, even one that cannot be read;
  `ModesDiffer` (the loop calls an Exit and an Init only for a new mode) keeps the routine
  from being re-armed under way. `AutoShotFedCorrect` needs `RoomToFeed`: the shot that ends
  was in step with its clock when autonomous took it over. `RefinesSharedShooter` goes
  through the callbacks; with `LuaHostSafe` the host never dies but in a run of a program,
  and with `ModesDiffer` a shot becomes due only when another mode was left.
* **TeleopProofs** – `TypeCorrect`, `ShotNeedsHoldCorrect`, `NoOverlapCorrect`,
  `ShotLevelSteadyCorrect`, `ArmsFollowButtonsCorrect`, `ShotRunsOutCorrect` (under
  `RoomToFeed`), `RefinesSharedShooter`. `LatchesAgree` (a press that was latched
  without a release is still held) is why no stale press shoots: the program skips its
  shooter code when a release of the right bumper is latched.
  `FeedBackMeansIntake` (the feed runs backwards only while the intake runs) is why
  nothing overlaps: a shot is only asked for in a run that finds the intake stopped and
  one `process()` since. `MovesOnceRaised` (a lifter at rest at the beginning moves only once
  this program raised it) is why A before Y leaves it at rest. `ShotRunsOutCorrect` holds
  because `update_shooter` changes nothing while a shot runs, so that `process()` alone
  ends it, on its last period.
* **DriveProofs** – `CommandsInRange`, `GentleWhileDrivingCorrect`,
  `BrakesWithoutReversingCorrect`, `LimitersWindDownCorrect`, and the curve's monotonicity,
  `CurveMonotone`. `DriveInv`
  ties a command of the program to the values of the limiters and to a clock at zero, so
  that the next one is within one loop of it. Sticks inside the dead zone ask for exactly
  zero, and a limiter approaches what it is asked for without passing it:
  `LimitersWindDownCorrect` says so of the limiters, after a pause too, and
  `BrakesWithoutReversingCorrect` of two commands of the program in a row, which are the
  limiters' values negated.
* **OdometryProofs** – `TypeCorrect`, `PoseTracksCorrect`, `EstimateOnRobot` (what
  **simulated_heading** refutes of a simulation holds on every robot), `HeadingErrorCorrect`,
  `NoJumpCorrect`. `OdoInv` adds to the types what the next update will find: the wheels of
  both sides went one step (`WheelsInStep`), the robot is where that takes the estimate,
  when the offset fits (`NextTracks`), and the simulated gyro shows the new heading or, after
  a reset, the old one (`GyroShows`).
* **LuaHostProofs** – `TypeCorrect`, `LuaReachesLivingCorrect`, `StateSpansRobotCorrect`,
  `EngineInOpenStateCorrect`, `OwnerHasStateCorrect`, `FlagTellsCorrect`. `HostInv` adds
  `Whereabouts` (where a program is tells what it has: state, path, configuration, engine, and
  that a program which failed or leaked its robot is still `Ready`, or has no robot, or is
  the exception) and `Reached` (which functions reach an object, position by position through
  the bindings and their release). `PovRemains` is why references that `gamepad.lua` took come
  with a `pov`: the gamepad is bound before anything is loaded, and nothing but the end of the
  state takes its `pov` away. `FlagTellsCorrect` is what the flag of `bootstrap()` is worth to a
  second caller: as long as no state was destroyed, the open one has the configuration.

## 7. Only model-checked

Liveness (`ShotEnds`, `MotorsRest`, `AutoCompletes`, `ComesToRest`) and the fairness in
`ImplementsShotCycle` and `ImplementsAutoRoutine` are out of the reach of TLAPS, because
fairness is about ENABLED and the argument an induction over a measure. What is proved of
each is that measure, for every value of the constants: it is bounded, no step makes it
grow, and the fair step takes something of it away (`ShotCountsDownCorrect`,
`OnlyProcessDrivesCorrect`, `AutoProgressesCorrect`, `LimitersWindDownCorrect`). That the
fair step keeps being taken until nothing is left is TLC's part. Every safety property of a
passing run is proved, under the assumptions section 6 names.

## 8. Not modelled

* Kinematics, feedforward, PID and the trajectory follower: continuous; the model keeps who
  commands the drivetrain, in `Drive` the command, and in `Odometry` the pose on a grid. With
  them the `reverse` entry and the geometry of a trajectory.
* The dynamics of the simulation (a motion is any one), and vision (`#if 0`).
* The encoders of the arms (compiled out).
* Configuration tables and the directory listing of the test programs: constants. That a
  lookup may raise is in `LuaHost`; that the values are numbers is `test/configtest.cpp`.
* `engine.hpp`'s parsing of descriptors and `config.cpp`'s of tables: a load works or fails.
* Conversions of `NormalisableRange` that have no caller; the copies of buttons and dpad in
  `Parameters`, which have no reader; the floating-point rounding of `Drive`.
* The message ticker (unused).
* sol2 (`src/sol/`, vendored): 30,301 of the 34,853 lines of the implementation, a C++
  binding library whose work is done by templates. The model takes from it what the
  program relies on: a protected call returns or raises, an unprotected one is an exception in
  a release build, a table keeps what is put into it, a reference needs its state. Most
  of the remaining lines are declarations, accessors, conversions and includes; the share of
  the lines that any model of this program can cover is small for this reason.

## 9. Plan

Written first, as the rest is built on it: ShooterOps and Shooter; then RobotMain with
its engine, the heart of the program; then the abstract specifications; then what a driver meets,
Teleop and Drive; then what spans the modes, Odometry and the Lua state with its host;
with the theorems of each after its runs; then SharedShooter, which joins RobotMain and
Teleop, and the measures of the liveness properties. Left, none of it needed by what is
there:

1. `RobotMain` and `LuaHost` joined: an engine that outlives a mode with the references it
   holds, now modelled on each side by itself.
2. The trajectory follower with `reverse`, on the grid of `Odometry`.
3. Faults for `teleop.bot` itself; now `RobotMain` has the faults with any program, `Teleop`
   the program without faults, and `SharedShooter` what both do to the shooter.
4. What `SharedShooter` alone implies, stated once for any shooter whose `Process` keeps an
   invariant, instead of in `RobotMainProofs` and `TeleopProofs` each.
