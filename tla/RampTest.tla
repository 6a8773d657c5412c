------------------------------ MODULE RampTest ------------------------------
(***************************************************************************)
(* The rate-ramp benchmark driver SimplePacketTest of src/simple_bench.py. *)
(*                                                                         *)
(* The driver connects to a TRex server, loads one stream per port, starts *)
(* it at 1 kpps, waits, then walks the ramp range(base, target, step) with *)
(* step = int((target - base) / steps).  For every rate it clears the      *)
(* server counters, updates the rate, sleeps one duration and judges the   *)
(* received packet count against the rate with a 10% threshold; it stops   *)
(* the ramp at the first failure, measures a final window and disconnects. *)
(*                                                                         *)
(* The server is the environment: it transmits at the current multiplier  *)
(* while the driver sleeps, may lose packets, and any RPC may raise.  RPCs *)
(* take no time: traffic accrues only during the driver's sleeps.  Rates   *)
(* are in kpps and packet counts in kilo-packets, so the code's rate/1000 *)
(* is rx / duration here.  The two port directions are summed as the code  *)
(* sums them for the judged rate.                                          *)
(***************************************************************************)
EXTENDS Integers, Sequences

CONSTANTS
  BaseRates,    \* the values of --base_rate the model tries (kpps)
  TargetRates,  \* the values of --target_rate (kpps)
  StepCounts,   \* the values of --steps
  Durations,    \* the values of --duration (seconds)
  Losses,       \* the kilo-packets one sleep may lose on the wire
  InitialMult,  \* the mult='1kpps' of start()
  RpcMayFail    \* whether an RPC to the server may raise

ASSUME ArgsAssumption ==
  /\ BaseRates \subseteq Nat \ {0}
  /\ TargetRates \subseteq Nat \ {0}
  /\ StepCounts \subseteq Int
  /\ Durations \subseteq Int
  /\ Losses \subseteq Nat /\ 0 \in Losses
  /\ InitialMult \in Nat \ {0}
  /\ RpcMayFail \in BOOLEAN

(* error_threshold = 0.1 = 1 / ThresholdDiv. *)
ThresholdDiv == 10

(* The process states: one per statement group of do_test and start.      *)
Terminal == {"done", "exited", "crashed"}
PCs == {"init", "start", "ramp", "rates", "loop", "judge", "final"} \cup Terminal

VARIABLES
  arg,        \* the parsed command line: [base, target, steps, dur]
  pc,         \* where the driver is
  connected,  \* the STLClient session is open
  tx,         \* the server's current total multiplier (kpps); 0 = stopped
  rx,         \* ipackets counted by the server since the last clear_stats
  win,        \* ghost: the rates transmitted and the time slept since then
  rates,      \* the ramp list computed at line 109
  i,          \* the loop position in rates
  fail,       \* the fail flag of the current iteration
  verdicts    \* ghost: one record per judged rate, in loop order

vars == <<arg, pc, connected, tx, rx, win, rates, i, fail, verdicts>>

Abs(n) == IF n < 0 THEN -n ELSE n

(* Python's int(a / b) for integers: the quotient truncated toward zero.   *)
Trunc(a, b) == IF (a >= 0) = (b > 0) THEN Abs(a) \div Abs(b)
                                    ELSE -(Abs(a) \div Abs(b))

(* The number of elements of Python's range(start, stop, step), step # 0. *)
RangeLen(start, stop, step) ==
  LET n == IF step > 0 THEN (stop - start + step - 1) \div step
                       ELSE (start - stop - step - 1) \div (-step)
  IN  IF n > 0 THEN n ELSE 0

(* list(range(start, stop, step)). *)
PyRange(start, stop, step) ==
  [k \in 1..RangeLen(start, stop, step) |-> start + (k - 1) * step]

(* The ramp step of line 108. *)
RampStep(a) == Trunc(a.target - a.base, a.steps)

(* Lines 108-109 raise: ZeroDivisionError when steps = 0, ValueError in   *)
(* range() when the step truncates to 0.                                   *)
RampRaises(a) == IF a.steps = 0 THEN TRUE ELSE RampStep(a) = 0

(* The check of line 122 for a window of rxv kilo-packets over d seconds, *)
(* d # 0: abs(target - rate / 1000) > error_threshold * target, with the  *)
(* rate = ipackets / duration of line 92 multiplied out by d (and the     *)
(* inequality flipped when d < 0).                                        *)
OffTarget(r, rxv, d) ==
  IF d > 0 THEN ThresholdDiv * Abs(r * d - rxv) > r * d
           ELSE ThresholdDiv * Abs(r * d - rxv) > -(r * d)

(* The environment, not the driver: what the server counts while the      *)
(* driver sleeps d seconds at total rate t, less what the wire loses.  The *)
(* driver only reads it back (get_stats, lines 40-53, summing ipackets of  *)
(* both directions), which rx stands for.                                  *)
Received(t, d) == {n \in {t * d - l : l \in Losses} : n >= 0}

(* time.sleep(d) for d >= 0 from counters rx0 and window w0: the traffic *)
(* at multiplier t accrues.                                               *)
Sleep(rx0, w0, t, d) ==
  /\ rx' \in {rx0 + n : n \in Received(t, d)}
  /\ win' = [rates |-> IF d > 0 THEN w0.rates \cup {t} ELSE w0.rates,
             time  |-> w0.time + d]

(* clear_stats(): the counters restart.                                    *)
EmptyWindow == [rates |-> {}, time |-> 0]

(* An uncaught exception: the interpreter exits, the session and whatever *)
(* traffic is running are left as they are.                                *)
Crash ==
  /\ pc' = "crashed"
  /\ UNCHANGED <<arg, connected, tx, rx, win, rates, i, fail, verdicts>>

-----------------------------------------------------------------------------
(* The command line (lines 137-164) is parsed before anything else.        *)
Init ==
  /\ arg \in [base: BaseRates, target: TargetRates,
              steps: StepCounts, dur: Durations]
  /\ pc = "init"
  /\ connected = FALSE
  /\ tx = 0
  /\ rx = 0
  /\ win = EmptyWindow
  /\ rates = <<>>
  /\ i = 1
  /\ fail = FALSE
  /\ verdicts = <<>>

(* __init__: load the profile, connect, reset (which stops all traffic),  *)
(* map the ports.  Any of these may raise.                                *)
Construct ==
  /\ pc = "init"
  /\ \/ /\ pc' = "start"
        /\ connected' = TRUE
        /\ tx' = 0
        /\ UNCHANGED <<arg, rx, win, rates, i, fail, verdicts>>
     \/ /\ RpcMayFail
        /\ \E c \in BOOLEAN : connected' = c
        /\ pc' = "crashed"
        /\ UNCHANGED <<arg, tx, rx, win, rates, i, fail, verdicts>>

(* start(): add the streams to both directions, clear_stats, start at     *)
(* 1 kpps.  On an exception it disconnects (which stops the ports) and     *)
(* calls sys.exit(1).                                                      *)
Start ==
  /\ pc = "start"
  /\ \/ /\ pc' = "ramp"
        /\ tx' = InitialMult
        /\ rx' = 0
        /\ win' = EmptyWindow
     \/ /\ RpcMayFail
        /\ pc' = "exited"
        /\ tx' = 0
        /\ UNCHANGED <<rx, win>>
  /\ connected' = (pc' = "ramp")
  /\ UNCHANGED <<arg, rates, i, fail, verdicts>>

(* Lines 102-106: get_stats, sleep(duration), get_stats.  None of them  *)
(* is inside a try: a negative duration raises ValueError.                *)
InitialRamp ==
  /\ pc = "ramp"
  /\ \/ /\ arg.dur < 0 \/ RpcMayFail
        /\ Crash
     \/ /\ arg.dur >= 0
        /\ pc' = "rates"
        /\ tx' = tx
        /\ Sleep(rx, win, tx, arg.dur)
        /\ UNCHANGED <<arg, connected, rates, i, fail, verdicts>>

(* Lines 108-109: steps = 0 raises ZeroDivisionError, a zero step raises  *)
(* ValueError in range(); neither is caught.                              *)
ComputeRates ==
  /\ pc = "rates"
  /\ \/ /\ RampRaises(arg)
        /\ Crash
     \/ /\ ~RampRaises(arg)
        /\ rates' = PyRange(arg.base, arg.target, RampStep(arg))
        /\ i' = 1
        /\ pc' = "loop"
        /\ UNCHANGED <<arg, connected, tx, rx, win, fail, verdicts>>

(* Mutant of Update: update() without its clear_stats.                     *)
UpdateNoClear ==
  /\ pc = "loop"
  /\ i <= Len(rates)
  /\ arg.dur >= 0
  /\ fail' = FALSE
  /\ tx' = rates[i]
  /\ Sleep(rx, win, rates[i], arg.dur)
  /\ pc' = "judge"
  /\ UNCHANGED <<arg, connected, rates, i, verdicts>>

(* Lines 110-119 with update() of lines 82-84: fail := False, then in one *)
(* try clear_stats, c.update(mult = rate) and sleep(duration).  The three *)
(* calls can raise after one another, and each leaves what the previous   *)
(* ones did in place.                                                      *)
Update ==
  /\ pc = "loop"
  /\ i <= Len(rates)
  /\ \/ /\ RpcMayFail                              \* clear_stats raises
        /\ fail' = TRUE
        /\ UNCHANGED <<tx, rx, win>>
     \/ /\ RpcMayFail                              \* c.update raises
        /\ fail' = TRUE
        /\ rx' = 0 /\ win' = EmptyWindow
        /\ UNCHANGED tx
     \/ /\ arg.dur < 0                             \* sleep raises
        /\ fail' = TRUE
        /\ tx' = rates[i]
        /\ rx' = 0 /\ win' = EmptyWindow
     \/ /\ arg.dur >= 0
        /\ fail' = FALSE
        /\ tx' = rates[i]
        /\ Sleep(0, EmptyWindow, rates[i], arg.dur)
  /\ pc' = "judge"
  /\ UNCHANGED <<arg, connected, rates, i, verdicts>>

(* Mutant of Judge: the loop goes on after a failed rate (no break).      *)
JudgeNoBreak ==
  /\ pc = "judge"
  /\ \/ /\ RpcMayFail \/ arg.dur = 0
        /\ Crash
     \/ /\ arg.dur # 0
        /\ verdicts' = Append(verdicts,
                         [rate |-> rates[i],
                          passed |-> ~fail /\ ~OffTarget(rates[i], rx, arg.dur),
                          window |-> win, div |-> arg.dur])
        /\ i' = i + 1 /\ pc' = "loop"
        /\ UNCHANGED <<arg, connected, tx, rx, win, rates, fail>>

(* Lines 120-125: calc_stats(duration) reads the counters (an RPC) and    *)
(* divides by the duration (ZeroDivisionError when it is 0), then the     *)
(* iteration breaks out of the ramp on fail or when the rate is off by    *)
(* more than the threshold.                                                *)
Judge ==
  /\ pc = "judge"
  /\ \/ /\ RpcMayFail \/ arg.dur = 0
        /\ Crash
     \/ /\ arg.dur # 0
        /\ LET ok == ~fail /\ ~OffTarget(rates[i], rx, arg.dur)
           IN  /\ verdicts' = Append(verdicts,
                                [rate |-> rates[i], passed |-> ok,
                                 window |-> win, div |-> arg.dur])
               /\ IF ok THEN i' = i + 1 /\ pc' = "loop"
                        ELSE i' = i /\ pc' = "final"
        /\ UNCHANGED <<arg, connected, tx, rx, win, rates, fail>>

(* Lines 126-133, after the loop ends or breaks: clear_stats,             *)
(* sleep(6 * duration), stop, calc_stats(6 * duration), disconnect.  Each *)
(* call can raise and none is caught.                                      *)
Finish ==
  /\ \/ pc = "final"
     \/ pc = "loop" /\ i > Len(rates)
  /\ \/ /\ RpcMayFail                              \* clear_stats raises
        /\ Crash
     \/ /\ arg.dur < 0                             \* sleep raises
        /\ pc' = "crashed"
        /\ rx' = 0 /\ win' = EmptyWindow
        /\ UNCHANGED <<arg, connected, tx, rates, i, fail, verdicts>>
     \/ /\ RpcMayFail /\ arg.dur >= 0              \* stop raises
        /\ pc' = "crashed"
        /\ tx' = tx
        /\ Sleep(0, EmptyWindow, tx, 6 * arg.dur)
        /\ UNCHANGED <<arg, connected, rates, i, fail, verdicts>>
     \/ /\ RpcMayFail \/ arg.dur = 0                \* calc_stats raises
        /\ arg.dur >= 0
        /\ pc' = "crashed"
        /\ tx' = 0
        /\ Sleep(0, EmptyWindow, tx, 6 * arg.dur)
        /\ UNCHANGED <<arg, connected, rates, i, fail, verdicts>>
     \/ /\ arg.dur > 0
        /\ pc' = "done"
        /\ tx' = 0 /\ connected' = FALSE
        /\ Sleep(0, EmptyWindow, tx, 6 * arg.dur)
        /\ UNCHANGED <<arg, rates, i, fail, verdicts>>

(* The interpreter has exited.                                             *)
Exited ==
  /\ pc \in Terminal
  /\ UNCHANGED vars

Next ==
  \/ Construct \/ Start \/ InitialRamp \/ ComputeRates
  \/ Update \/ Judge \/ Finish \/ Exited

(* The driver is one Python thread.                                        *)
Spec == Init /\ [][Next]_vars

-----------------------------------------------------------------------------
TypeOK ==
  /\ arg \in [base: BaseRates, target: TargetRates,
              steps: StepCounts, dur: Durations]
  /\ pc \in PCs
  /\ connected \in BOOLEAN
  /\ tx \in Nat
  /\ rx \in Nat
  /\ win \in [rates: SUBSET Nat, time: Int]
  /\ rates \in Seq(Nat \ {0})
  /\ i \in Nat \ {0}
  /\ fail \in BOOLEAN
  /\ verdicts \in Seq([rate: Nat \ {0}, passed: BOOLEAN,
                       window: [rates: SUBSET Nat, time: Int], div: Int])


(* Verdict soundness (lines 82-84, 110-125): a rate is only reported as *)
(* reached when the counters it was judged on were cleared before the     *)
(* rate was applied, saw traffic at that rate alone, and were collected   *)
(* over exactly the duration the count is divided by.                     *)
PassedVerdictsSound ==
  \A k \in 1..Len(verdicts) :
    verdicts[k].passed =>
      verdicts[k].window = [rates |-> {verdicts[k].rate},
                            time  |-> verdicts[k].div]

(* Ramp order (lines 109-125): the driver judges the rates of the ramp in  *)
(* list order, never beyond its end, and breaks off at the first rate that *)
(* fails, so every judged rate but the last one passed.                    *)
RampProgress ==
  /\ Len(verdicts) <= Len(rates)
  /\ \A k \in 1..Len(verdicts) :
       /\ verdicts[k].rate = rates[k]
       /\ k < Len(verdicts) => verdicts[k].passed

(* Whenever the process has exited, the server is no longer transmitting. *)
(* start() (lines 77-80) disconnects before sys.exit(1) so that a failed   *)
(* start leaves no traffic; the uncaught exceptions of lines 92, 104, 108  *)
(* and 109 exit with the streams still running.                            *)
TrafficStoppedAtExit == pc \in Terminal => tx = 0

(* --steps (line 160): "how many steps we should do before reaching the   *)
(* goal".  The ramp of lines 108-109 has at most that many rates.          *)
RampHasRequestedSteps == rates # <<>> => Len(rates) <= arg.steps

-----------------------------------------------------------------------------
(* The inductive strengthening of TypeOK, PassedVerdictsSound and          *)
(* RampProgress: where the loop is, what it has judged so far, and what   *)
(* the counters hold when a rate is about to be judged.                   *)
LoopInv ==
  /\ pc \in {"init", "start", "ramp", "rates"} => verdicts = <<>>
  /\ pc \in {"loop", "judge"} =>
       /\ i \in 1..Len(rates) + 1
       /\ Len(verdicts) = i - 1
       /\ \A k \in 1..Len(verdicts) : verdicts[k].passed
  /\ pc = "judge" => i <= Len(rates)
  /\ pc = "final" =>
       /\ i \in 1..Len(rates)
       /\ Len(verdicts) = i
       /\ \A k \in 1..i - 1 : verdicts[k].passed

WindowInv ==
  pc = "judge" /\ ~fail =>
    /\ arg.dur >= 0
    /\ win = [rates |-> IF arg.dur > 0 THEN {rates[i]} ELSE {},
              time  |-> arg.dur]

IInv ==
  /\ TypeOK
  /\ LoopInv
  /\ WindowInv
  /\ PassedVerdictsSound
  /\ RampProgress

=============================================================================
