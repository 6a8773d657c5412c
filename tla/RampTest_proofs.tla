--------------------------- MODULE RampTest_proofs ---------------------------
(***************************************************************************)
(* Proofs about the ramp driver of RampTest: IInv is an inductive          *)
(* invariant, so TypeOK, PassedVerdictsSound and RampProgress hold in     *)
(* every reachable state, for every command line.                          *)
(***************************************************************************)
EXTENDS RampTest, TLAPS

(* Every element of the ramp list(range(b, t, s)) is a positive rate when *)
(* both ends are: an ascending range starts at b, a descending one stays   *)
(* above t.                                                                *)
LEMMA RangeType ==
  ASSUME NEW b \in Nat \ {0}, NEW t \in Nat \ {0}, NEW s \in Int \ {0}
  PROVE  PyRange(b, t, s) \in Seq(Nat \ {0})
<1> DEFINE n == RangeLen(b, t, s)
<1>1. n \in Nat
  BY DEF RangeLen
<1>2. ASSUME NEW k \in 1..n PROVE b + (k - 1) * s \in Nat \ {0}
  <2>1. CASE s > 0
    BY <2>1
  <2>2. CASE s < 0
    <3>1. k <= (b - t - s - 1) \div (-s)
      BY <1>2, <2>2 DEF RangeLen
    <3>2. k * (-s) <= b - t - s - 1
      BY <3>1, <2>2
    <3>3. QED
      BY <3>2, <2>2
  <2>3. QED
    BY <2>1, <2>2
<1>3. QED
  BY <1>1, <1>2 DEF PyRange

(* A sleep adds a non-negative count and, when it lasts, its rate to the  *)
(* window.                                                                 *)
LEMMA SleepType ==
  ASSUME NEW rx0 \in Nat, NEW w0 \in [rates: SUBSET Nat, time: Int],
         NEW t \in Nat, NEW d \in Int,
         Sleep(rx0, w0, t, d)
  PROVE  /\ rx' \in Nat
         /\ win' \in [rates: SUBSET Nat, time: Int]
         /\ win' = [rates |-> IF d > 0 THEN w0.rates \cup {t} ELSE w0.rates,
                    time  |-> w0.time + d]
<1>1. Received(t, d) \subseteq Nat
  <2>1. Losses \subseteq Nat
    BY ArgsAssumption
  <2>2. QED
    BY <2>1 DEF Received
<1>2. QED
  BY <1>1 DEF Sleep


(* The parsed command line has integer fields.                            *)
LEMMA ArgType ==
  ASSUME TypeOK
  PROVE  /\ arg.base \in Nat \ {0}
         /\ arg.target \in Nat \ {0}
         /\ arg.steps \in Int
         /\ arg.dur \in Int
  BY ArgsAssumption DEF TypeOK

(* TypeOK split into its arithmetic part, which the SMT backend handles,  *)
(* and its two flags, which Zenon handles.                                 *)
TypeNum ==
  /\ arg \in [base: BaseRates, target: TargetRates,
              steps: StepCounts, dur: Durations]
  /\ pc \in PCs
  /\ tx \in Nat
  /\ rx \in Nat
  /\ win \in [rates: SUBSET Nat, time: Int]
  /\ rates \in Seq(Nat \ {0})
  /\ i \in Nat \ {0}
  /\ verdicts \in Seq([rate: Nat \ {0}, passed: BOOLEAN,
                       window: [rates: SUBSET Nat, time: Int], div: Int])

TypeBool == connected \in BOOLEAN /\ fail \in BOOLEAN

LEMMA TypeSplit ==
  /\ TypeOK <=> TypeNum /\ TypeBool
  /\ TypeOK' <=> TypeNum' /\ TypeBool'
  BY Zenon DEF TypeOK, TypeNum, TypeBool

(* The window a clear_stats leaves.                                        *)
LEMMA EmptyWindowType == EmptyWindow \in [rates: SUBSET Nat, time: Int]
  BY DEF EmptyWindow

(* IInv holds in the initial state.                                        *)
THEOREM InitIInv == Init => IInv
<1> SUFFICES ASSUME Init PROVE IInv
  OBVIOUS
<1>1. TypeNum
  BY EmptyWindowType DEF Init, TypeNum, PCs, Terminal
<1>2. TypeBool
  BY Zenon DEF Init, TypeBool
<1>3. Len(verdicts) = 0 /\ pc = "init"
  BY DEF Init
<1>4. QED
  BY <1>1, <1>2, <1>3, TypeSplit
     DEF IInv, LoopInv, WindowInv, PassedVerdictsSound, RampProgress

(* A step into a terminal state that keeps the ramp and the verdicts      *)
(* keeps IInv, whatever else it does to the server state.                  *)
LEMMA TerminalStep ==
  ASSUME IInv, TypeOK', pc' \in Terminal,
         rates' = rates, verdicts' = verdicts
  PROVE  IInv'
  BY DEF IInv, LoopInv, WindowInv, PassedVerdictsSound, RampProgress, Terminal

(* A step that changes neither flag keeps TypeBool.                        *)
LEMMA FlagsKept ==
  ASSUME TypeOK, connected' = connected, fail' = fail
  PROVE  TypeBool'
  BY Zenon DEF TypeOK, TypeBool

(* An uncaught exception keeps IInv.                                       *)
LEMMA CrashStep ==
  ASSUME IInv, Crash
  PROVE  IInv'
<1>1. TypeNum'
  BY DEF IInv, TypeOK, TypeNum, Crash, PCs, Terminal
<1>2. TypeBool'
  BY FlagsKept DEF IInv, Crash
<1>3. QED
  BY <1>1, <1>2, TypeSplit, TerminalStep DEF Crash, Terminal

(* The step of the loop body (Update) keeps IInv.                          *)
LEMMA UpdateStep ==
  ASSUME IInv, Update
  PROVE  IInv'
<1> DEFINE r == rates[i]
<1>1. /\ pc = "loop"
      /\ i \in 1..Len(rates)
      /\ r \in Nat \ {0}
      /\ Len(verdicts) = i - 1
      /\ \A k \in 1..Len(verdicts) : verdicts[k].passed
  BY DEF Update, IInv, LoopInv, TypeOK
<1>2. pc' = "judge" /\ UNCHANGED <<arg, connected, rates, i, verdicts>>
  BY DEF Update
<1>3. arg.dur \in Int
  BY ArgType DEF IInv
<1>4. TypeBool'
  <2>1. fail' \in BOOLEAN
    BY Zenon DEF Update
  <2>2. QED
    BY <1>2, <2>1, Zenon DEF IInv, TypeOK, TypeBool
<1>5. LoopInv' /\ PassedVerdictsSound' /\ RampProgress'
  BY <1>1, <1>2 DEF IInv, LoopInv, PassedVerdictsSound, RampProgress
<1>6. CASE fail' = TRUE /\ UNCHANGED <<tx, rx, win>>
  <2>1. TypeNum'
    BY <1>1, <1>2, <1>6 DEF IInv, TypeOK, TypeNum, PCs, Terminal
  <2>2. WindowInv'
    BY <1>6 DEF WindowInv
  <2>3. QED
    BY <1>4, <1>5, <2>1, <2>2, TypeSplit DEF IInv
<1>7. CASE fail' = TRUE /\ rx' = 0 /\ win' = EmptyWindow /\ tx' \in {tx, r}
  <2>1. TypeNum'
    BY <1>1, <1>2, <1>7, EmptyWindowType DEF IInv, TypeOK, TypeNum, PCs, Terminal
  <2>2. WindowInv'
    BY <1>7 DEF WindowInv
  <2>3. QED
    BY <1>4, <1>5, <2>1, <2>2, TypeSplit DEF IInv
<1>8. CASE /\ arg.dur >= 0
           /\ fail' = FALSE
           /\ tx' = r
           /\ Sleep(0, EmptyWindow, r, arg.dur)
  <2>1. /\ rx' \in Nat
        /\ win' \in [rates: SUBSET Nat, time: Int]
        /\ win' = [rates |-> IF arg.dur > 0 THEN EmptyWindow.rates \cup {r}
                                            ELSE EmptyWindow.rates,
                   time  |-> EmptyWindow.time + arg.dur]
    BY <1>1, <1>3, <1>8, EmptyWindowType, SleepType
  <2>2. win' = [rates |-> IF arg.dur > 0 THEN {r} ELSE {}, time |-> arg.dur]
    <3>1. win'.rates = IF arg.dur > 0 THEN {r} ELSE {}
      BY <2>1 DEF EmptyWindow
    <3>2. win'.time = arg.dur
      BY <2>1, <1>3 DEF EmptyWindow
    <3>3. QED
      BY <2>1, <3>1, <3>2
  <2>3. TypeNum'
    BY <1>1, <1>2, <1>8, <2>1 DEF IInv, TypeOK, TypeNum, PCs, Terminal
  <2>4. WindowInv'
    <3>1. ~fail'
      BY <1>8, Zenon
    <3>2. QED
      BY <1>2, <1>8, <2>2, <3>1 DEF WindowInv
  <2>5. QED
    BY <1>4, <1>5, <2>3, <2>4, TypeSplit DEF IInv
<1>9. QED
  BY <1>6, <1>7, <1>8 DEF Update

(* Judging a rate keeps IInv.                                              *)
LEMMA JudgeStep ==
  ASSUME IInv, Judge
  PROVE  IInv'
<1>1. CASE Crash
  BY <1>1, CrashStep
<1>2. CASE /\ arg.dur # 0
           /\ LET ok == ~fail /\ ~OffTarget(rates[i], rx, arg.dur)
              IN  /\ verdicts' = Append(verdicts,
                                   [rate |-> rates[i], passed |-> ok,
                                    window |-> win, div |-> arg.dur])
                  /\ IF ok THEN i' = i + 1 /\ pc' = "loop"
                           ELSE i' = i /\ pc' = "final"
           /\ UNCHANGED <<arg, connected, tx, rx, win, rates, fail>>
  <2> DEFINE ok == ~fail /\ ~OffTarget(rates[i], rx, arg.dur)
             v == [rate |-> rates[i], passed |-> ok,
                   window |-> win, div |-> arg.dur]
  <2>1. pc = "judge"
    BY DEF Judge
  <2>2. /\ i \in 1..Len(rates)
        /\ Len(verdicts) = i - 1
        /\ \A k \in 1..Len(verdicts) : verdicts[k].passed
    BY <2>1 DEF IInv, LoopInv
  <2>3. /\ arg.dur \in Int
        /\ rates[i] \in Nat \ {0}
        /\ win \in [rates: SUBSET Nat, time: Int]
        /\ verdicts \in Seq([rate: Nat \ {0}, passed: BOOLEAN,
                             window: [rates: SUBSET Nat, time: Int], div: Int])
    BY <2>2, ArgType DEF IInv, TypeOK
  <2>4. ok \in BOOLEAN
    BY Zenon DEF ok
  <2>5. v \in [rate: Nat \ {0}, passed: BOOLEAN,
               window: [rates: SUBSET Nat, time: Int], div: Int]
    BY <2>3, <2>4 DEF v
  <2>6. verdicts' = Append(verdicts, v)
    BY <1>2 DEF ok, v
  <2>7. /\ Len(verdicts') = i
        /\ verdicts'[i] = v
        /\ \A k \in 1..i - 1 : verdicts'[k] = verdicts[k]
        /\ verdicts' \in Seq([rate: Nat \ {0}, passed: BOOLEAN,
                      window: [rates: SUBSET Nat, time: Int], div: Int])
    BY <2>2, <2>3, <2>5, <2>6
  <2>8. ok => v.window = [rates |-> {v.rate}, time |-> v.div]
    <3>1. ok => ~fail
      BY Zenon DEF ok
    <3>2. ~fail => /\ arg.dur >= 0
                   /\ win = [rates |-> IF arg.dur > 0 THEN {rates[i]} ELSE {},
                             time  |-> arg.dur]
      BY <2>1 DEF IInv, WindowInv
    <3>3. arg.dur > 0 \/ arg.dur < 0
      BY <1>2, <2>3
    <3>4. v.window = win /\ v.rate = rates[i] /\ v.div = arg.dur
      BY DEF v
    <3>5. QED
      <4> SUFFICES ASSUME ok
                   PROVE  v.window = [rates |-> {v.rate}, time |-> v.div]
        OBVIOUS
      <4>1. ~fail
        BY <3>1
      <4>2. /\ arg.dur >= 0
            /\ win = [rates |-> IF arg.dur > 0 THEN {rates[i]} ELSE {},
                      time  |-> arg.dur]
        BY <3>2, <4>1
      <4>3. arg.dur > 0
        BY <3>3, <4>2, <2>3
      <4>4. win = [rates |-> {rates[i]}, time |-> arg.dur]
        BY <4>2, <4>3
      <4>5. QED
        BY <3>4, <4>4
  <2>9. TypeOK'
    <3>1. TypeNum'
      BY <1>2, <2>2, <2>7 DEF IInv, TypeOK, TypeNum, PCs, Terminal
    <3>2. TypeBool'
      BY <1>2, FlagsKept DEF IInv
    <3>3. QED
      BY <3>1, <3>2, TypeSplit
  <2>10. PassedVerdictsSound'
    <3> SUFFICES ASSUME NEW k \in 1..Len(verdicts'), verdicts'[k].passed
                 PROVE  verdicts'[k].window = [rates |-> {verdicts'[k].rate},
                                               time  |-> verdicts'[k].div]
      BY DEF PassedVerdictsSound
    <3>1. CASE k = i
      <4>1. v.passed = ok
        BY DEF v
      <4>2. ok
        BY <2>7, <3>1, <4>1
      <4>3. QED
        BY <2>7, <2>8, <3>1, <4>2
    <3>2. CASE k # i
      <4>1. k \in 1..Len(verdicts) /\ verdicts'[k] = verdicts[k]
        BY <2>2, <2>7, <3>2
      <4>2. QED
        BY <4>1 DEF IInv, PassedVerdictsSound
    <3>3. QED
      BY <3>1, <3>2
  <2>11. RampProgress'
    <3>1. v.rate = rates[i] /\ v.passed = ok
      BY DEF v
    <3>2. QED
      BY <1>2, <2>2, <2>7, <3>1 DEF IInv, RampProgress
  <2>12. CASE ok
    <3>1. i' = i + 1 /\ pc' = "loop"
      BY <1>2, <2>12 DEF ok
    <3>2. v.passed
      BY <2>12 DEF v
    <3>3. LoopInv'
      BY <1>2, <2>2, <2>7, <3>1, <3>2 DEF LoopInv
    <3>4. WindowInv'
      BY <3>1 DEF WindowInv
    <3>5. QED
      BY <2>9, <2>10, <2>11, <3>3, <3>4 DEF IInv
  <2>13. CASE ~ok
    <3>1. i' = i /\ pc' = "final"
      BY <1>2, <2>13 DEF ok
    <3>2. LoopInv'
      BY <1>2, <2>2, <2>7, <3>1 DEF LoopInv
    <3>3. WindowInv'
      BY <3>1 DEF WindowInv
    <3>4. QED
      BY <2>9, <2>10, <2>11, <3>2, <3>3 DEF IInv
  <2>14. QED
    BY <2>12, <2>13
<1>3. QED
  BY <1>1, <1>2 DEF Judge

(* The end of do_test keeps IInv: every branch ends the process.           *)
LEMMA FinishStep ==
  ASSUME IInv, Finish
  PROVE  IInv'
<1>1. rates' = rates /\ verdicts' = verdicts /\ pc' \in Terminal
  BY DEF Finish, Crash, Terminal
<1>2. tx' \in Nat /\ i' = i /\ arg' = arg
  BY DEF Finish, Crash, IInv, TypeOK
<1>3. rx' \in Nat /\ win' \in [rates: SUBSET Nat, time: Int]
  <2>1. 6 * arg.dur \in Int
    <3>1. arg.dur \in Int
      BY ArgType DEF IInv
    <3>2. QED
      BY <3>1
  <2>2. tx \in Nat /\ rx \in Nat /\ win \in [rates: SUBSET Nat, time: Int]
    BY DEF IInv, TypeOK
  <2>3. QED
    BY <2>1, <2>2, EmptyWindowType, SleepType DEF Finish, Crash
<1>4. TypeBool'
  <2>1. (connected' = connected \/ connected' = FALSE) /\ fail' = fail
    BY Zenon DEF Finish, Crash
  <2>2. QED
    BY <2>1, Zenon DEF IInv, TypeOK, TypeBool
<1>5. TypeNum'
  BY <1>1, <1>2, <1>3 DEF IInv, TypeOK, TypeNum, PCs, Terminal
<1>6. QED
  BY <1>1, <1>4, <1>5, TypeSplit, TerminalStep

(* Every step of the driver preserves IInv.                                *)
THEOREM NextIInv == IInv /\ [Next]_vars => IInv'
<1> SUFFICES ASSUME IInv, [Next]_vars PROVE IInv'
  OBVIOUS
<1>1. CASE Construct
  <2>1. TypeBool'
    <3>1. connected' \in BOOLEAN /\ fail' = fail
      BY <1>1, Zenon DEF Construct
    <3>2. QED
      BY <3>1, Zenon DEF IInv, TypeOK, TypeBool
  <2>2. CASE /\ pc' = "start"
             /\ tx' = 0
             /\ UNCHANGED <<arg, rx, win, rates, i, fail, verdicts>>
    <3>1. TypeNum'
      BY <2>2 DEF IInv, TypeOK, TypeNum, PCs, Terminal
    <3>2. QED
      BY <1>1, <2>1, <2>2, <3>1, TypeSplit
         DEF Construct, IInv, LoopInv, WindowInv,
             PassedVerdictsSound, RampProgress
  <2>3. CASE /\ pc' = "crashed"
             /\ UNCHANGED <<arg, tx, rx, win, rates, i, fail, verdicts>>
    <3>1. TypeNum'
      BY <2>3 DEF IInv, TypeOK, TypeNum, PCs, Terminal
    <3>2. QED
      BY <2>1, <2>3, <3>1, TypeSplit, TerminalStep DEF Terminal
  <2>4. QED
    BY <1>1, <2>2, <2>3 DEF Construct
<1>2. CASE Start
  <2>1. TypeBool'
    <3>1. connected' \in BOOLEAN /\ fail' = fail
      BY <1>2, Zenon DEF Start
    <3>2. QED
      BY <3>1, Zenon DEF IInv, TypeOK, TypeBool
  <2>2. TypeNum'
    <3>1. InitialMult \in Nat
      BY ArgsAssumption
    <3>2. QED
      BY <1>2, <3>1, EmptyWindowType DEF Start, IInv, TypeOK, TypeNum, PCs,
                                         Terminal
  <2>3. TypeOK'
    BY <2>1, <2>2, TypeSplit
  <2>4. CASE pc' = "ramp"
    BY <1>2, <2>3, <2>4 DEF Start, IInv, LoopInv, WindowInv,
                            PassedVerdictsSound, RampProgress
  <2>5. CASE pc' = "exited"
    BY <1>2, <2>3, <2>5, TerminalStep DEF Start, Terminal
  <2>6. QED
    BY <1>2, <2>4, <2>5 DEF Start
<1>3. CASE InitialRamp
  <2>1. CASE Crash
    BY <2>1, CrashStep
  <2>2. CASE /\ arg.dur >= 0
             /\ pc' = "rates"
             /\ tx' = tx
             /\ Sleep(rx, win, tx, arg.dur)
             /\ UNCHANGED <<arg, connected, rates, i, fail, verdicts>>
    <3>1. arg.dur \in Int
      BY ArgType DEF IInv
    <3>2. rx' \in Nat /\ win' \in [rates: SUBSET Nat, time: Int]
      BY <2>2, <3>1, SleepType DEF IInv, TypeOK
    <3>3. TypeNum'
      BY <2>2, <3>2 DEF IInv, TypeOK, TypeNum, PCs, Terminal
    <3>4. TypeBool'
      BY <2>2, FlagsKept DEF IInv
    <3>5. QED
      BY <1>3, <2>2, <3>3, <3>4, TypeSplit
         DEF InitialRamp, IInv, LoopInv, WindowInv,
             PassedVerdictsSound, RampProgress
  <2>3. QED
    BY <1>3, <2>1, <2>2 DEF InitialRamp
<1>4. CASE ComputeRates
  <2>1. CASE Crash
    BY <2>1, CrashStep
  <2>2. CASE /\ ~RampRaises(arg)
             /\ rates' = PyRange(arg.base, arg.target, RampStep(arg))
             /\ i' = 1
             /\ pc' = "loop"
             /\ UNCHANGED <<arg, connected, tx, rx, win, fail, verdicts>>
    <3>0. /\ arg.base \in Nat \ {0}
          /\ arg.target \in Nat \ {0}
          /\ arg.steps \in Int
      BY ArgType DEF IInv
    <3>1. arg.steps # 0 /\ RampStep(arg) # 0
      BY <2>2 DEF RampRaises
    <3>2. RampStep(arg) \in Int
      BY <3>0, <3>1 DEF RampStep, Trunc, Abs
    <3>3. rates' \in Seq(Nat \ {0})
      BY <2>2, <3>0, <3>1, <3>2, RangeType
    <3>4. TypeNum'
      BY <2>2, <3>3 DEF IInv, TypeOK, TypeNum, PCs, Terminal
    <3>5. TypeBool'
      BY <2>2, FlagsKept DEF IInv
    <3>6. verdicts = <<>>
      BY <1>4 DEF ComputeRates, IInv, LoopInv
    <3>7. QED
      BY <2>2, <3>3, <3>4, <3>5, <3>6, TypeSplit
         DEF IInv, LoopInv, WindowInv, PassedVerdictsSound, RampProgress
  <2>3. QED
    BY <1>4, <2>1, <2>2 DEF ComputeRates
<1>5. CASE Update
  BY <1>5, UpdateStep
<1>6. CASE Judge
  BY <1>6, JudgeStep
<1>7. CASE Finish
  BY <1>7, FinishStep
<1>8. CASE Exited \/ UNCHANGED vars
  <2>1. UNCHANGED vars
    BY <1>8 DEF Exited
  <2>2. TypeOK'
    <3>1. TypeNum'
      BY <2>1 DEF vars, IInv, TypeOK, TypeNum
    <3>2. TypeBool'
      BY <2>1, FlagsKept DEF vars, IInv
    <3>3. QED
      BY <3>1, <3>2, TypeSplit
  <2>3. QED
    BY <2>1, <2>2 DEF vars, IInv, LoopInv, WindowInv,
                      PassedVerdictsSound, RampProgress
<1>9. QED
  BY <1>1, <1>2, <1>3, <1>4, <1>5, <1>6, <1>7, <1>8 DEF Next

(* Type correctness, verdict soundness and ramp order hold in every state *)
(* of every behaviour, for every command line.                             *)
THEOREM RampSafety ==
  Spec => [](TypeOK /\ PassedVerdictsSound /\ RampProgress)
<1>1. Init => IInv
  BY InitIInv
<1>2. IInv /\ [Next]_vars => IInv'
  BY NextIInv
<1>3. IInv => TypeOK /\ PassedVerdictsSound /\ RampProgress
  BY DEF IInv
<1>4. QED
  BY <1>1, <1>2, <1>3, PTL DEF Spec

(* Every state of the driver is well typed: the ladder holds positive     *)
(* rates, the multiplier and the counters are naturals, and every verdict *)
(* is a record of a rate, a flag and a window.                             *)
COROLLARY RampTypeCorrect == Spec => []TypeOK
  BY RampSafety, PTL

(* The verdicts follow the ladder rung by rung, and only the last one may *)
(* have failed: the loop of lines 110-125 breaks at its first failure.     *)
COROLLARY RampOrder == Spec => []RampProgress
  BY RampSafety, PTL
=============================================================================
