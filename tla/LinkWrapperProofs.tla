-------------------------- MODULE LinkWrapperProofs --------------------------
(***************************************************************************)
(* Proofs that the link wrapper is correct for every set of environments,  *)
(* failure codes and signals.                                              *)
(***************************************************************************)
EXTENDS LinkWrapper, TLAPS

\* The linked file and the dSYM are as the environment wants them in the end.
LinkFinal ==
    /\ linkOut = (IF env.stripDebug THEN "stripped" ELSE "debug")
    /\ env.dsymPath => dsym = "debug"

\* There is a child exactly while the wrapper waits, and a child that exited
\* with code 0 has completed its output.
ChildInv ==
    /\ pc # "wait" => child = NoChild
    /\ pc = "wait" => child.program # "none" /\ child.state # "none"
    /\ child.state = "killed" => child.code \in 1..64
    /\ child.state = "exited" /\ child.code = 0 =>
          /\ child.program = "clang++" => linkOut = Linked
          /\ child.program = "dsymutil" => dsym = "debug"
          /\ child.program = "strip" => linkOut = "stripped"
          /\ child.program \in {"ifs", "readtapi"} => iface = "stub"

\* At(p): the wrapper is about to run, or waits for, program p.
At(p) == (pc \in RunPoints /\ Program[pc] = p) \/ (pc = "wait" /\ child.program = p)

\* What has been done before each step of the wrapper.
OrderInv ==
    /\ At("clang++") /\ child.state \notin Terminated => linkOut # "debug"
    /\ At("dsymutil") => env.dsymPath /\ linkOut = "debug"
    /\ At("strip") => env.dsymPath /\ env.stripDebug /\ dsym = "debug"
    /\ \/ At("nm") \/ At("ifs") \/ At("readtapi")
       \/ pc \in {"afterDsym", "interface", "scan", "copy", "copying"}
       => LinkFinal
    /\ \/ At("nm") \/ At("ifs") \/ pc \in {"scan", "copy", "copying"}
       => env.format = "elf"
    /\ At("readtapi") => env.format = "tbd"
    /\ At("ifs") => ~env.versioned
    /\ pc \in {"copy", "copying"} => env.versioned
    /\ pc # "exited" => status = 0

\* A versioned ELF interface library is half written only inside copy_file, and
\* left over only by a wrapper that has reported failure.
CopyInv ==
    env.format = "elf" /\ env.versioned =>
        \/ iface \in {"absent", "copy"}
        \/ pc = "copying"
        \/ iface = "leftover" /\ pc = "exited" /\ status # 0

\* Before the end, every program that was started succeeded or is running.
RanInv ==
    /\ pc # "exited" => \A i \in DOMAIN ran : ran[i].status = 0
    /\ pc = "wait" => ran # <<>>

IInv == TypeOK /\ ChildInv /\ OrderInv /\ SuccessIsComplete /\ CopyInv
               /\ RanInv /\ FirstFailureReported
-----------------------------------------------------------------------------
(* What the provers need to know of the tables. *)

LEMMA Tables ==
    /\ RunPoints = {"link", "dsym", "strip", "nm", "ifs", "readtapi"}
    /\ DOMAIN Needs = RunPoints \cup {"interface"}
    /\ Program["link"] = "clang++" /\ Program["dsym"] = "dsymutil"
    /\ Program["strip"] = "strip" /\ Program["nm"] = "nm"
    /\ Program["ifs"] = "ifs" /\ Program["readtapi"] = "readtapi"
BY DEF RunPoints, Program, Needs

\* The environment is well formed and fixed.
LEMMA EnvType == TypeOK => env \in EnvironmentType
BY EnvironmentsAssumption DEF TypeOK

-----------------------------------------------------------------------------
LEMMA InitIInv == Init => IInv
<1> SUFFICES ASSUME Init PROVE IInv
  OBVIOUS
<1> USE DEF Init
<1>1. TypeOK
  BY Tables DEF TypeOK, NoChild, Terminated, Programs
<1>2. ChildInv
  BY DEF ChildInv, NoChild
<1>3. OrderInv
  BY Tables DEF OrderInv, At
<1>4. CopyInv /\ SuccessIsComplete
  BY DEF CopyInv, SuccessIsComplete
<1>5. RanInv /\ FirstFailureReported
  BY DEF RanInv, FirstFailureReported
<1> QED
  BY <1>1, <1>2, <1>3, <1>4, <1>5 DEF IInv

\* The statuses run_process returns fit a process exit status.
LEMMA WaitStatusType ==
    ASSUME TypeOK, ChildInv, child.state \in Terminated
    PROVE  /\ WaitStatus \in 0..255
           /\ WaitStatus = 0 => child.state = "exited" /\ child.code = 0
<1> DEFINE c == child.code
<1>1. c \in 0..255 /\ (child.state = "exited" \/ c \in 1..64)
  BY DEF TypeOK, ChildInv, Terminated
<1> HIDE DEF c
<1>2. WaitStatus \in {127, c} \/ (WaitStatus = 128 + c /\ c \in 1..64)
  BY <1>1 DEF WaitStatus, c
<1>3. WaitStatus = 0 => child.state = "exited" /\ c = 0
  BY <1>1 DEF WaitStatus, c
<1> QED
  BY <1>1, <1>2, <1>3 DEF c

LEMMA StepTypeOK == TypeOK /\ ChildInv /\ RanInv /\ [Next]_vars => TypeOK'
<1> SUFFICES ASSUME TypeOK, ChildInv, RanInv, [Next]_vars PROVE TypeOK'
  OBVIOUS
<1> USE Tables DEF TypeOK, Files
<1>1. CASE MissingEnv
  BY <1>1 DEF MissingEnv, Exit
<1>2. CASE Fork
  BY <1>2 DEF Fork, Programs
<1>3. CASE ForkFails
  BY <1>3 DEF ForkFails, Exit
<1>4. CASE Wait
  <2>1. WaitStatus \in 0..255
    BY <1>4, WaitStatusType DEF Wait
  <2>2. pc' \in RunPoints \cup {"wait", "afterDsym", "interface", "scan",
                               "copy", "copying", "exited"}
    BY <1>4 DEF Wait, Resume, AfterLink, AfterDsym, ChildInv, Programs
  <2>3. ran' \in Seq([program : Programs, status : 0..255])
    <3>1. Len(ran) \in DOMAIN ran
      BY <1>4 DEF Wait, RanInv
    <3> QED
      BY <1>4, <2>1, <3>1 DEF Wait, ChildInv, Programs
  <2> QED
    BY <1>4, <2>1, <2>2, <2>3 DEF Wait, NoChild
<1>5. CASE NoInterface
  BY <1>5 DEF NoInterface, Exit
<1>6. CASE WantInterface
  BY <1>6 DEF WantInterface
<1>7. CASE Dispatch
  BY <1>7 DEF Dispatch, Exit
<1>8. CASE Scan
  BY <1>8 DEF Scan
<1>9. CASE ScanFails
  BY <1>9 DEF ScanFails, Exit
<1>10. CASE CopyOpen
  BY <1>10 DEF CopyOpen
<1>11. CASE CopyOpenFails
  BY <1>11 DEF CopyOpenFails, Exit
<1>12. CASE CopySucceeds
  BY <1>12 DEF CopySucceeds, Exit
<1>13. CASE CopyFails
  BY <1>13 DEF CopyFails, Exit
<1>14. CASE ChildExecFails
  BY <1>14 DEF ChildExecFails, Ended, Terminated
<1>15. CASE ChildStarts
  BY <1>15 DEF ChildStarts
<1>16. CASE ChildSucceeds
  BY <1>16 DEF ChildSucceeds, Ended, Terminated, Linked
<1>17. CASE ChildFails
  <2>1. child' \in [program : Programs \cup {"none"},
                    state : {"none", "forked", "running"} \cup Terminated,
                    code : 0..255]
    <3>1. CASE \E c \in FailureCodes : child' = Ended("exited", c)
      BY <3>1, CodesAssumption DEF Ended, Terminated
    <3>2. CASE \E s \in Signals : child' = Ended("killed", s)
      BY <3>2, CodesAssumption DEF Ended, Terminated
    <3> QED
      BY <1>17, <3>1, <3>2 DEF ChildFails
  <2> QED
    BY <1>17, <2>1 DEF ChildFails
<1>18. CASE WaitInterrupted
  BY <1>18 DEF WaitInterrupted, vars
<1>19. CASE Done
  BY <1>19 DEF Done, vars
<1>20. CASE UNCHANGED vars
  BY <1>20 DEF vars
<1> QED
  BY <1>1, <1>2, <1>3, <1>4, <1>5, <1>6, <1>7, <1>8, <1>9, <1>10, <1>11, <1>12,
     <1>13, <1>14, <1>15, <1>16, <1>17, <1>18, <1>19, <1>20
  DEF Next, Wrapper, Child

\* A child exists only while the wrapper waits, and code 0 means its output is complete.
LEMMA StepChildInv == IInv /\ [Next]_vars => ChildInv'
<1> SUFFICES ASSUME IInv, [Next]_vars PROVE ChildInv'
  OBVIOUS
<1> USE Tables DEF IInv, ChildInv, TypeOK, Files, Linked, NoChild
<1>1. CASE MissingEnv
  BY <1>1 DEF MissingEnv, Exit
<1>2. CASE Fork
  BY <1>2 DEF Fork
<1>3. CASE ForkFails
  BY <1>3 DEF ForkFails, Exit
<1>4. CASE Wait
  <2>1. pc' # "wait"
    BY <1>4 DEF Wait, Resume, AfterLink, AfterDsym, Programs
  <2> QED
    BY <1>4, <2>1 DEF Wait
<1>5. CASE NoInterface
  BY <1>5 DEF NoInterface, Exit
<1>6. CASE WantInterface
  BY <1>6 DEF WantInterface
<1>7. CASE Dispatch
  BY <1>7 DEF Dispatch
<1>8. CASE Scan
  BY <1>8 DEF Scan
<1>9. CASE ScanFails
  BY <1>9 DEF ScanFails, Exit
<1>10. CASE CopyOpen
  BY <1>10 DEF CopyOpen
<1>11. CASE CopyOpenFails
  BY <1>11 DEF CopyOpenFails, Exit
<1>12. CASE CopySucceeds
  BY <1>12 DEF CopySucceeds, Exit
<1>13. CASE CopyFails
  BY <1>13 DEF CopyFails, Exit
<1>14. CASE ChildExecFails
  BY <1>14 DEF ChildExecFails, Ended
<1>15. CASE ChildStarts
  BY <1>15 DEF ChildStarts
<1>16. CASE ChildSucceeds
  BY <1>16 DEF ChildSucceeds, Ended, OrderInv, At, Programs
<1>17. CASE ChildFails
  <2>1. CASE \E c \in FailureCodes : child' = Ended("exited", c)
    BY <1>17, <2>1, CodesAssumption DEF ChildFails, Ended
  <2>2. CASE \E s \in Signals : child' = Ended("killed", s)
    BY <1>17, <2>2, CodesAssumption DEF ChildFails, Ended
  <2> QED
    BY <1>17, <2>1, <2>2 DEF ChildFails
<1>18. CASE WaitInterrupted
  BY <1>18 DEF WaitInterrupted, vars
<1>19. CASE Done
  BY <1>19 DEF Done, vars
<1>20. CASE UNCHANGED vars
  BY <1>20 DEF vars
<1> QED
  BY <1>1, <1>2, <1>3, <1>4, <1>5, <1>6, <1>7, <1>8, <1>9, <1>10, <1>11, <1>12,
     <1>13, <1>14, <1>15, <1>16, <1>17, <1>18, <1>19, <1>20
  DEF Next, Wrapper, Child

\* Each step of the wrapper comes after what it depends on.
LEMMA StepOrderInv == IInv /\ [Next]_vars => OrderInv'
<1> SUFFICES ASSUME IInv, [Next]_vars PROVE OrderInv'
  OBVIOUS
<1> USE Tables, EnvType DEF IInv, OrderInv, At, LinkFinal, Files, NoChild, ChildInv, Linked,
           Terminated
<1>1. CASE MissingEnv
  BY <1>1 DEF MissingEnv, Exit
<1>2. CASE Fork
  BY <1>2 DEF Fork
<1>3. CASE ForkFails
  BY <1>3 DEF ForkFails, Exit
<1>4. CASE Wait
  BY <1>4, WaitStatusType DEF Wait, Resume, AfterLink, AfterDsym, TypeOK, Programs
<1>5. CASE NoInterface
  BY <1>5 DEF NoInterface, Exit
<1>6. CASE WantInterface
  BY <1>6 DEF WantInterface
<1>7. CASE Dispatch
  BY <1>7 DEF Dispatch
<1>8. CASE Scan
  BY <1>8 DEF Scan
<1>9. CASE ScanFails
  BY <1>9 DEF ScanFails, Exit
<1>10. CASE CopyOpen
  BY <1>10 DEF CopyOpen
<1>11. CASE CopyOpenFails
  BY <1>11 DEF CopyOpenFails, Exit
<1>12. CASE CopySucceeds
  BY <1>12 DEF CopySucceeds, Exit
<1>13. CASE CopyFails
  BY <1>13 DEF CopyFails, Exit
<1>14. CASE ChildExecFails
  BY <1>14 DEF ChildExecFails, Ended
<1>15. CASE ChildStarts
  BY <1>15 DEF ChildStarts
<1>16. CASE ChildSucceeds
  BY <1>16 DEF ChildSucceeds, Ended
<1>17. CASE ChildFails
  BY <1>17 DEF ChildFails, Ended
<1>18. CASE WaitInterrupted
  BY <1>18 DEF WaitInterrupted, vars
<1>19. CASE Done
  BY <1>19 DEF Done, vars
<1>20. CASE UNCHANGED vars
  BY <1>20 DEF vars
<1> QED
  BY <1>1, <1>2, <1>3, <1>4, <1>5, <1>6, <1>7, <1>8, <1>9, <1>10, <1>11, <1>12,
     <1>13, <1>14, <1>15, <1>16, <1>17, <1>18, <1>19, <1>20
  DEF Next, Wrapper, Child

\* Status 0 is only reported once everything is complete.
LEMMA StepSuccess == IInv /\ [Next]_vars => SuccessIsComplete'
<1> SUFFICES ASSUME IInv, [Next]_vars PROVE SuccessIsComplete'
  OBVIOUS
<1> USE Tables, EnvType DEF IInv, SuccessIsComplete, ExpectedInterface, OrderInv, At, LinkFinal, Files, ChildInv
<1>1. CASE MissingEnv
  BY <1>1 DEF MissingEnv, Exit
<1>2. CASE Fork
  BY <1>2 DEF Fork
<1>3. CASE ForkFails
  BY <1>3 DEF ForkFails, Exit
<1>4. CASE Wait
  BY <1>4, WaitStatusType DEF Wait, Resume, AfterLink, AfterDsym, TypeOK, Programs
<1>5. CASE NoInterface
  BY <1>5 DEF NoInterface, Exit
<1>6. CASE WantInterface
  BY <1>6 DEF WantInterface
<1>7. CASE Dispatch
  BY <1>7 DEF Dispatch, EnvironmentType
<1>8. CASE Scan
  BY <1>8 DEF Scan
<1>9. CASE ScanFails
  BY <1>9 DEF ScanFails, Exit
<1>10. CASE CopyOpen
  BY <1>10 DEF CopyOpen
<1>11. CASE CopyOpenFails
  BY <1>11 DEF CopyOpenFails, Exit
<1>12. CASE CopySucceeds
  BY <1>12 DEF CopySucceeds, Exit
<1>13. CASE CopyFails
  BY <1>13 DEF CopyFails, Exit
<1>14. CASE ChildExecFails
  BY <1>14 DEF ChildExecFails, Ended
<1>15. CASE ChildStarts
  <2>1. pc' # "exited"
    BY <1>15 DEF ChildStarts, NoChild
  <2> QED
    BY <2>1
<1>16. CASE ChildSucceeds
  <2>1. pc' # "exited"
    BY <1>16 DEF ChildSucceeds, NoChild
  <2> QED
    BY <2>1
<1>17. CASE ChildFails
  BY <1>17 DEF ChildFails, Ended
<1>18. CASE WaitInterrupted
  BY <1>18 DEF WaitInterrupted, vars
<1>19. CASE Done
  BY <1>19 DEF Done, vars
<1>20. CASE UNCHANGED vars
  BY <1>20 DEF vars
<1> QED
  BY <1>1, <1>2, <1>3, <1>4, <1>5, <1>6, <1>7, <1>8, <1>9, <1>10, <1>11, <1>12,
     <1>13, <1>14, <1>15, <1>16, <1>17, <1>18, <1>19, <1>20
  DEF Next, Wrapper, Child

\* No half-written copy outside copy_file.
LEMMA StepCopyInv == IInv /\ [Next]_vars => CopyInv'
<1> SUFFICES ASSUME IInv, [Next]_vars PROVE CopyInv'
  OBVIOUS
<1> USE Tables, EnvType DEF IInv, CopyInv, OrderInv, At, Files, ChildInv, NoChild
<1>1. CASE MissingEnv
  BY <1>1 DEF MissingEnv, Exit
<1>2. CASE Fork
  BY <1>2 DEF Fork
<1>3. CASE ForkFails
  BY <1>3 DEF ForkFails, Exit
<1>4. CASE Wait
  BY <1>4 DEF Wait
<1>5. CASE NoInterface
  BY <1>5 DEF NoInterface, Exit
<1>6. CASE WantInterface
  BY <1>6 DEF WantInterface
<1>7. CASE Dispatch
  BY <1>7 DEF Dispatch
<1>8. CASE Scan
  BY <1>8 DEF Scan
<1>9. CASE ScanFails
  BY <1>9 DEF ScanFails, Exit
<1>10. CASE CopyOpen
  BY <1>10 DEF CopyOpen
<1>11. CASE CopyOpenFails
  BY <1>11 DEF CopyOpenFails, Exit
<1>12. CASE CopySucceeds
  BY <1>12 DEF CopySucceeds, Exit
<1>13. CASE CopyFails
  BY <1>13 DEF CopyFails, Exit
<1>14. CASE ChildExecFails
  BY <1>14 DEF ChildExecFails, Ended
<1>15. CASE ChildStarts
  BY <1>15 DEF ChildStarts
<1>16. CASE ChildSucceeds
  BY <1>16 DEF ChildSucceeds, Ended
<1>17. CASE ChildFails
  BY <1>17 DEF ChildFails, Ended
<1>18. CASE WaitInterrupted
  BY <1>18 DEF WaitInterrupted, vars
<1>19. CASE Done
  BY <1>19 DEF Done, vars
<1>20. CASE UNCHANGED vars
  BY <1>20 DEF vars
<1> QED
  BY <1>1, <1>2, <1>3, <1>4, <1>5, <1>6, <1>7, <1>8, <1>9, <1>10, <1>11, <1>12,
     <1>13, <1>14, <1>15, <1>16, <1>17, <1>18, <1>19, <1>20
  DEF Next, Wrapper, Child

\* A program that failed is the last one started.
LEMMA StepRan == IInv /\ [Next]_vars => (RanInv /\ FirstFailureReported)'
<1> SUFFICES ASSUME IInv, [Next]_vars PROVE (RanInv /\ FirstFailureReported)'
  OBVIOUS
<1> USE Tables DEF IInv, RanInv, FirstFailureReported, Files, TypeOK
<1>1. CASE MissingEnv
  BY <1>1 DEF MissingEnv, Exit
<1>2. CASE Fork
  BY <1>2 DEF Fork
<1>3. CASE ForkFails
  BY <1>3 DEF ForkFails, Exit
<1>4. CASE Wait
  BY <1>4, WaitStatusType DEF Wait
<1>5. CASE NoInterface
  BY <1>5 DEF NoInterface, Exit
<1>6. CASE WantInterface
  BY <1>6 DEF WantInterface
<1>7. CASE Dispatch
  BY <1>7 DEF Dispatch
<1>8. CASE Scan
  BY <1>8 DEF Scan
<1>9. CASE ScanFails
  BY <1>9 DEF ScanFails, Exit
<1>10. CASE CopyOpen
  BY <1>10 DEF CopyOpen
<1>11. CASE CopyOpenFails
  BY <1>11 DEF CopyOpenFails, Exit
<1>12. CASE CopySucceeds
  BY <1>12 DEF CopySucceeds, Exit
<1>13. CASE CopyFails
  BY <1>13 DEF CopyFails, Exit
<1>14. CASE ChildExecFails
  BY <1>14 DEF ChildExecFails, Ended
<1>15. CASE ChildStarts
  BY <1>15 DEF ChildStarts
<1>16. CASE ChildSucceeds
  BY <1>16 DEF ChildSucceeds, Ended
<1>17. CASE ChildFails
  BY <1>17 DEF ChildFails, Ended
<1>18. CASE WaitInterrupted
  BY <1>18 DEF WaitInterrupted, vars
<1>19. CASE Done
  BY <1>19 DEF Done, vars
<1>20. CASE UNCHANGED vars
  BY <1>20 DEF vars
<1> QED
  BY <1>1, <1>2, <1>3, <1>4, <1>5, <1>6, <1>7, <1>8, <1>9, <1>10, <1>11, <1>12,
     <1>13, <1>14, <1>15, <1>16, <1>17, <1>18, <1>19, <1>20
  DEF Next, Wrapper, Child

-----------------------------------------------------------------------------
\* The inductive invariant holds in every reachable state.
THEOREM Invariance == Spec => []IInv
<1>1. IInv /\ [Next]_vars => IInv'
  BY StepTypeOK, StepChildInv, StepOrderInv, StepSuccess, StepCopyInv, StepRan
  DEF IInv
<1> QED
  BY InitIInv, <1>1, PTL DEF Spec

\* The wrapper's variables always have their types; in particular every status
\* it computes, 128 + signal included, fits a process exit status.
THEOREM TypeCorrect == Spec => []TypeOK
BY Invariance, PTL DEF IInv

\* Exit status 0 means that every requested output is complete.
THEOREM Success == Spec => []SuccessIsComplete
BY Invariance, PTL DEF IInv

\* No program outlives the wrapper that started it.
THEOREM NoOrphans == Spec => []NoOrphan
<1>1. IInv => NoOrphan
  BY DEF IInv, ChildInv, NoOrphan
<1> QED
  BY Invariance, <1>1, PTL

\* The first failure ends the wrapper and is what it reports.
THEOREM FirstFailure == Spec => []FirstFailureReported
BY Invariance, PTL DEF IInv

\* A copy that is not whole is left only where remove() failed too, and then the
\* exit status is not 0.
THEOREM CopyWhole == Spec => []NoHalfCopy
<1>1. IInv => NoHalfCopy
  BY DEF IInv, CopyInv, NoHalfCopy
<1> QED
  BY Invariance, <1>1, PTL

\* No step removes debug information that the dSYM does not hold.
THEOREM DebugInfoKept == Spec => DebugInfoNeverLost
<1>1. IInv /\ [Next]_vars => [linkOut = "debug" /\ linkOut' # "debug" => dsym = "debug"]_vars
  <2> SUFFICES ASSUME IInv, [Next]_vars, linkOut = "debug", linkOut' # "debug"
               PROVE  dsym = "debug"
    OBVIOUS
  <2>1. CASE ChildStarts
    BY <2>1, Tables DEF ChildStarts, IInv, OrderInv, ChildInv, At, NoChild, Terminated
  <2>2. CASE ChildSucceeds
    BY <2>2, Tables DEF ChildSucceeds, IInv, OrderInv, ChildInv, At, NoChild, Terminated
  <2> QED
    BY <2>1, <2>2 DEF Next, Wrapper, Child, MissingEnv, Fork, ForkFails, Wait,
       NoInterface, WantInterface, Dispatch, Scan, ScanFails, CopyOpen,
       CopyOpenFails, CopySucceeds, CopyFails, ChildExecFails, ChildFails,
       WaitInterrupted, Done, vars, Files
<1> QED
  BY Invariance, <1>1, PTL DEF Spec, DebugInfoNeverLost
==============================================================================
