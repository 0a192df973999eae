------------------------ MODULE EngineHandoff_proofs ------------------------
(* For every set of flags, of requests and every bound: the types, and the *)
(* two invariants that make the hand-off of launch flags correct.          *)
EXTENDS EngineHandoff, TLAPS

(* No generation is ahead of the clock, so the next Bump is new to the     *)
(* wrapper as well as to the file.                                         *)
GenerationsAreOld == genFile <= clock /\ wgen <= clock

(* The mutex admits one PUT, and no handler runs before boot is over.      *)
OneWriter ==
    /\ \A r, s \in Requests : pc[r] = "handoff" /\ pc[s] = "handoff" => r = s
    /\ ~Serving => \A r \in Requests : pc[r] = "idle"

(* What the writer in progress has already made equal.                     *)
HalfStory ==
    /\ lpc \in {"handoff", "bump"} => card = mem /\ ~torn
    /\ lpc \in {"bump", "serving"} => argsFile = mem
    /\ \A r \in Requests : pc[r] = "handoff" => card = want[r]
    /\ Serving /\ StoreFree /\ ~torn => card = mem

FlagsInv == TypeOK /\ GenerationsAreOld /\ SettledRunsHandoff

StoryInv == TypeOK /\ OneWriter /\ HalfStory

-----------------------------------------------------------------------------

(* The initial state has the types. *)
LEMMA InitTypeOK == Init => TypeOK
<1>1. Init => StateTypeOK
  BY ArgsAssumption, BoundsAssumption
  DEF ArgsAssumption, BoundsAssumption, Init, StateTypeOK
<1>2. Init => HistoryTypeOK
  BY DEF Init, HistoryTypeOK
<1> QED BY <1>1, <1>2 DEF TypeOK

(* The history variables stay Boolean. *)
LEMMA NextHistoryTypeOK == HistoryTypeOK /\ [Next]_vars => HistoryTypeOK'
BY DEF HistoryTypeOK, Next, Boot, BootReconcile, BootHandoff, BootBump,
       WriteEngineArgs, Bump, Crash, PutCard, PostRestart, RequestStep,
       PutHandoff, PutHandoffFails, RequestRestart, RequestFails,
       RecordCapacity, WrapperStep, ReadGeneration, Launch, PollRestart,
       StopEngine, WrapperExit, EngineExit,
       vars, files, requests, wrapper, history, counts

(* Every step keeps the types of the state: what a handler stores is a     *)
(* value of Merge, and the wrapper's environment is the chart's or a       *)
(* published value.                                                        *)
LEMMA NextStateTypeOK == StateTypeOK /\ [Next]_vars => StateTypeOK'
<1> SUFFICES ASSUME StateTypeOK, [Next]_vars PROVE StateTypeOK'
  OBVIOUS
<1> USE ArgsAssumption, MergeAssumption, BoundsAssumption
    DEF ArgsAssumption, MergeAssumption, BoundsAssumption, StateTypeOK
<1> USE DEF files, requests, wrapper, history, counts
<1>1. CASE Boot
  <2>1. CASE BootReconcile
    BY <2>1 DEF BootReconcile
  <2>2. CASE BootHandoff
    BY <2>2 DEF BootHandoff, WriteEngineArgs
  <2>3. CASE BootBump
    <3>1. clock' = clock + 1 /\ genFile' = clock + 1
      BY <2>3 DEF BootBump, Bump
    <3>2. clock' \in Nat /\ genFile' \in Nat
      BY <3>1
    <3> HIDE <3>1
    <3> QED BY <2>3, <3>2 DEF BootBump
  <2> QED BY <1>1, <2>1, <2>2, <2>3 DEF Boot
<1>2. CASE Crash
  BY <1>2 DEF Crash
<1>3. ASSUME NEW r \in Requests, NEW a \in Args, PutCard(r, a)
      PROVE  StateTypeOK'
  BY <1>3 DEF PutCard
<1>4. ASSUME NEW r \in Requests, PostRestart(r) PROVE StateTypeOK'
  BY <1>4 DEF PostRestart
<1>5. ASSUME NEW r \in Requests, RequestStep(r) PROVE StateTypeOK'
  <2>1. CASE PutHandoff(r)
    BY <2>1 DEF PutHandoff, WriteEngineArgs
  <2>2. CASE PutHandoffFails(r)
    BY <2>2 DEF PutHandoffFails
  <2>3. CASE RequestRestart(r)
    <3>1. clock' = clock + 1 /\ genFile' = clock + 1
      BY <2>3 DEF RequestRestart, Bump
    <3>2. clock' \in Nat /\ genFile' \in Nat
      BY <3>1
    <3> HIDE <3>1
    <3> QED BY <2>3, <3>2 DEF RequestRestart
  <2>4. CASE RequestFails(r)
    BY <2>4 DEF RequestFails
  <2> QED BY <1>5, <2>1, <2>2, <2>3, <2>4 DEF RequestStep
<1>6. CASE RecordCapacity
  BY <1>6 DEF RecordCapacity
<1>7. CASE WrapperStep
  BY <1>7 DEF WrapperStep, ReadGeneration, Launch, PollRestart, StopEngine,
              WrapperExit, HandoffSpeaks
<1>8. CASE EngineExit
  BY <1>8 DEF EngineExit
<1>9. CASE UNCHANGED vars
  BY <1>9 DEF vars
<1> QED BY <1>1, <1>2, <1>3, <1>4, <1>5, <1>6, <1>7, <1>8, <1>9 DEF Next

(* Every step keeps the types of the state and of the history variables.    *)
LEMMA NextTypeOK == TypeOK /\ [Next]_vars => TypeOK'
BY NextStateTypeOK, NextHistoryTypeOK DEF TypeOK

(* Every file, variable and counter of the hand-off stays in its type.     *)
THEOREM TypeCorrect == Spec => []TypeOK
BY InitTypeOK, NextTypeOK, PTL DEF Spec

-----------------------------------------------------------------------------

(* Only Bump moves the clock and the generation on disk, and only the      *)
(* wrapper moves its own copy, to what the file says.                      *)
LEMMA NextGenerations ==
  TypeOK /\ GenerationsAreOld /\ [Next]_vars => GenerationsAreOld'
<1> SUFFICES ASSUME TypeOK, GenerationsAreOld, [Next]_vars
             PROVE  GenerationsAreOld'
  OBVIOUS
<1>1. \/ Bump /\ wgen' = wgen
      \/ /\ UNCHANGED <<clock, genFile>>
         /\ wgen' \in {wgen, genFile}
  BY DEF Next, Boot, BootReconcile, BootHandoff, BootBump, Crash, PutCard,
         PostRestart, RequestStep, PutHandoff, PutHandoffFails, RequestRestart,
         RequestFails, RecordCapacity, WrapperStep, ReadGeneration, Launch,
         PollRestart, StopEngine, WrapperExit, EngineExit,
         vars, files, requests, wrapper, history, counts
<1>2. CASE Bump /\ wgen' = wgen
  <2>1. clock' = clock + 1 /\ genFile' = clock + 1 /\ wgen' = wgen
    BY <1>2 DEF Bump
  <2> QED BY <2>1 DEF GenerationsAreOld, TypeOK, StateTypeOK
<1>3. CASE UNCHANGED <<clock, genFile>> /\ wgen' \in {wgen, genFile}
  BY <1>3 DEF GenerationsAreOld
<1> QED BY <1>1, <1>2, <1>3

(* A step either leaves everything SettledRunsHandoff speaks of alone, or  *)
(* writes the handoff, or bumps, or is the wrapper's or the engine's.      *)
LEMMA StepKinds ==
  ASSUME [Next]_vars
  PROVE  \/ UNCHANGED <<argsFile, genFile, unsignalled, wpc, wgen, engine>>
         \/ /\ \E a : WriteEngineArgs(a)
            /\ UNCHANGED <<genFile, wpc, wgen, engine>>
         \/ Bump /\ UNCHANGED <<argsFile, wpc, wgen, engine>>
         \/ WrapperStep
         \/ EngineExit
BY DEF Next, Boot, BootReconcile, BootHandoff, BootBump, Crash, PutCard,
       PostRestart, RequestStep, PutHandoff, PutHandoffFails, RequestRestart,
       RequestFails, RecordCapacity,
       vars, files, requests, wrapper, history, counts

(* A settled engine stays on the published flags: what changes the file is *)
(* unsignalled until the next Bump, and what Bump publishes unsettles the  *)
(* wrapper, which launches on the file as it then is.                      *)
LEMMA NextSettled == FlagsInv /\ [Next]_vars => SettledRunsHandoff'
<1> SUFFICES ASSUME FlagsInv, [Next]_vars PROVE SettledRunsHandoff'
  OBVIOUS
<1> USE DEF FlagsInv, SettledRunsHandoff, Settled, HandoffSpeaks
<1>1. CASE UNCHANGED <<argsFile, genFile, unsignalled, wpc, wgen, engine>>
  BY <1>1
<1>2. ASSUME NEW a, WriteEngineArgs(a), UNCHANGED <<genFile, wpc, wgen, engine>>
      PROVE  SettledRunsHandoff'
  \* a change of the file is unsignalled; the same bytes again change nothing
  BY <1>2 DEF WriteEngineArgs
<1>3. CASE Bump /\ UNCHANGED <<argsFile, wpc, wgen, engine>>
  \* the new generation is not the wrapper's
  <2>1. genFile' = clock + 1 /\ wgen' = wgen
    BY <1>3 DEF Bump
  <2>2. wgen <= clock /\ wgen \in Nat /\ clock \in Nat
    BY DEF GenerationsAreOld, TypeOK, StateTypeOK
  <2>3. genFile' # wgen'
    BY <2>1, <2>2
  <2> QED BY <2>3
<1>4. CASE WrapperStep
  <2>1. CASE Launch
    BY <2>1 DEF Launch, files
  <2>2. CASE ReadGeneration \/ PollRestart \/ StopEngine \/ WrapperExit
    BY <2>2 DEF ReadGeneration, PollRestart, StopEngine, WrapperExit
  <2> QED BY <1>4, <2>1, <2>2 DEF WrapperStep
<1>5. CASE EngineExit
  BY <1>5 DEF EngineExit
<1> QED BY <1>1, <1>2, <1>3, <1>4, <1>5, StepKinds

(* An engine the wrapper is content with runs the published flags, once    *)
(* every change of them has been signalled: the generation is read before  *)
(* the flags, and every generation is new.                                 *)
THEOREM SettledEngineRunsHandoff == Spec => []SettledRunsHandoff
<1>1. Init => FlagsInv
  BY InitTypeOK DEF Init, FlagsInv, GenerationsAreOld, SettledRunsHandoff, Settled
<1>2. FlagsInv /\ [Next]_vars => FlagsInv'
  BY NextTypeOK, NextGenerations, NextSettled DEF FlagsInv
<1>3. FlagsInv => SettledRunsHandoff
  BY DEF FlagsInv
<1> QED BY <1>1, <1>2, <1>3, PTL DEF Spec

-----------------------------------------------------------------------------

(* ApplySpec's critical section: what each kind of step does to the writer *)
(* and to the three copies of the flags.                                   *)
LEMMA NextOneWriter == StoryInv /\ [Next]_vars => OneWriter'
<1> SUFFICES ASSUME StoryInv, [Next]_vars PROVE OneWriter'
  OBVIOUS
<1> USE DEF StoryInv, OneWriter, Serving, TypeOK, StateTypeOK
<1> USE DEF files, requests, wrapper, history, counts
<1>1. CASE Boot
  BY <1>1 DEF Boot, BootReconcile, BootHandoff, BootBump
<1>2. CASE Crash
  BY <1>2 DEF Crash
<1>3. ASSUME NEW r \in Requests, NEW a \in Args, PutCard(r, a)
      PROVE  OneWriter'
  \* the mutex was free, so r is the only writer
  BY <1>3 DEF PutCard, StoreFree
<1>4. ASSUME NEW r \in Requests, PostRestart(r) PROVE OneWriter'
  BY <1>4 DEF PostRestart
<1>5. ASSUME NEW r \in Requests, RequestStep(r) PROVE OneWriter'
  <2>1. pc[r] # "idle" /\ lpc' = lpc
    BY <1>5 DEF RequestStep, PutHandoff, PutHandoffFails, RequestRestart,
                RequestFails
  <2>2. /\ pc'[r] # "handoff"
        /\ \A s \in Requests : s # r => pc'[s] = pc[s]
    BY <1>5 DEF RequestStep, PutHandoff, PutHandoffFails, RequestRestart,
                RequestFails
  <2> QED BY <2>1, <2>2
<1>6. CASE UNCHANGED <<lpc, pc>>
  BY <1>6
<1>7. RecordCapacity \/ WrapperStep \/ EngineExit \/ UNCHANGED vars
        => UNCHANGED <<lpc, pc>>
  BY DEF RecordCapacity, WrapperStep, ReadGeneration, Launch, PollRestart,
         StopEngine, WrapperExit, EngineExit, vars
<1> QED BY <1>1, <1>2, <1>3, <1>4, <1>5, <1>6, <1>7 DEF Next

(* What the writer in progress has made equal stays equal: nobody else     *)
(* writes the card, the handoff or the memory while the mutex is held.     *)
LEMMA NextHalfStory == StoryInv /\ [Next]_vars => HalfStory'
<1> SUFFICES ASSUME StoryInv, [Next]_vars PROVE HalfStory'
  OBVIOUS
<1> USE DEF StoryInv, OneWriter, HalfStory, Serving, StoreFree
<1> USE DEF TypeOK, StateTypeOK, HistoryTypeOK
<1> USE DEF files, requests, wrapper, history, counts
<1>1. CASE Boot
  BY <1>1 DEF Boot, BootReconcile, BootHandoff, BootBump, WriteEngineArgs, Bump
<1>2. CASE Crash
  BY <1>2 DEF Crash
<1>3. ASSUME NEW r \in Requests, NEW a \in Args, PutCard(r, a)
      PROVE  HalfStory'
  BY <1>3 DEF PutCard
<1>4. ASSUME NEW r \in Requests, PostRestart(r) PROVE HalfStory'
  BY <1>4 DEF PostRestart
<1>5. ASSUME NEW r \in Requests, RequestStep(r) PROVE HalfStory'
  <2>0. Serving /\ lpc' = lpc
    BY <1>5 DEF RequestStep, PutHandoff, PutHandoffFails, RequestRestart,
                RequestFails
  <2>1. CASE PutHandoff(r)
    \* r is the writer, and its card is the one on disk
    BY <2>0, <2>1 DEF PutHandoff, WriteEngineArgs
  <2>2. CASE PutHandoffFails(r)
    BY <2>0, <2>2 DEF PutHandoffFails
  <2>3. CASE RequestRestart(r)
    BY <2>0, <2>3 DEF RequestRestart
  <2>4. CASE RequestFails(r)
    BY <2>0, <2>4 DEF RequestFails
  <2> QED BY <1>5, <2>1, <2>2, <2>3, <2>4 DEF RequestStep
<1>6. CASE RecordCapacity
  BY <1>6 DEF RecordCapacity
<1>7. CASE UNCHANGED <<card, argsFile, mem, lpc, pc, want, torn>>
  BY <1>7
<1>8. WrapperStep \/ EngineExit \/ UNCHANGED vars
        => UNCHANGED <<card, argsFile, mem, lpc, pc, want, torn>>
  BY DEF WrapperStep, ReadGeneration, Launch, PollRestart, StopEngine,
         WrapperExit, EngineExit, vars
<1> QED BY <1>1, <1>2, <1>3, <1>4, <1>5, <1>6, <1>7, <1>8 DEF Next

(* Between requests memory and the handoff agree, and the card with them   *)
(* unless a PUT failed half way: ApplySpec's mutex covers both writes and  *)
(* the swap.                                                               *)
THEOREM StoreTellsOneStory == Spec => []OneStory
<1>1. Init => StoryInv
  BY InitTypeOK DEF Init, StoryInv, OneWriter, HalfStory, Serving
<1>2. StoryInv /\ [Next]_vars => StoryInv'
  BY NextTypeOK, NextOneWriter, NextHalfStory DEF StoryInv
<1>3. StoryInv => OneStory
  BY DEF StoryInv, HalfStory, OneStory, Serving
<1> QED BY <1>1, <1>2, <1>3, PTL DEF Spec

-----------------------------------------------------------------------------

(* As long as nothing crashed and no write failed, a change of the flags   *)
(* that no generation has announced has one on its way.                    *)
SignalIsComing == Undisturbed /\ unsignalled => BumpPending

SignalInv == FlagsInv /\ StoryInv /\ SignalIsComing

(* PutHandoff compares with the memory, which is what was published, so    *)
(* whatever it changes it goes on to announce; and who announces, clears.  *)
LEMMA NextSignal == SignalInv /\ [Next]_vars => SignalIsComing'
<1> SUFFICES ASSUME SignalInv, [Next]_vars, Undisturbed', unsignalled'
             PROVE  BumpPending'
  BY DEF SignalIsComing
<1> USE DEF files, requests, wrapper, history, counts
<1>1. Undisturbed
  \* the two counters only grow
  <2>1. crashes \in Nat /\ faults \in Nat
    BY BoundsAssumption DEF BoundsAssumption, SignalInv, StoryInv, TypeOK, StateTypeOK
  <2>2. /\ crashes' = crashes \/ crashes' = crashes + 1
        /\ faults' = faults \/ faults' = faults + 1
    BY DEF Next, Boot, BootReconcile, BootHandoff, BootBump, Crash, PutCard,
           PostRestart, RequestStep, PutHandoff, PutHandoffFails, RequestRestart,
           RequestFails, RecordCapacity, WrapperStep, ReadGeneration, Launch,
           PollRestart, StopEngine, WrapperExit, EngineExit, vars
  <2> QED BY <2>1, <2>2 DEF Undisturbed
<1>2. pc \in [Requests -> {"idle", "handoff", "bump"}]
  BY DEF SignalInv, StoryInv, TypeOK, StateTypeOK
<1>3. unsignalled => BumpPending
  BY <1>1 DEF SignalInv, SignalIsComing
<1>4. CASE Boot
  <2>1. CASE BootReconcile
    BY <1>3, <2>1 DEF BootReconcile, BumpPending
  <2>2. CASE BootHandoff
    BY <1>3, <2>2 DEF BootHandoff, WriteEngineArgs, BumpPending
  <2>3. CASE BootBump
    BY <2>3 DEF BootBump, Bump
  <2> QED BY <1>4, <2>1, <2>2, <2>3 DEF Boot
<1>5. CASE Crash
  <2>1. crashes' = crashes + 1 /\ crashes \in Nat
    BY <1>5, BoundsAssumption
    DEF Crash, BoundsAssumption, SignalInv, StoryInv, TypeOK, StateTypeOK
  <2> QED BY <2>1 DEF Undisturbed
<1>6. ASSUME NEW r \in Requests, NEW a \in Args, PutCard(r, a)
      PROVE  BumpPending'
  BY <1>2, <1>3, <1>6 DEF PutCard, BumpPending
<1>7. ASSUME NEW r \in Requests, PostRestart(r) PROVE BumpPending'
  BY <1>2, <1>3, <1>7 DEF PostRestart, BumpPending
<1>8. ASSUME NEW r \in Requests, RequestStep(r) PROVE BumpPending'
  <2>1. CASE PutHandoff(r)
    <3>1. argsFile = mem
      BY <2>1 DEF PutHandoff, SignalInv, StoryInv, OneWriter, HalfStory, Serving
    <3>2. CASE mem # want[r]
      BY <1>2, <2>1, <3>2 DEF PutHandoff, BumpPending
    <3>3. CASE mem = want[r]
      <4>1. unsignalled
        BY <2>1, <3>1, <3>3 DEF PutHandoff, WriteEngineArgs
      <4> QED BY <1>2, <1>3, <2>1, <3>3, <4>1 DEF PutHandoff, BumpPending
    <3> QED BY <3>2, <3>3
  <2>2. CASE PutHandoffFails(r)
    BY <1>2, <1>3, <2>2 DEF PutHandoffFails, BumpPending
  <2>3. CASE RequestRestart(r)
    BY <2>3 DEF RequestRestart, Bump
  <2>4. CASE RequestFails(r)
    <3>1. faults' = faults + 1 /\ faults \in Nat
      BY <2>4, BoundsAssumption
      DEF RequestFails, BoundsAssumption, SignalInv, StoryInv, TypeOK, StateTypeOK
    <3> QED BY <3>1 DEF Undisturbed
  <2> QED BY <1>8, <2>1, <2>2, <2>3, <2>4 DEF RequestStep
<1>9. RecordCapacity \/ WrapperStep \/ EngineExit \/ UNCHANGED vars
        => UNCHANGED <<unsignalled, lpc, pc>>
  BY DEF RecordCapacity, WrapperStep, ReadGeneration, Launch, PollRestart,
         StopEngine, WrapperExit, EngineExit, vars
<1>10. UNCHANGED <<unsignalled, lpc, pc>> => BumpPending'
  BY <1>3 DEF BumpPending
<1> QED BY <1>4, <1>5, <1>6, <1>7, <1>8, <1>9, <1>10 DEF Next

(* A PUT that answers "not-needed", while nothing has crashed and no write *)
(* has failed, leaves no engine on other flags than the card's but one     *)
(* whose signal is on its way (Store.ApplySpec, Tracker.Request).          *)
THEOREM NotNeededIsSo == Spec => NotNeededIsTrue
<1>1. Init => SignalInv
  BY InitTypeOK
  DEF Init, SignalInv, FlagsInv, GenerationsAreOld, SettledRunsHandoff, Settled,
      StoryInv, OneWriter, HalfStory, Serving, SignalIsComing
<1>2. SignalInv /\ [Next]_vars => SignalInv'
  <2>1. FlagsInv /\ [Next]_vars => FlagsInv'
    BY NextTypeOK, NextGenerations, NextSettled DEF FlagsInv
  <2>2. StoryInv /\ [Next]_vars => StoryInv'
    BY NextTypeOK, NextOneWriter, NextHalfStory DEF StoryInv
  <2> QED BY <2>1, <2>2, NextSignal DEF SignalInv
<1> DEFINE Told == \A r \in Requests :
                      Undisturbed /\ reply'[r] = "not-needed" /\ reply[r] # "not-needed"
                         => ~StaleEngine' \/ BumpPending'
<1>3. SignalInv /\ SignalInv' /\ [Next]_vars => [Told]_vars
  <2> SUFFICES ASSUME SignalInv, SignalInv', [Next]_vars, NEW r \in Requests, Undisturbed,
                      reply'[r] = "not-needed", reply[r] # "not-needed", StaleEngine'
               PROVE  BumpPending'
    OBVIOUS
  <2>1. Undisturbed'
    \* nothing but PutHandoff gives that answer
    <3> USE DEF files, requests, wrapper, history, counts
    <3>1. reply \in [Requests -> {"none", "not-needed", "signaled", "failed"}]
      BY DEF SignalInv, StoryInv, TypeOK, StateTypeOK
    <3>2. ~Crash
      BY DEF Crash
    <3>3. ASSUME NEW s \in Requests PROVE ~PutHandoffFails(s) /\ ~RequestFails(s)
      BY <3>1 DEF PutHandoffFails, RequestFails
    <3>4. UNCHANGED <<crashes, faults>>
      BY <3>2, <3>3
      DEF Next, Boot, BootReconcile, BootHandoff, BootBump, PutCard,
          PostRestart, RequestStep, PutHandoff, RequestRestart,
          RecordCapacity, WrapperStep, ReadGeneration, Launch,
          PollRestart, StopEngine, WrapperExit, EngineExit, vars
    <3> QED BY <3>4 DEF Undisturbed
  <2>2. unsignalled'
    BY DEF SignalInv, FlagsInv, SettledRunsHandoff, StaleEngine
  <2> QED BY <2>1, <2>2 DEF SignalInv, SignalIsComing
<1> QED BY <1>1, <1>2, <1>3, PTL DEF Spec, NotNeededIsTrue

=============================================================================
