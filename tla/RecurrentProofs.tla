-------------------------- MODULE RecurrentProofs --------------------------
(***************************************************************************)
(* What AutocastContext.tla, SpikingRecurrent.tla and SequenceRecurrent.tla*)
(* state, proved for every set of context arguments, every depth of        *)
(* nesting, every layer and every number of steps and sequences.           *)
(*                                                                         *)
(* A context restores what it found.  Why that is enough: with nothing but *)
(* package contexts below it, what a frame restores are two states that    *)
(* agree (`FramesAgree`), and the frame at the bottom restores the defaults*)
(* (`BottomFrame`).  A call keeps the profile it began under because every *)
(* frame it pushed restores the value that is in force (`CallKeeps`).      *)
(* Why an FP32 layer's state stays FP32 in a model that uses the profile   *)
(* alone: a context still open is the profile or disabled (`FramesInv`), so*)
(* gates have the type of the parameters, and all that a direction hands on*)
(* comes from its gates (`TypesInv`).                                      *)
(*                                                                         *)
(* Why a state carried from call to call is that of one call over all the  *)
(* inputs: a reference network splits (`FinalSplit`, `OutputSplit`), since *)
(* with one direction a layer's output at an input depends on that input   *)
(* and the ones before it only (`LayersSplit`, by induction over the       *)
(* layers).  So it is enough that a call makes of its own inputs, from the *)
(* state it began with, what the reference makes of them: every direction  *)
(* in progress has read the first inputs in its own order (`RunHistory`),  *)
(* the directions behind it hold their final rows (`DirectionsHistory`),   *)
(* and the layer's input is the reference's (`CallHistory`).               *)
(*                                                                         *)
(* The eager loops over packed and dense batches come last: what every     *)
(* tensor of theirs is, in terms of the sequence that is in each row, and  *)
(* that the rows of a step are those of the sequences that have the step.  *)
(***************************************************************************)
EXTENDS SpikingRecurrent, SequenceRecurrent,
        SequenceTheorems, FiniteSetTheorems, WellFoundedInduction, TLAPS

TorchStates == [enabled : BOOLEAN, dtype : {"bf16", "default"}, cache : BOOLEAN]
Frames == [kind : {"package", "torch"}, token : Settings, saved : TorchStates]

\* The visible state c is what torch's state t does.
Agree(c, t) ==
  /\ c.enabled <=> t.enabled
  /\ c.enabled => t.dtype = c.dtype /\ t.cache = c.cache

ContextType == current \in Settings /\ torch \in TorchStates /\ frames \in Seq(Frames)

FramesAgree ==
  \A i \in 1 .. Len(frames) :
    (\A j \in 1 .. i - 1 : frames[j].kind = "package") =>
      Agree(frames[i].token, frames[i].saved)

BottomFrame ==
  Len(frames) > 0 => frames[1].token = Disabled /\ frames[1].saved = TorchDefault

ContextInv ==
  /\ ContextType
  /\ FramesAgree
  /\ BottomFrame
  /\ VisibleIsInForce
  /\ NothingLeftBehind

-----------------------------------------------------------------------------
(* Contexts.                                                               *)

LEMMA ContextStart == ContextInit => ContextInv
  BY DEF ContextInit, ContextInv, ContextType, FramesAgree, BottomFrame, VisibleIsInForce,
         NothingLeftBehind, Disabled, TorchDefault, Settings, TorchStates

\* A frame pushed on the others restores what is in force.
LEMMA PushKeeps ==
  ASSUME ContextInv, NEW kind \in {"package", "torch"}, Push(kind)
  PROVE  /\ frames' \in Seq(Frames) /\ Len(frames') = Len(frames) + 1
         /\ FramesAgree' /\ BottomFrame' /\ frames' # <<>>
         /\ \A i \in 1 .. Len(frames) : frames'[i] = frames[i]
         /\ frames'[Len(frames) + 1] = [kind |-> kind, token |-> current, saved |-> torch]
<1> DEFINE f == [kind |-> kind, token |-> current, saved |-> torch]
<1>1. f \in Frames /\ frames \in Seq(Frames)
  BY DEF ContextInv, ContextType, Frames
<1>2. /\ frames' \in Seq(Frames) /\ Len(frames') = Len(frames) + 1 /\ Len(frames) \in Nat
      /\ \A i \in 1 .. Len(frames) : frames'[i] = frames[i]
      /\ frames'[Len(frames) + 1] = f
  BY <1>1 DEF Push
<1>3. ASSUME NEW i \in 1 .. Len(frames'),
             \A j \in 1 .. i - 1 : frames'[j].kind = "package"
      PROVE  Agree(frames'[i].token, frames'[i].saved)
  <2>1. CASE i \in 1 .. Len(frames)
    <3>1. \A j \in 1 .. i - 1 : frames[j].kind = "package"
      BY <1>2, <1>3, <2>1
    <3> QED
      BY <1>2, <2>1, <3>1 DEF ContextInv, FramesAgree
  <2>2. CASE i = Len(frames) + 1
    <3>1. DOMAIN frames = 1 .. Len(frames)
      BY <1>1
    <3>2. PackageOnly
      BY <1>2, <1>3, <2>2, <3>1 DEF PackageOnly
    <3>3. Agree(current, torch)
      BY <3>2 DEF ContextInv, VisibleIsInForce, Agree
    <3> QED
      BY <1>2, <2>2, <3>3
  <2> QED
    BY <1>2, <2>1, <2>2
<1>4. BottomFrame'
  <2>1. CASE Len(frames) = 0
    BY <1>1, <1>2, <2>1 DEF BottomFrame, ContextInv, NothingLeftBehind
  <2>2. CASE Len(frames) > 0
    BY <1>2, <2>2 DEF BottomFrame, ContextInv
  <2> QED
    BY <1>2, <2>1, <2>2
<1> QED
  BY <1>1, <1>2, <1>3, <1>4 DEF FramesAgree

LEMMA EnterKeeps ==
  ASSUME ContextInv, NEW s \in Settings, EnterAutocast(s)
  PROVE  ContextInv'
<1>1. Push("package") /\ current' = VisibleWithin(s) /\ torch' = TorchWithin(s)
  BY DEF EnterAutocast
<1>2. /\ frames' \in Seq(Frames) /\ FramesAgree' /\ BottomFrame' /\ frames' # <<>>
      /\ Len(frames') = Len(frames) + 1
      /\ \A i \in 1 .. Len(frames) : frames'[i] = frames[i]
  BY <1>1, PushKeeps
<1>3. ContextType'
  BY <1>1, <1>2 DEF ContextInv, ContextType, VisibleWithin, TorchWithin, TorchDisabled,
                    Disabled, Settings, TorchStates
<1>4. VisibleIsInForce'
  <2> SUFFICES ASSUME PackageOnly' PROVE Agree(current', torch')
    BY DEF VisibleIsInForce, Agree
  <2>1. DOMAIN frames = 1 .. Len(frames) /\ DOMAIN frames' = 1 .. Len(frames')
    BY <1>2 DEF ContextInv, ContextType
  <2>2. Len(frames) \in Nat
    BY DEF ContextInv, ContextType
  <2>3. PackageOnly
    BY <1>2, <2>1, <2>2 DEF PackageOnly
  <2>4. Agree(current, torch)
    BY <2>3 DEF ContextInv, VisibleIsInForce, Agree
  <2> QED
    BY <1>1, <2>4 DEF Agree, VisibleWithin, TorchWithin, TorchDisabled, Disabled,
                      ContextInv, ContextType, Settings, TorchStates
<1> QED
  BY <1>2, <1>3, <1>4 DEF ContextInv, NothingLeftBehind

LEMMA EnterFailsKeeps ==
  ASSUME ContextInv, NEW s, EnterFails(s)
  PROVE  ContextInv'
  BY DEF EnterFails, VisibleAfterFailure, ContextInv, ContextType, FramesAgree, BottomFrame,
         VisibleIsInForce, NothingLeftBehind, PackageOnly

LEMMA EnterTorchKeeps ==
  ASSUME ContextInv, EnterTorchDisabled
  PROVE  ContextInv'
<1>1. Push("torch") /\ current' = current /\ torch' = TorchDisabled
  BY DEF EnterTorchDisabled
<1>2. /\ frames' \in Seq(Frames) /\ FramesAgree' /\ BottomFrame' /\ frames' # <<>>
      /\ Len(frames') = Len(frames) + 1 /\ frames'[Len(frames) + 1].kind = "torch"
  BY <1>1, PushKeeps
<1>3. ContextType'
  BY <1>1, <1>2 DEF ContextInv, ContextType, TorchDisabled, TorchStates
<1>4. ~ PackageOnly'
  <2>1. DOMAIN frames' = 1 .. Len(frames') /\ Len(frames) \in Nat
    BY <1>2 DEF ContextInv, ContextType
  <2> QED
    BY <1>2, <2>1 DEF PackageOnly
<1> QED
  BY <1>2, <1>3, <1>4 DEF ContextInv, VisibleIsInForce, NothingLeftBehind

LEMMA LeaveKeeps ==
  ASSUME ContextInv, Leave
  PROVE  /\ ContextInv' /\ Len(frames') = Len(frames) - 1
         /\ \A i \in 1 .. Len(frames') : frames'[i] = frames[i]
         /\ current' = frames[Len(frames)].token
<1> DEFINE n == Len(frames)
<1>1. /\ frames \in Seq(Frames) /\ n \in Nat /\ n > 0 /\ DOMAIN frames = 1 .. n
      /\ frames[n] \in Frames
  BY DEF ContextInv, ContextType, Leave
<1>2. /\ current' = frames[n].token /\ torch' = frames[n].saved
      /\ frames' = SubSeq(frames, 1, n - 1)
  BY DEF Leave
<1>3. /\ frames' \in Seq(Frames) /\ Len(frames') = n - 1
      /\ \A i \in 1 .. n - 1 : frames'[i] = frames[i]
      /\ DOMAIN frames' = 1 .. n - 1
  <2>1. 1 \in Int /\ n - 1 \in Int /\ \A i \in 1 .. n - 1 : frames[i] \in Frames
    BY <1>1
  <2>2. /\ SubSeq(frames, 1, n - 1) \in Seq(Frames)
        /\ Len(SubSeq(frames, 1, n - 1)) = IF 1 <= n - 1 THEN (n - 1) - 1 + 1 ELSE 0
        /\ \A i \in 1 .. (n - 1) - 1 + 1 :
             SubSeq(frames, 1, n - 1)[i] = frames[1 + i - 1]
    BY <2>1, SubSeqProperties
  <2> HIDE DEF n
  <2> QED
    BY <1>1, <1>2, <2>2
<1>4. ContextType'
  <2>1. frames[n].token \in Settings /\ frames[n].saved \in TorchStates
    BY <1>1 DEF Frames
  <2> QED
    BY <1>2, <1>3, <2>1 DEF ContextType
<1>5. FramesAgree'
  <2> HIDE DEF n
  <2> SUFFICES ASSUME NEW i \in 1 .. n - 1,
                      \A j \in 1 .. i - 1 : frames'[j].kind = "package"
               PROVE  Agree(frames'[i].token, frames'[i].saved)
    BY <1>3 DEF FramesAgree
  <2>1. i \in 1 .. n /\ \A j \in 1 .. i - 1 : j \in 1 .. n - 1
    BY <1>1
  <2>2. \A j \in 1 .. i - 1 : frames[j].kind = "package"
    BY <1>3, <2>1
  <2>3. Agree(frames[i].token, frames[i].saved)
    BY <1>1, <2>1, <2>2 DEF n, ContextInv, FramesAgree
  <2> QED
    BY <1>3, <2>3
<1>6. BottomFrame' /\ NothingLeftBehind'
  <2>1. BottomFrame'
    BY <1>1, <1>3 DEF ContextInv, BottomFrame
  <2>2. ASSUME frames' = <<>>
        PROVE  current' = Disabled /\ torch' = TorchDefault
    <3>1. Len(frames') = 0
      BY <2>2, EmptySeq
    <3>2. n \in Nat /\ n - 1 = 0
      BY <1>1, <1>3, <3>1
    <3>3. n = 1
      <4> HIDE DEF n
      <4> QED
        BY <3>2
    <3> QED
      BY <1>1, <1>2, <3>3 DEF ContextInv, BottomFrame
  <2> QED
    BY <2>1, <2>2 DEF NothingLeftBehind
<1>7. VisibleIsInForce'
  <2> SUFFICES ASSUME PackageOnly' PROVE Agree(current', torch')
    BY DEF VisibleIsInForce, Agree
  <2>1. \A j \in 1 .. n - 1 : frames[j].kind = "package"
    BY <1>3 DEF PackageOnly
  <2> QED
    BY <1>1, <1>2, <2>1 DEF ContextInv, FramesAgree
<1> QED
  BY <1>2, <1>3, <1>4, <1>5, <1>6, <1>7 DEF ContextInv

-----------------------------------------------------------------------------
(* Calls.                                                                  *)

CallFields ==
  {"request", "begin", "input", "inputDtype", "layer", "outputs", "h", "c",
   "dtypes", "run", "depth"}
RunFields == {"h", "c", "dtype", "gates", "outputs"}

\* Frames pushed since the call began restore the value that is in force.
CallKeeps ==
  call # None =>
    /\ call.depth \in Nat
    /\ \A i \in 1 .. Len(frames) : i > call.depth => frames[i].token = current

CallType ==
  call # None =>
    /\ DOMAIN call = CallFields
    /\ call.run # None =>
         /\ DOMAIN call.run = RunFields
         /\ call.run.gates \in {"none"} \cup Dtypes

CallInv ==
  /\ dtype \in Dtypes
  /\ CallType
  /\ CallKeeps
  /\ RecurrenceIsFP32

IInv == ContextInv /\ CallInv

LEMMA FramesLength ==
  ASSUME IInv
  PROVE  Len(frames) \in Nat /\ (call # None => call.depth \in Nat)
  BY DEF IInv, ContextInv, ContextType, CallInv, CallKeeps

\* Without a call there is nothing to keep.
LEMMA NoCall ==
  ASSUME dtype' \in Dtypes, call' = None
  PROVE  CallInv'
  BY DEF CallInv, CallType, CallKeeps, RecurrenceIsFP32

LEMMA ContextKept ==
  ASSUME ContextInv, UNCHANGED context
  PROVE  ContextInv'
  BY DEF context, ContextInv, ContextType, FramesAgree, BottomFrame, VisibleIsInForce,
         NothingLeftBehind, PackageOnly

\* Leaving the surrogate's frame restores the value that is in force.
LEMMA LeaveSurrogateKeeps ==
  ASSUME IInv, call # None, LeaveSurrogate
  PROVE  /\ ContextInv' /\ current' = current
         /\ \A i \in 1 .. Len(frames') : i > call.depth => frames'[i].token = current'
<1>1. CASE Len(frames) > call.depth /\ Leave
  <2>1. /\ ContextInv' /\ Len(frames') = Len(frames) - 1
        /\ \A i \in 1 .. Len(frames') : frames'[i] = frames[i]
        /\ current' = frames[Len(frames)].token
    BY <1>1, LeaveKeeps DEF IInv
  <2>2. Len(frames) \in Nat /\ call.depth \in Nat
    BY DEF IInv, ContextInv, ContextType, CallInv, CallKeeps
  <2>3. Len(frames) \in 1 .. Len(frames)
    BY <1>1, <2>2
  <2>4. current' = current
    BY <1>1, <2>1, <2>3 DEF IInv, CallInv, CallKeeps
  <2> QED
    BY <2>1, <2>2, <2>4 DEF IInv, CallInv, CallKeeps
<1>2. CASE UNCHANGED context
  BY <1>2, ContextKept DEF IInv, CallInv, CallKeeps, context
<1> QED
  BY <1>1, <1>2 DEF LeaveSurrogate

LEMMA BetweenCalls ==
  ASSUME IInv, EnterContext \/ LeaveContext \/ Reset \/ Detach \/ Apply \/ Malformed \/ Refuse
  PROVE  IInv'
<1>1. CASE EnterContext
  <2>1. PICK s \in Contexts : EnterAutocast(s) \/ EnterFails(s)
    BY <1>1 DEF EnterContext
  <2>2. ContextInv'
    BY <2>1, EnterKeeps, EnterFailsKeeps, AutocastContextAssumption DEF IInv
  <2> QED
    BY <1>1, <2>2, NoCall DEF EnterContext, IInv, CallInv
<1>2. CASE LeaveContext
  BY <1>2, LeaveKeeps, NoCall DEF LeaveContext, IInv, CallInv
<1>3. CASE Reset
  BY <1>3, ContextKept, NoCall DEF Reset, IInv, CallInv
<1>4. CASE Detach
  BY <1>4, ContextKept, NoCall DEF Detach, IInv, CallInv
<1>5. CASE Apply
  <2>1. dtype' \in Dtypes /\ call' = None /\ UNCHANGED context
    BY <1>5 DEF Apply, IInv, CallInv
  <2> QED
    BY <2>1, ContextKept, NoCall DEF IInv
<1>6. CASE Malformed
  BY <1>6, ContextKept, NoCall DEF Malformed, Raises, IInv, CallInv
<1>7. CASE Refuse
  BY <1>7, ContextKept, NoCall DEF Refuse, Raises, IInv, CallInv
<1> QED
  BY <1>1, <1>2, <1>3, <1>4, <1>5, <1>6, <1>7

\* A state a call begins with is FP32 under the profile.
LEMMA ForwardStep ==
  ASSUME IInv, Forward
  PROVE  IInv'
<1>1. PICK q \in Requests :
        LET begin == IF q.hx = "given" THEN Explicit(q)
                     ELSE IF Carries(q) THEN hx ELSE ZeroState(q)
        IN  /\ Carries(q) => Compatible(q)
            /\ call' = [request |-> q, begin |-> begin, input |-> Inputs(q),
                        inputDtype |-> q.dtype, layer |-> 1, outputs |-> <<>>,
                        h |-> <<>>, c |-> <<>>, dtypes |-> {},
                        run |-> None, depth |-> Len(frames)]
  BY DEF Forward
<1>2. ContextInv' /\ UNCHANGED <<context, dtype>>
  BY ContextKept DEF Forward, IInv
<1>3. /\ DOMAIN call' = CallFields /\ call'.run = None /\ call'.dtypes = {}
      /\ call'.depth = Len(frames)
  BY <1>1 DEF CallFields
<1>4. Len(frames) \in Nat /\ frames' = frames
  BY <1>2 DEF IInv, ContextInv, ContextType, context
<1>5. CallType' /\ CallKeeps'
  BY <1>3, <1>4 DEF CallType, CallKeeps
<1>6. ASSUME IsNpuBf16AutocastActive PROVE call'.begin.dtype = "fp32"
  <2>1. StateDtype(q.dtype) = "fp32"
    BY <1>6 DEF StateDtype
  <2>2. CASE q.hx = "given"
    <3>1. call'.begin = Explicit(q)
      BY <1>1, <2>2
    <3> QED
      BY <2>1, <3>1 DEF Explicit, Start
  <2>3. CASE q.hx # "given" /\ Carries(q)
    <3>1. call'.begin = hx
      BY <1>1, <2>3
    <3> QED
      BY <1>1, <2>1, <2>3, <3>1 DEF Compatible
  <2>4. CASE q.hx # "given" /\ ~Carries(q)
    <3>1. call'.begin = ZeroState(q)
      BY <1>1, <2>4
    <3> QED
      BY <2>1, <3>1 DEF ZeroState, Start
  <2> QED
    BY <2>2, <2>3, <2>4
<1>7. RecurrenceIsFP32'
  BY <1>2, <1>3, <1>6 DEF RecurrenceIsFP32, IsNpuBf16AutocastActive, context
<1> QED
  BY <1>2, <1>5, <1>7 DEF IInv, CallInv

LEMMA RunDirectionStep ==
  ASSUME IInv, RunDirection
  PROVE  IInv'
<1>1. ContextInv' /\ UNCHANGED <<context, dtype>>
  BY ContextKept DEF RunDirection, IInv
<1>2. DOMAIN call = CallFields /\ call # None
  BY DEF RunDirection, IInv, CallInv, CallType
<1>3. /\ DOMAIN call' = CallFields /\ DOMAIN call'.run = RunFields
      /\ call'.run.gates = "none" /\ call'.run.dtype = call.begin.dtype
      /\ call'.begin = call.begin /\ call'.dtypes = call.dtypes
      /\ call'.depth = call.depth
  BY <1>2 DEF RunDirection, CallFields, RunFields
<1>4. CallType' /\ CallKeeps'
  BY <1>1, <1>2, <1>3 DEF IInv, CallInv, CallType, CallKeeps, context
<1>5. RecurrenceIsFP32'
  BY <1>1, <1>2, <1>3 DEF IInv, CallInv, RecurrenceIsFP32, IsNpuBf16AutocastActive, context
<1> QED
  BY <1>1, <1>4, <1>5 DEF IInv, CallInv

\* The gates of a step are FP32 under the profile; the frame the surrogate
\* runs in leaves the profile in force.
LEMMA AffineStep ==
  ASSUME IInv, Affine
  PROVE  IInv'
<1>1. /\ call # None /\ call.run # None /\ dtype' = dtype
      /\ DOMAIN call = CallFields /\ DOMAIN call.run = RunFields
  BY DEF Affine, Running, IInv, CallInv, CallType
<1>2. call' = [call EXCEPT !.run.gates = RecurrenceDtype(LinearDtype)]
  BY DEF Affine
<1>3. /\ DOMAIN call' = CallFields /\ DOMAIN call'.run = RunFields
      /\ call'.run.gates = RecurrenceDtype(LinearDtype)
      /\ call'.run.dtype = call.run.dtype
      /\ call'.begin = call.begin /\ call'.dtypes = call.dtypes
      /\ call'.depth = call.depth
  BY <1>1, <1>2 DEF CallFields, RunFields
<1>4. /\ ContextInv' /\ current' = current
      /\ \A i \in 1 .. Len(frames') : i > call.depth => frames'[i].token = current'
  <2>1. CASE EnterTorchDisabled
    <3>1. Push("torch") /\ current' = current
      BY <2>1 DEF EnterTorchDisabled
    <3>2. /\ Len(frames') = Len(frames) + 1 /\ Len(frames) \in Nat
          /\ \A i \in 1 .. Len(frames) : frames'[i] = frames[i]
          /\ frames'[Len(frames) + 1].token = current
      BY <3>1, PushKeeps DEF IInv, ContextInv, ContextType
    <3>3. \A i \in 1 .. Len(frames') : i \in 1 .. Len(frames) \/ i = Len(frames) + 1
      BY <3>2
    <3> QED
      BY <1>1, <2>1, <3>1, <3>2, <3>3, EnterTorchKeeps DEF IInv, CallInv, CallKeeps
  <2>2. CASE UNCHANGED context
    BY <1>1, <2>2, ContextKept DEF IInv, CallInv, CallKeeps, context
  <2> QED
    BY <2>1, <2>2 DEF Affine
<1>5. RecurrenceDtype(LinearDtype) \in Dtypes
  BY DEF RecurrenceDtype, LinearDtype, IInv, CallInv, Dtypes
<1>6. CallType' /\ CallKeeps'
  BY <1>1, <1>3, <1>4, <1>5 DEF IInv, CallInv, CallType, CallKeeps
<1>7. RecurrenceIsFP32'
  <2> SUFFICES ASSUME IsNpuBf16AutocastActive
               PROVE  /\ call'.begin.dtype = "fp32" /\ call'.run.dtype = "fp32"
                      /\ call'.run.gates # "bf16" /\ call'.dtypes \subseteq {"fp32"}
    BY <1>4 DEF RecurrenceIsFP32, IsNpuBf16AutocastActive
  <2> QED
    BY <1>1, <1>3 DEF IInv, CallInv, RecurrenceIsFP32, RecurrenceDtype
<1> QED
  BY <1>1, <1>4, <1>6, <1>7 DEF IInv, CallInv

LEMMA CellStepStep ==
  ASSUME IInv, CellStep
  PROVE  IInv'
<1> DEFINE d == IF net.kind = "rnn" THEN call.run.gates
                ELSE Promoted(call.run.gates, call.run.dtype)
<1>1. /\ call # None /\ call.run # None /\ call.run.gates # "none" /\ dtype' = dtype
      /\ DOMAIN call = CallFields /\ DOMAIN call.run = RunFields
      /\ call.run.gates \in Dtypes
  BY DEF CellStep, Running, IInv, CallInv, CallType
<1>2. /\ DOMAIN call' = CallFields /\ DOMAIN call'.run = RunFields
      /\ call'.run.gates = "none" /\ call'.run.dtype = d
      /\ call'.begin = call.begin /\ call'.dtypes = call.dtypes
      /\ call'.depth = call.depth
  BY <1>1 DEF CellStep, CallFields, RunFields
<1>3. /\ ContextInv' /\ current' = current
      /\ \A i \in 1 .. Len(frames') : i > call.depth => frames'[i].token = current'
  BY <1>1, LeaveSurrogateKeeps DEF CellStep
<1>4. CallType' /\ CallKeeps'
  BY <1>1, <1>2, <1>3 DEF IInv, CallInv, CallType, CallKeeps
<1>5. RecurrenceIsFP32'
  <2> SUFFICES ASSUME IsNpuBf16AutocastActive
               PROVE  /\ call'.begin.dtype = "fp32" /\ call'.run.dtype = "fp32"
                      /\ call'.run.gates # "bf16" /\ call'.dtypes \subseteq {"fp32"}
    BY <1>3 DEF RecurrenceIsFP32, IsNpuBf16AutocastActive
  <2>1. call.run.gates = "fp32"
    BY <1>1 DEF IInv, CallInv, RecurrenceIsFP32, Dtypes
  <2> QED
    BY <1>1, <1>2, <2>1 DEF IInv, CallInv, RecurrenceIsFP32, Promoted
<1> QED
  BY <1>1, <1>3, <1>4, <1>5 DEF IInv, CallInv

LEMMA CellRaisesStep ==
  ASSUME IInv, CellRaises
  PROVE  IInv'
<1>1. call # None /\ call' = None /\ dtype' = dtype
  BY DEF CellRaises, Running, Raises
<1> QED
  BY <1>1, NoCall, LeaveSurrogateKeeps DEF CellRaises, IInv, CallInv

LEMMA EndDirectionStep ==
  ASSUME IInv, EndDirection
  PROVE  IInv'
<1>1. ContextInv' /\ UNCHANGED <<context, dtype>>
  BY ContextKept DEF EndDirection, IInv
<1>2. call # None /\ call.run # None /\ DOMAIN call = CallFields
  BY DEF EndDirection, IInv, CallInv, CallType
<1>3. /\ DOMAIN call' = CallFields /\ call'.run = None
      /\ call'.dtypes = call.dtypes \cup {call.run.dtype}
      /\ call'.begin = call.begin /\ call'.depth = call.depth
  BY <1>2 DEF EndDirection, CallFields
<1>4. CallType' /\ CallKeeps'
  BY <1>1, <1>2, <1>3 DEF IInv, CallInv, CallType, CallKeeps, context
<1>5. RecurrenceIsFP32'
  BY <1>1, <1>2, <1>3 DEF IInv, CallInv, RecurrenceIsFP32, IsNpuBf16AutocastActive, context
<1> QED
  BY <1>1, <1>4, <1>5 DEF IInv, CallInv

LEMMA EndLayerStep ==
  ASSUME IInv, EndLayer
  PROVE  IInv'
<1>1. ContextInv' /\ UNCHANGED <<context, dtype>>
  BY ContextKept DEF EndLayer, IInv
<1>2. call # None /\ call.run = None /\ DOMAIN call = CallFields
  BY DEF EndLayer, IInv, CallInv, CallType
<1>3. /\ DOMAIN call' = CallFields /\ call'.run = None /\ call'.dtypes = call.dtypes
      /\ call'.begin = call.begin /\ call'.depth = call.depth
  BY <1>2 DEF EndLayer, CallFields
<1>4. CallType' /\ CallKeeps'
  BY <1>1, <1>2, <1>3 DEF IInv, CallInv, CallType, CallKeeps, context
<1>5. RecurrenceIsFP32'
  BY <1>1, <1>2, <1>3 DEF IInv, CallInv, RecurrenceIsFP32, IsNpuBf16AutocastActive, context
<1> QED
  BY <1>1, <1>4, <1>5 DEF IInv, CallInv

LEMMA ReturnStep ==
  ASSUME IInv, Return
  PROVE  IInv'
  BY ContextKept, NoCall DEF Return, IInv, CallInv

-----------------------------------------------------------------------------
LEMMA InvInit == Init => IInv
<1> SUFFICES ASSUME Init PROVE IInv
  OBVIOUS
<1>1. call = None /\ dtype \in Dtypes
  BY DEF Init, Dtypes
<1> QED
  BY <1>1, ContextStart DEF Init, IInv, CallInv, CallType, CallKeeps, RecurrenceIsFP32

LEMMA InvNext == IInv /\ [Next]_vars => IInv'
<1> SUFFICES ASSUME IInv, [Next]_vars PROVE IInv'
  OBVIOUS
<1>1. CASE UNCHANGED vars
  <2>1. ContextInv'
    BY <1>1, ContextKept DEF IInv, vars
  <2> QED
    BY <1>1, <2>1 DEF vars, context, IInv, CallInv, CallType, CallKeeps, RecurrenceIsFP32,
                      IsNpuBf16AutocastActive
<1> QED
  BY <1>1, BetweenCalls, ForwardStep, RunDirectionStep, AffineStep, CellStepStep,
     CellRaisesStep, EndDirectionStep, EndLayerStep, ReturnStep DEF Next

\* The inductive invariant holds in every reachable state.
THEOREM Invariance == Spec => []IInv
  BY InvInit, InvNext, PTL DEF Spec

\* What the package says of autocast is what torch does, while only contexts of
\* the package are open, however contexts were nested, left or failed to open.
THEOREM VisibleIsTrue == Spec => []VisibleIsInForce
<1>1. IInv => VisibleIsInForce
  BY DEF IInv, ContextInv
<1> QED
  BY <1>1, Invariance, PTL

\* With every context left, also by exceptions of cells and surrogates, neither
\* the package nor torch keeps a trace of them.
THEOREM ContextsLeaveNothing == Spec => []NothingLeftBehind
<1>1. IInv => NothingLeftBehind
  BY DEF IInv, ContextInv
<1> QED
  BY <1>1, Invariance, PTL

\* Under the profile the recurrence of every call is FP32 throughout.
THEOREM ProfileKeepsFP32 == Spec => []RecurrenceIsFP32
<1>1. IInv => RecurrenceIsFP32
  BY DEF IInv, CallInv
<1> QED
  BY <1>1, Invariance, PTL

-----------------------------------------------------------------------------
(* The carried state.                                                      *)

StateFields == {"h", "c", "dtype", "device", "batch", "attached"}

\* None is told apart from a call, from what a direction holds and from a state.
NoneIsNoRecord == DOMAIN None \notin {CallFields, RunFields, StateFields}

\* A context is open beyond the caller's only for a surrogate under the profile.
FramesInv ==
  call # None /\ Len(frames) > call.depth => IsNpuBf16AutocastActive

\* Where a call is: what has run, ran where the parameters are; and unless a
\* plain autocast is in force, the types of an FP32 layer are FP32.
TypesInv ==
  call # None =>
    /\ Len(call.input) \in Nat \ {0} /\ DOMAIN call.input = 1 .. Len(call.input)
    /\ call.dtypes = {} => call.outputs = <<>>
    /\ call.dtypes # {} => call.request.device = device
    /\ call.run # None =>
         /\ \E S : call.run.outputs \in Seq(S)
         /\ call.run.gates # "none" =>
              Len(call.run.outputs) < Len(call.input) /\ call.request.device = device
         /\ call.run.outputs # <<>> => call.request.device = device
    /\ dtype = "fp32" /\ ~UnderPlain =>
         /\ call.dtypes \subseteq {"fp32"}
         /\ call.run # None =>
              /\ call.run.gates # "bf16"
              /\ call.run.outputs # <<>> => call.run.dtype = "fp32"

\* The carried state is where the parameters are, and that of an FP32 layer is
\* FP32 unless a plain autocast made it.
CarriedInv ==
  /\ net \in Layers
  /\ hx # None =>
       /\ {"dtype", "device", "batch", "attached"} \subseteq DOMAIN hx
       /\ hx.device = device /\ hx.dtype \in Dtypes
       /\ dtype = "fp32" /\ ~plain => hx.dtype = "fp32"

SInv == IInv /\ FramesInv /\ TypesInv /\ CarriedInv /\ RefusedForAChange

\* Outside of a call nothing is in progress.
LEMMA NoCallTypes ==
  ASSUME call' = None
  PROVE  TypesInv' /\ FramesInv'
  BY DEF TypesInv, FramesInv

LEMMA NotRefused ==
  ASSUME last' = NoResult \/ last'.outcome # "refused"
  PROVE  RefusedForAChange'
  BY DEF RefusedForAChange, NoResult

LEMMA StaysRefused ==
  ASSUME SInv, UNCHANGED <<last, hx, dtype, device, plain>>
  PROVE  RefusedForAChange'
  BY DEF SInv, RefusedForAChange

\* Opening a surrogate's context, or closing it, does not tell a call under a
\* plain autocast from another: it happens under the profile only.
LEMMA PlainKept ==
  ASSUME SInv, call # None, call'.request = call.request,
         UNCHANGED context \/ (IsNpuBf16AutocastActive /\ EnterTorchDisabled) \/ LeaveSurrogate
  PROVE  UnderPlain => UnderPlain'
<1>1. CASE UNCHANGED context
  BY <1>1 DEF UnderPlain, Autocasts, IsNpuBf16AutocastActive, context
<1>2. CASE IsNpuBf16AutocastActive
  BY <1>2 DEF UnderPlain
<1>3. CASE LeaveSurrogate
  BY <1>1, <1>2, <1>3 DEF LeaveSurrogate, SInv, FramesInv
<1> QED
  BY <1>1, <1>2, <1>3

LEMMA FramesKept ==
  ASSUME SInv, UNCHANGED context, call # None, call'.depth = call.depth
  PROVE  FramesInv'
  BY DEF SInv, FramesInv, IsNpuBf16AutocastActive, context

\* With no plain autocast in force the gates have the type of the parameters.
LEMMA GatesAreFP32 ==
  ASSUME ~UnderPlain, dtype = "fp32"
  PROVE  RecurrenceDtype(LinearDtype) = "fp32"
  BY DEF UnderPlain, RecurrenceDtype, LinearDtype

-----------------------------------------------------------------------------
LEMMA TypesInit == Init => SInv
<1> SUFFICES ASSUME Init PROVE SInv
  OBVIOUS
<1>1. IInv
  BY InvInit
<1> QED
  BY <1>1 DEF Init, SInv, FramesInv, TypesInv, CarriedInv, RefusedForAChange, NoResult

\* Resetting, detaching, converting and moving: a carried state follows the
\* parameters.
LEMMA SBetweenCalls ==
  ASSUME SInv, NoneIsNoRecord, EnterContext \/ LeaveContext \/ Reset \/ Detach \/ Apply
  PROVE  SInv'
<1>1. IInv'
  BY BetweenCalls DEF SInv
<1>2. call' = None /\ last' = NoResult /\ net' = net
  BY DEF EnterContext, LeaveContext, Reset, Detach, Apply, ForgetResult
<1>3. CarriedInv'
  <2>1. CASE EnterContext \/ LeaveContext
    BY <2>1 DEF EnterContext, LeaveContext, SInv, CarriedInv
  <2>2. CASE Reset
    BY <1>2, <2>2 DEF Reset, ResetState, SInv, CarriedInv
  <2>3. CASE Detach
    BY <1>2, <2>3 DEF Detach, SInv, CarriedInv
  <2>4. CASE Apply
    <3>1. CASE dtype' \in Dtypes /\ hx' = Converted(hx, dtype') /\ device' = device
      BY <1>2, <3>1 DEF Converted, SInv, CarriedInv
    <3>2. CASE hx' = Moved(hx, device') /\ UNCHANGED <<dtype, plain>>
      BY <1>2, <3>2 DEF Moved, SInv, CarriedInv
    <3> QED
      BY <2>4, <3>1, <3>2 DEF Apply
  <2> QED
    BY <2>1, <2>2, <2>3, <2>4
<1> QED
  BY <1>1, <1>2, <1>3, NoCallTypes, NotRefused DEF SInv

\* The state of an FP32 layer is where its parameters are, and of the type a
\* call in FP32 asks for: only its batch, the place of the input or a plain
\* autocast can be why it is refused.
LEMMA SRefusedStep ==
  ASSUME SInv, Malformed \/ Refuse
  PROVE  SInv'
<1>1. /\ call' = None /\ UNCHANGED <<net, dtype, device, hx, fed, plain>>
  BY DEF Malformed, Refuse, Raises
<1>2. IInv' /\ CarriedInv'
  BY <1>1, BetweenCalls DEF SInv, CarriedInv
<1>3. CASE Malformed
  BY <1>1, <1>2, <1>3, NoCallTypes, NotRefused DEF Malformed, Raises, SInv
<1>4. CASE Refuse
  <2>1. PICK q \in Requests : Carries(q) /\ ~Compatible(q) /\ Raises(q, "refused")
    BY <1>4 DEF Refuse
  <2>2. last'.request = q /\ q.dtype \in Dtypes
    BY <2>1 DEF Raises, Requests
  <2>3. hx # None /\ dtype \in Dtypes
    BY <2>1 DEF Carries, SInv, IInv, CallInv
  <2>4. \/ hx.batch # q.batch
        \/ q.device # device
        \/ "bf16" \in {q.dtype, dtype}
        \/ plain /\ hx.dtype = "bf16"
    <3> SUFFICES ASSUME hx.batch = q.batch, q.device = device, "bf16" \notin {q.dtype, dtype}
                 PROVE  plain /\ hx.dtype = "bf16"
      OBVIOUS
    <3>1. q.dtype = "fp32" /\ dtype = "fp32"
      BY <2>2, <2>3 DEF Dtypes
    <3>2. StateDtype(q.dtype) = "fp32"
      BY <3>1 DEF StateDtype
    <3>3. hx.dtype # "fp32"
      BY <2>1, <2>3, <3>2 DEF Compatible, SInv, CarriedInv
    <3> QED
      BY <2>3, <3>1, <3>3 DEF SInv, CarriedInv, Dtypes
  <2>5. RefusedForAChange'
    BY <1>1, <2>2, <2>4 DEF RefusedForAChange
  <2> QED
    BY <1>1, <1>2, <2>5, NoCallTypes DEF SInv
<1> QED
  BY <1>3, <1>4

LEMMA SForwardStep ==
  ASSUME SInv, Forward
  PROVE  SInv'
<1>1. PICK q \in Requests :
        LET begin == IF q.hx = "given" THEN Explicit(q)
                     ELSE IF Carries(q) THEN hx ELSE ZeroState(q)
        IN  call' = [request |-> q, begin |-> begin, input |-> Inputs(q),
                     inputDtype |-> q.dtype, layer |-> 1, outputs |-> <<>>,
                     h |-> <<>>, c |-> <<>>, dtypes |-> {},
                     run |-> None, depth |-> Len(frames)]
  BY DEF Forward
<1>2. /\ UNCHANGED <<context, net, dtype, device, hx, fed, plain>> /\ last' = NoResult
      /\ call'.input = Inputs(q) /\ call'.outputs = <<>> /\ call'.dtypes = {}
      /\ call'.run = None /\ call'.depth = Len(frames)
  BY <1>1 DEF Forward
<1>3. q.steps \in Nat \ {0}
  BY DEF Requests
<1>4. Len(Inputs(q)) = q.steps /\ DOMAIN Inputs(q) = 1 .. q.steps
  BY <1>3 DEF Inputs
<1>5. TypesInv'
  BY <1>2, <1>3, <1>4 DEF TypesInv
<1>6. FramesInv'
  <2>1. Len(frames) \in Nat /\ frames' = frames
    BY <1>2 DEF SInv, IInv, ContextInv, ContextType, context
  <2> QED
    BY <1>2, <2>1 DEF FramesInv
<1> QED
  BY <1>2, <1>5, <1>6, ForwardStep, NotRefused DEF SInv, CarriedInv

\* What a step of a call leaves alone.
LEMMA CallStep ==
  ASSUME SInv, UNCHANGED <<net, dtype, device, hx, last, plain>>
  PROVE  CarriedInv' /\ RefusedForAChange'
  BY StaysRefused DEF SInv, CarriedInv

LEMMA SRunDirectionStep ==
  ASSUME SInv, NoneIsNoRecord, RunDirection
  PROVE  SInv'
<1>1. DOMAIN call = CallFields /\ call # None /\ call.run = None
  BY DEF RunDirection, SInv, IInv, CallInv, CallType
<1>2. /\ DOMAIN call' = CallFields /\ call'.request = call.request
      /\ call'.input = call.input /\ call'.dtypes = call.dtypes
      /\ call'.outputs = call.outputs /\ call'.depth = call.depth
      /\ call'.run.gates = "none" /\ call'.run.outputs = <<>>
      /\ UNCHANGED <<context, net, dtype, device, hx, last, plain>>
  BY <1>1 DEF RunDirection, CallFields
<1>3. <<>> \in Seq({})
  OBVIOUS
<1>4. UnderPlain => UnderPlain'
  BY <1>1, <1>2, PlainKept
<1>5. TypesInv'
  BY <1>1, <1>2, <1>3, <1>4 DEF SInv, TypesInv
<1>6. FramesInv'
  BY <1>1, <1>2, FramesKept
<1> QED
  BY <1>2, <1>5, <1>6, RunDirectionStep, CallStep DEF SInv

LEMMA SAffineStep ==
  ASSUME SInv, NoneIsNoRecord, Affine
  PROVE  SInv'
<1>1. /\ call # None /\ call.run # None /\ call.run.gates = "none"
      /\ DOMAIN call = CallFields /\ DOMAIN call.run = RunFields
      /\ Len(call.run.outputs) < Len(call.input) /\ call.request.device = device
  BY DEF Affine, Running, LinearRaises, SInv, IInv, CallInv, CallType
<1>2. /\ call' = [call EXCEPT !.run.gates = RecurrenceDtype(LinearDtype)]
      /\ UNCHANGED <<net, dtype, device, hx, last, plain>>
  BY DEF Affine
<1>3. /\ call'.request = call.request
      /\ call'.input = call.input /\ call'.dtypes = call.dtypes
      /\ call'.outputs = call.outputs /\ call'.depth = call.depth
      /\ call'.run.gates = RecurrenceDtype(LinearDtype)
      /\ call'.run.outputs = call.run.outputs /\ call'.run.dtype = call.run.dtype
  BY <1>1, <1>2 DEF CallFields, RunFields
<1>4. UnderPlain => UnderPlain'
  BY <1>1, <1>3, PlainKept DEF Affine
<1>5. dtype = "fp32" /\ ~UnderPlain => RecurrenceDtype(LinearDtype) = "fp32"
  BY GatesAreFP32
<1>6. TypesInv'
  <2>1. \E S : call'.run.outputs \in Seq(S)
    BY <1>1, <1>3 DEF SInv, TypesInv
  <2>2. ASSUME dtype = "fp32", ~UnderPlain'
        PROVE  /\ call'.dtypes \subseteq {"fp32"} /\ call'.run.gates # "bf16"
               /\ call'.run.outputs # <<>> => call'.run.dtype = "fp32"
    BY <1>1, <1>3, <1>4, <1>5, <2>2 DEF SInv, TypesInv
  <2> QED
    BY <1>1, <1>2, <1>3, <2>1, <2>2 DEF SInv, TypesInv
<1>7. FramesInv'
  <2>1. CASE IsNpuBf16AutocastActive /\ EnterTorchDisabled
    BY <2>1 DEF EnterTorchDisabled, FramesInv, IsNpuBf16AutocastActive
  <2>2. CASE UNCHANGED context
    BY <1>1, <1>3, <2>2, FramesKept
  <2> QED
    BY <2>1, <2>2 DEF Affine
<1> QED
  BY <1>2, <1>6, <1>7, AffineStep, CallStep DEF SInv

LEMMA SCellStepStep ==
  ASSUME SInv, NoneIsNoRecord, CellStep
  PROVE  SInv'
<1> DEFINE d == IF net.kind = "rnn" THEN call.run.gates
                ELSE Promoted(call.run.gates, call.run.dtype)
<1>1. /\ call # None /\ call.run # None /\ call.run.gates \in Dtypes
      /\ DOMAIN call = CallFields /\ DOMAIN call.run = RunFields
  BY DEF CellStep, Running, SInv, IInv, CallInv, CallType
<1>2. PICK h : /\ DOMAIN call' = CallFields /\ call'.request = call.request
               /\ call'.input = call.input /\ call'.dtypes = call.dtypes
               /\ call'.outputs = call.outputs /\ call'.depth = call.depth
               /\ call'.run.gates = "none" /\ call'.run.dtype = d
               /\ call'.run.outputs = Append(call.run.outputs, h)
               /\ UNCHANGED <<net, dtype, device, hx, last, plain>>
  BY <1>1 DEF CellStep, CallFields
<1>3. call.request.device = device
  BY <1>1 DEF SInv, TypesInv, Dtypes
<1>4. \E S : call'.run.outputs \in Seq(S)
  <2>1. PICK S : call.run.outputs \in Seq(S)
    BY <1>1 DEF SInv, TypesInv
  <2>2. call.run.outputs \in Seq(S \cup {h})
    BY <2>1, SeqDef
  <2>3. Append(call.run.outputs, h) \in Seq(S \cup {h})
    BY <2>2
  <2> QED
    BY <1>2, <2>3
<1>5. LeaveSurrogate
  BY DEF CellStep
<1>6. UnderPlain => UnderPlain'
  BY <1>1, <1>2, <1>5, PlainKept
<1>7. dtype = "fp32" /\ ~UnderPlain => d = "fp32"
  BY <1>1 DEF SInv, TypesInv, Promoted, Dtypes
<1>8. TypesInv'
  BY <1>1, <1>2, <1>3, <1>4, <1>6, <1>7 DEF SInv, TypesInv
<1>9. FramesInv'
  <2>1. CASE Len(frames) > call.depth
    <3>1. current' = current /\ IsNpuBf16AutocastActive
      BY <1>1, <1>5, <2>1, LeaveSurrogateKeeps DEF SInv, FramesInv
    <3> QED
      BY <3>1 DEF FramesInv, IsNpuBf16AutocastActive
  <2>2. CASE ~(Len(frames) > call.depth)
    BY <1>1, <1>2, <1>5, <2>2, FramesKept DEF LeaveSurrogate
  <2> QED
    BY <2>1, <2>2
<1> QED
  BY <1>2, <1>8, <1>9, CellStepStep, CallStep DEF SInv

LEMMA SCellRaisesStep ==
  ASSUME SInv, CellRaises
  PROVE  SInv'
<1>1. /\ call' = None
      /\ UNCHANGED <<net, dtype, device, hx, plain>> /\ last'.outcome = "raised"
  BY DEF CellRaises, Running, Raises
<1> QED
  BY <1>1, CellRaisesStep, NoCallTypes, NotRefused DEF SInv, CarriedInv

LEMMA SEndDirectionStep ==
  ASSUME SInv, NoneIsNoRecord, EndDirection
  PROVE  SInv'
<1>1. /\ call # None /\ call.run # None /\ ~Running
      /\ DOMAIN call = CallFields
  BY DEF EndDirection, SInv, IInv, CallInv, CallType
<1>2. /\ call'.request = call.request
      /\ call'.input = call.input /\ call'.run = None
      /\ call'.dtypes = call.dtypes \cup {call.run.dtype} /\ call'.depth = call.depth
      /\ UNCHANGED <<context, net, dtype, device, hx, last, plain>>
  BY <1>1 DEF EndDirection, CallFields
<1>3. call.run.outputs # <<>>
  <2>1. Len(call.run.outputs) \in Nat /\ Len(call.input) \in Nat \ {0}
    BY <1>1 DEF SInv, TypesInv
  <2> QED
    BY <1>1, <2>1 DEF Running
<1>4. UnderPlain => UnderPlain'
  BY <1>1, <1>2, PlainKept
<1>5. TypesInv'
  BY <1>1, <1>2, <1>3, <1>4 DEF SInv, TypesInv
<1>6. FramesInv'
  BY <1>1, <1>2, FramesKept
<1> QED
  BY <1>2, <1>5, <1>6, EndDirectionStep, CallStep DEF SInv

LEMMA SEndLayerStep ==
  ASSUME SInv, NoneIsNoRecord, EndLayer
  PROVE  SInv'
<1>1. /\ call # None /\ call.run = None /\ DOMAIN call = CallFields
  BY DEF EndLayer, SInv, IInv, CallInv, CallType
<1>2. /\ call'.request = call.request
      /\ call'.input = LayerOutput /\ call'.run = None
      /\ call'.dtypes = call.dtypes /\ call'.depth = call.depth /\ call'.outputs = <<>>
      /\ UNCHANGED <<context, net, dtype, device, hx, last, plain>>
  BY <1>1 DEF EndLayer, CallFields
<1>3. /\ Len(LayerOutput) = Len(call.input)
      /\ DOMAIN LayerOutput = 1 .. Len(call.input)
      /\ Len(call.input) \in Nat \ {0}
  BY <1>1 DEF SInv, TypesInv, LayerOutput
<1>4. UnderPlain => UnderPlain'
  BY <1>1, <1>2, PlainKept
<1>5. TypesInv'
  BY <1>1, <1>2, <1>3, <1>4 DEF SInv, TypesInv
<1>6. FramesInv'
  BY <1>1, <1>2, FramesKept
<1> QED
  BY <1>2, <1>5, <1>6, EndLayerStep, CallStep DEF SInv

\* What is carried on is where the call ran, and has the type of the directions
\* that ran.
LEMMA SReturnStep ==
  ASSUME SInv, Return
  PROVE  SInv'
<1>1. /\ call # None /\ call' = None /\ call.run = None /\ Direction > net.directions
      /\ UNCHANGED <<net, dtype, device>> /\ last'.outcome = "returned"
      /\ hx' = IF Commits(call.request) THEN OutputState ELSE hx
      /\ plain' = IF Commits(call.request) THEN UnderPlain ELSE plain
  BY DEF Return
<1>2. net.directions \in {1, 2}
  BY SpikingRecurrentAssumption DEF SInv, CarriedInv
<1>3. call.dtypes # {}
  <2>1. SUFFICES ASSUME call.outputs = <<>> PROVE FALSE
    BY <1>1 DEF SInv, TypesInv
  <2>2. Direction = 1
    BY <2>1 DEF Direction
  <2> QED
    BY <1>1, <1>2, <2>2
<1>4. call.request.device = device /\ OutputDtype \in Dtypes
  BY <1>1, <1>3 DEF SInv, TypesInv, OutputDtype, Dtypes
<1>5. dtype = "fp32" /\ ~UnderPlain => OutputDtype = "fp32"
  BY <1>1, <1>3 DEF SInv, TypesInv, OutputDtype
<1>6. CarriedInv'
  <2>1. CASE Commits(call.request)
    <3>1. hx' = OutputState /\ (plain' <=> UnderPlain)
      BY <1>1, <2>1
    <3>2. /\ {"dtype", "device", "batch", "attached"} \subseteq DOMAIN OutputState
          /\ OutputState.device = device /\ OutputState.dtype = OutputDtype
      BY <1>4 DEF OutputState
    <3> HIDE DEF OutputState, OutputDtype
    <3> QED
      BY <1>1, <1>4, <1>5, <3>1, <3>2 DEF SInv, CarriedInv
  <2>2. CASE ~Commits(call.request)
    BY <1>1, <2>2 DEF SInv, CarriedInv
  <2> QED
    BY <2>1, <2>2
<1> QED
  BY <1>1, <1>6, ReturnStep, NoCallTypes, NotRefused DEF SInv

LEMMA StateInvNext ==
  ASSUME NoneIsNoRecord
  PROVE  SInv /\ [Next]_vars => SInv'
<1> SUFFICES ASSUME SInv, [Next]_vars PROVE SInv'
  OBVIOUS
<1>1. CASE UNCHANGED vars
  <2>1. IInv'
    BY <1>1, InvNext DEF SInv
  <2>2. UnderPlain' = UnderPlain /\ IsNpuBf16AutocastActive' = IsNpuBf16AutocastActive
    BY <1>1 DEF vars, context, UnderPlain, Autocasts, IsNpuBf16AutocastActive
  <2>3. TypesInv'
    BY <1>1, <2>2 DEF vars, SInv, TypesInv
  <2> QED
    BY <1>1, <2>1, <2>2, <2>3 DEF vars, context, SInv, FramesInv, CarriedInv, RefusedForAChange
<1> QED
  BY <1>1, SBetweenCalls, SRefusedStep, SForwardStep, SRunDirectionStep, SAffineStep,
     SCellStepStep, SCellRaisesStep, SEndDirectionStep, SEndLayerStep, SReturnStep DEF Next

\* An FP32 layer called with FP32 inputs of one batch, where the layer is, loses
\* its carried state to nothing but a plain autocast context: not to the
\* profile, however contexts are nested, nor to resets, conversions, moves
\* between devices or exceptions.
THEOREM OnlyAChangeIsRefused ==
  ASSUME NoneIsNoRecord
  PROVE  Spec => []RefusedForAChange
<1>1. Init => SInv
  BY TypesInit
<1>2. SInv /\ [Next]_vars => SInv'
  BY StateInvNext
<1>3. SInv => RefusedForAChange
  BY DEF SInv
<1> QED
  BY <1>1, <1>2, <1>3, PTL DEF Spec

\* Induction over the numbers, for a set.
LEMMA NatInductionOnSet ==
  ASSUME NEW S, 0 \in S, \A n \in Nat : n \in S => n + 1 \in S
  PROVE  Nat \subseteq S
<1> DEFINE T == Nat \ S
           R == {ss \in Nat \X Nat : ss[1] < ss[2]}
<1> SUFFICES ASSUME T # {} PROVE FALSE
  OBVIOUS
<1>1. IsWellFoundedOn(R, Nat)
  BY NatLessThanWellFounded DEF OpToRel
<1>2. PICK x \in T : \A y \in T : <<y, x>> \notin R
  <2> HIDE DEF R
  <2> QED
    BY <1>1, WFMin
<1>3. x \in Nat /\ x # 0 /\ x \notin S
  BY <1>2
<1>4. x - 1 \in Nat /\ x - 1 < x /\ (x - 1) + 1 = x
  BY <1>3
<1>5. x - 1 \in S
  BY <1>2, <1>3, <1>4
<1> QED
  BY <1>3, <1>4, <1>5

\* A function is a sequence if its domain is that of one.
IsSequence(s) == Len(s) \in Nat /\ s = [i \in 1 .. Len(s) |-> s[i]]

LEMMA SequenceIsSeq ==
  ASSUME NEW s, IsSequence(s)
  PROVE  s \in Seq({s[i] : i \in 1 .. Len(s)}) /\ DOMAIN s = 1 .. Len(s)
<1>1. s \in [1 .. Len(s) -> {s[i] : i \in 1 .. Len(s)}]
  BY DEF IsSequence
<1> QED
  BY <1>1, SeqDef DEF IsSequence

LEMMA SeqIsSequence ==
  ASSUME NEW S, NEW s \in Seq(S)
  PROVE  IsSequence(s)
  BY DEF IsSequence

LEMMA SequenceOver ==
  ASSUME NEW s, IsSequence(s), NEW S, \A i \in 1 .. Len(s) : s[i] \in S
  PROVE  s \in Seq(S)
<1>1. s \in [1 .. Len(s) -> S] /\ Len(s) \in Nat
  BY DEF IsSequence
<1> QED
  BY <1>1, SeqDef

LEMMA SameSequence ==
  ASSUME NEW s, NEW t, IsSequence(s), IsSequence(t), Len(s) = Len(t),
         \A i \in 1 .. Len(s) : s[i] = t[i]
  PROVE  s = t
  BY DEF IsSequence

LEMMA ConcatSequence ==
  ASSUME NEW s, NEW t, IsSequence(s), IsSequence(t)
  PROVE  /\ IsSequence(s \o t) /\ Len(s \o t) = Len(s) + Len(t)
         /\ \A i \in 1 .. Len(s) : (s \o t)[i] = s[i]
         /\ \A i \in 1 .. Len(t) : (s \o t)[Len(s) + i] = t[i]
<1> DEFINE S == {s[i] : i \in 1 .. Len(s)} \cup {t[i] : i \in 1 .. Len(t)}
<1>0. /\ \A i \in 1 .. Len(s) : s[i] \in S
      /\ \A i \in 1 .. Len(t) : t[i] \in S
  OBVIOUS
<1> HIDE DEF S
<1>1. s \in Seq(S) /\ t \in Seq(S)
  BY <1>0, SequenceOver
<1>2. /\ s \o t \in Seq(S) /\ Len(s \o t) = Len(s) + Len(t)
      /\ \A i \in 1 .. Len(s) + Len(t) :
           (s \o t)[i] = IF i <= Len(s) THEN s[i] ELSE t[i - Len(s)]
  BY <1>1, ConcatProperties
<1>3. IsSequence(s \o t) /\ Len(s) \in Nat /\ Len(t) \in Nat
  BY <1>2, SeqIsSequence DEF IsSequence
<1>4. ASSUME NEW i \in 1 .. Len(t)
      PROVE  (s \o t)[Len(s) + i] = t[i]
  <2>1. Len(s) + i \in 1 .. Len(s) + Len(t) /\ ~(Len(s) + i <= Len(s)) /\ (Len(s) + i) - Len(s) = i
    BY <1>3
  <2> QED
    BY <1>2, <2>1
<1>5. ASSUME NEW i \in 1 .. Len(s)
      PROVE  (s \o t)[i] = s[i]
  BY <1>2, <1>3
<1> QED
  BY <1>2, <1>3, <1>4, <1>5

LEMMA SubSequence ==
  ASSUME NEW s, IsSequence(s), NEW m \in Nat \ {0}, NEW n \in Nat, m <= n + 1, n <= Len(s)
  PROVE  /\ IsSequence(SubSeq(s, m, n)) /\ Len(SubSeq(s, m, n)) = n - m + 1
         /\ \A i \in 1 .. n - m + 1 : SubSeq(s, m, n)[i] = s[m + i - 1]
<1>1. s \in Seq({s[i] : i \in 1 .. Len(s)}) /\ DOMAIN s = 1 .. Len(s) /\ Len(s) \in Nat
  BY SequenceIsSeq DEF IsSequence
<1>2. SubSeq(s, m, n) = [i \in 1 .. n - m + 1 |-> s[m + i - 1]]
  OBVIOUS
<1>3. n - m + 1 \in Nat
  OBVIOUS
<1> QED
  BY <1>2, <1>3 DEF IsSequence

\* What a direction marks the inputs it reads with.
Marked(l, d, read) == [t \in DOMAIN read |-> [w |-> <<l, d>>, x |-> read[t]]]

LEMMA MarkedSequence ==
  ASSUME NEW l, NEW d, NEW xs, IsSequence(xs)
  PROVE  IsSequence(Marked(l, d, xs)) /\ Len(Marked(l, d, xs)) = Len(xs)
         /\ \A i \in 1 .. Len(xs) : Marked(l, d, xs)[i] = [w |-> <<l, d>>, x |-> xs[i]]
<1>1. DOMAIN xs = 1 .. Len(xs) /\ Len(xs) \in Nat
  BY DEF IsSequence
<1> QED
  BY <1>1 DEF Marked, IsSequence

LEMMA ReverseSequence ==
  ASSUME NEW xs, IsSequence(xs)
  PROVE  /\ IsSequence(Reverse(xs)) /\ Len(Reverse(xs)) = Len(xs)
         /\ \A i \in 1 .. Len(xs) : Reverse(xs)[i] = xs[Len(xs) - i + 1]
  BY DEF Reverse, IsSequence

LEMMA ConcatAssociates ==
  ASSUME NEW s, NEW t, NEW u, IsSequence(s), IsSequence(t), IsSequence(u)
  PROVE  (s \o t) \o u = s \o (t \o u)
<1> DEFINE S == {s[i] : i \in 1 .. Len(s)} \cup {t[i] : i \in 1 .. Len(t)}
                 \cup {u[i] : i \in 1 .. Len(u)}
<1>0. /\ \A i \in 1 .. Len(s) : s[i] \in S
      /\ \A i \in 1 .. Len(t) : t[i] \in S
      /\ \A i \in 1 .. Len(u) : u[i] \in S
  OBVIOUS
<1> HIDE DEF S
<1>1. s \in Seq(S) /\ t \in Seq(S) /\ u \in Seq(S)
  BY <1>0, SequenceOver
<1> QED
  BY <1>1, ConcatAssociative

LEMMA MarkedConcat ==
  ASSUME NEW l, NEW d, NEW xs, NEW ys, IsSequence(xs), IsSequence(ys)
  PROVE  Marked(l, d, xs \o ys) = Marked(l, d, xs) \o Marked(l, d, ys)
<1> DEFINE both == xs \o ys
           mx == Marked(l, d, xs)
           my == Marked(l, d, ys)
           left == Marked(l, d, both)
           right == mx \o my
<1>1. /\ Len(xs) \in Nat /\ Len(ys) \in Nat
      /\ IsSequence(both) /\ Len(both) = Len(xs) + Len(ys)
      /\ \A i \in 1 .. Len(xs) : both[i] = xs[i]
      /\ \A i \in 1 .. Len(ys) : both[Len(xs) + i] = ys[i]
  BY ConcatSequence DEF IsSequence
<1>2. /\ IsSequence(mx) /\ Len(mx) = Len(xs)
      /\ \A i \in 1 .. Len(xs) : mx[i] = [w |-> <<l, d>>, x |-> xs[i]]
  BY MarkedSequence
<1>3. /\ IsSequence(my) /\ Len(my) = Len(ys)
      /\ \A i \in 1 .. Len(ys) : my[i] = [w |-> <<l, d>>, x |-> ys[i]]
  BY MarkedSequence
<1> HIDE DEF both, mx, my
<1>4. /\ IsSequence(left) /\ Len(left) = Len(both)
      /\ \A i \in 1 .. Len(both) : left[i] = [w |-> <<l, d>>, x |-> both[i]]
  BY <1>1, MarkedSequence
<1>5. /\ IsSequence(right) /\ Len(right) = Len(xs) + Len(ys)
      /\ \A i \in 1 .. Len(xs) : right[i] = mx[i]
      /\ \A i \in 1 .. Len(ys) : right[Len(xs) + i] = my[i]
  BY <1>2, <1>3, ConcatSequence
<1> HIDE DEF left, right
<1>6. ASSUME NEW i \in 1 .. Len(left)
      PROVE  left[i] = right[i]
  <2>1. CASE i \in 1 .. Len(xs)
    BY <1>1, <1>2, <1>4, <1>5, <2>1
  <2>2. CASE i \notin 1 .. Len(xs)
    <3>1. PICK j \in 1 .. Len(ys) : i = Len(xs) + j
      <4>1. i - Len(xs) \in 1 .. Len(ys) /\ i = Len(xs) + (i - Len(xs))
        BY <1>1, <1>4, <2>2
      <4> QED
        BY <4>1
    <3> QED
      BY <1>1, <1>3, <1>4, <1>5, <3>1
  <2> QED
    BY <2>1, <2>2
<1>7. left = right
  BY <1>1, <1>4, <1>5, <1>6, SameSequence
<1> QED
  BY <1>7 DEF left, right, both, mx, my

LEMMA ReverseConcat ==
  ASSUME NEW xs, NEW ys, IsSequence(xs), IsSequence(ys)
  PROVE  Reverse(xs \o ys) = Reverse(ys) \o Reverse(xs)
<1> DEFINE both == xs \o ys
           rx == Reverse(xs)
           ry == Reverse(ys)
           left == Reverse(both)
           right == ry \o rx
<1>1. /\ Len(xs) \in Nat /\ Len(ys) \in Nat
      /\ IsSequence(both) /\ Len(both) = Len(xs) + Len(ys)
      /\ \A i \in 1 .. Len(xs) : both[i] = xs[i]
      /\ \A i \in 1 .. Len(ys) : both[Len(xs) + i] = ys[i]
  BY ConcatSequence DEF IsSequence
<1>2. /\ IsSequence(rx) /\ Len(rx) = Len(xs)
      /\ \A i \in 1 .. Len(xs) : rx[i] = xs[Len(xs) - i + 1]
  BY ReverseSequence
<1>3. /\ IsSequence(ry) /\ Len(ry) = Len(ys)
      /\ \A i \in 1 .. Len(ys) : ry[i] = ys[Len(ys) - i + 1]
  BY ReverseSequence
<1> HIDE DEF both, rx, ry
<1>4. /\ IsSequence(left) /\ Len(left) = Len(both)
      /\ \A i \in 1 .. Len(both) : left[i] = both[Len(both) - i + 1]
  BY <1>1, ReverseSequence
<1>5. /\ IsSequence(right) /\ Len(right) = Len(xs) + Len(ys)
      /\ \A i \in 1 .. Len(ys) : right[i] = ry[i]
      /\ \A i \in 1 .. Len(xs) : right[Len(ys) + i] = rx[i]
  <2>a. IsSequence(rx)
    BY <1>2
  <2>b. IsSequence(ry)
    BY <1>3
  <2>1. /\ IsSequence(right) /\ Len(right) = Len(ry) + Len(rx)
        /\ \A i \in 1 .. Len(ry) : right[i] = ry[i]
        /\ \A i \in 1 .. Len(rx) : right[Len(ry) + i] = rx[i]
    BY <2>a, <2>b, ConcatSequence
  <2> HIDE DEF right
  <2> QED
    BY <1>1, <1>2, <1>3, <2>1
<1> HIDE DEF left, right
<1>6. ASSUME NEW i \in 1 .. Len(left)
      PROVE  left[i] = right[i]
  <2>1. CASE i \in 1 .. Len(ys)
    <3>1. PICK j \in 1 .. Len(ys) : j = Len(ys) - i + 1
      <4>1. Len(ys) - i + 1 \in 1 .. Len(ys)
        BY <1>1, <2>1
      <4> QED
        BY <4>1
    <3>2. Len(both) - i + 1 = Len(xs) + j
      BY <1>1, <2>1, <3>1
    <3>3. left[i] = ys[j]
      BY <1>1, <1>4, <3>2
    <3>4. right[i] = ys[j]
      BY <1>3, <1>5, <2>1, <3>1
    <3> QED
      BY <3>3, <3>4
  <2>2. CASE i \notin 1 .. Len(ys)
    <3>1. PICK j \in 1 .. Len(xs) : i = Len(ys) + j
      <4>1. i - Len(ys) \in 1 .. Len(xs) /\ i = Len(ys) + (i - Len(ys))
        BY <1>1, <1>4, <2>2
      <4> QED
        BY <4>1
    <3>2. Len(both) - i + 1 = Len(xs) - j + 1 /\ Len(xs) - j + 1 \in 1 .. Len(xs)
      BY <1>1, <3>1
    <3> QED
      BY <1>1, <1>2, <1>4, <1>5, <3>1, <3>2
  <2> QED
    BY <2>1, <2>2
<1>7. left = right
  BY <1>1, <1>4, <1>5, <1>6, SameSequence
<1> QED
  BY <1>7 DEF left, right, both, rx, ry

-----------------------------------------------------------------------------
(* Rows.                                                                   *)

IsRow(row) == DOMAIN row = {"part", "start", "fed"} /\ IsSequence(row.fed)
              /\ row = [part |-> row.part, start |-> row.start, fed |-> row.fed]

LEMMA StartRow ==
  ASSUME NEW part, NEW where
  PROVE  IsRow(Row(part, where))
  BY DEF Row, IsRow, IsSequence

\* What a direction reads, in its order.
InItsOrder(d, xs) == IF d = 1 THEN xs ELSE Reverse(xs)

LEMMA ReadingRow ==
  ASSUME NEW row, IsRow(row), NEW l, NEW d, NEW xs, IsSequence(xs)
  PROVE  /\ IsRow(AfterReading(row, l, d, xs))
         /\ AfterReading(row, l, d, xs) =
              [part |-> row.part, start |-> row.start,
               fed |-> row.fed \o Marked(l, d, InItsOrder(d, xs))]
<1>1. IsSequence(InItsOrder(d, xs))
  BY ReverseSequence DEF InItsOrder
<1>2. AfterReading(row, l, d, xs) = [row EXCEPT !.fed = @ \o Marked(l, d, InItsOrder(d, xs))]
  BY DEF AfterReading, Marked, InItsOrder
<1>3. IsSequence(row.fed \o Marked(l, d, InItsOrder(d, xs)))
  BY <1>1, MarkedSequence, ConcatSequence DEF IsRow
<1> QED
  BY <1>2, <1>3 DEF IsRow

\* Reading twice is reading once, for a backward direction from the end.
LEMMA ReadingOn ==
  ASSUME NEW row, IsRow(row), NEW l, NEW d, NEW xs, NEW ys, IsSequence(xs), IsSequence(ys)
  PROVE  AfterReading(AfterReading(row, l, d, xs), l, d, ys) =
           AfterReading(row, l, d, IF d = 1 THEN xs \o ys ELSE ys \o xs)
<1> DEFINE first == Marked(l, d, InItsOrder(d, xs))
           second == Marked(l, d, InItsOrder(d, ys))
           both == IF d = 1 THEN xs \o ys ELSE ys \o xs
<1>1. IsSequence(both) /\ InItsOrder(d, both) = InItsOrder(d, xs) \o InItsOrder(d, ys)
  BY ConcatSequence, ReverseConcat DEF InItsOrder
<1>2. IsSequence(InItsOrder(d, xs)) /\ IsSequence(InItsOrder(d, ys))
  BY ReverseSequence DEF InItsOrder
<1>3. IsSequence(first) /\ IsSequence(second) /\ IsSequence(row.fed)
  BY <1>2, MarkedSequence DEF IsRow
<1>4. Marked(l, d, InItsOrder(d, both)) = first \o second
  <2> DEFINE a == InItsOrder(d, xs)
             b == InItsOrder(d, ys)
  <2> HIDE DEF a, b
  <2>1. Marked(l, d, a \o b) = Marked(l, d, a) \o Marked(l, d, b)
    BY <1>2, MarkedConcat DEF a, b
  <2> QED
    BY <1>1, <2>1 DEF a, b
<1> HIDE DEF first, second, both
<1>5. (row.fed \o first) \o second = row.fed \o (first \o second)
  <2> DEFINE had == row.fed
  <2> HIDE DEF had
  <2>1. IsSequence(had)
    BY <1>3 DEF had
  <2>a. IsSequence(first)
    BY <1>3
  <2>b. IsSequence(second)
    BY <1>3
  <2>2. (had \o first) \o second = had \o (first \o second)
    BY <2>1, <2>a, <2>b, ConcatAssociates
  <2> QED
    BY <2>2 DEF had
<1>6. AfterReading(row, l, d, xs) = [part |-> row.part, start |-> row.start, fed |-> row.fed \o first]
      /\ IsRow(AfterReading(row, l, d, xs))
  BY ReadingRow DEF first
<1>7. AfterReading(AfterReading(row, l, d, xs), l, d, ys) =
        [part |-> row.part, start |-> row.start, fed |-> (row.fed \o first) \o second]
  <2> DEFINE next == AfterReading(row, l, d, xs)
  <2>1. IsRow(next) /\ next.part = row.part /\ next.start = row.start
        /\ next.fed = row.fed \o first
    BY <1>6
  <2> HIDE DEF next
  <2>a. IsRow(next)
    BY <2>1
  <2>2. AfterReading(next, l, d, ys) =
          [part |-> next.part, start |-> next.start,
           fed |-> next.fed \o Marked(l, d, InItsOrder(d, ys))]
    BY <2>a, ReadingRow
  <2>3. AfterReading(next, l, d, ys) =
          [part |-> row.part, start |-> row.start, fed |-> (row.fed \o first) \o second]
    BY <2>1, <2>2 DEF second
  <2> QED
    BY <2>3 DEF next
<1>8. AfterReading(row, l, d, both) =
        [part |-> row.part, start |-> row.start, fed |-> row.fed \o (first \o second)]
  BY <1>1, <1>4, ReadingRow
<1> QED
  BY <1>5, <1>7, <1>8 DEF both

LEMMA ReadingNothing ==
  ASSUME NEW row, IsRow(row), NEW l, NEW d
  PROVE  AfterReading(row, l, d, <<>>) = row
<1>1. IsSequence(<<>>) /\ Len(<<>>) = 0
  BY DEF IsSequence
<1>2. Marked(l, d, InItsOrder(d, <<>>)) = <<>>
  BY <1>1 DEF Marked, InItsOrder, Reverse
<1>3. row.fed \o <<>> = row.fed
  BY SequenceIsSeq, ConcatEmptySeq DEF IsRow
<1>4. AfterReading(row, l, d, <<>>) =
        [part |-> row.part, start |-> row.start,
         fed |-> row.fed \o Marked(l, d, InItsOrder(d, <<>>))]
  BY <1>1, ReadingRow
<1> QED
  BY <1>2, <1>3, <1>4 DEF IsRow

-----------------------------------------------------------------------------
(* A direction, input by input.                                            *)

\* The inputs ReadTo has read.
ReadOf(d, xs, k) ==
  IF d = 1 THEN SubSeq(xs, 1, k) ELSE SubSeq(xs, Len(xs) - k + 1, Len(xs))

LEMMA ReadOfSequence ==
  ASSUME NEW d, NEW xs, IsSequence(xs), NEW k \in 0 .. Len(xs)
  PROVE  IsSequence(ReadOf(d, xs, k)) /\ Len(ReadOf(d, xs, k)) = k
<1>1. Len(xs) \in Nat
  BY DEF IsSequence
<1>2. CASE d = 1
  <2>1. IsSequence(SubSeq(xs, 1, k)) /\ Len(SubSeq(xs, 1, k)) = k - 1 + 1
    BY <1>1, SubSequence
  <2> QED
    BY <1>1, <1>2, <2>1 DEF ReadOf
<1>3. CASE d # 1
  <2> DEFINE m == Len(xs) - k + 1
  <2>1. m \in Nat \ {0} /\ m <= Len(xs) + 1 /\ Len(xs) - m + 1 = k
    BY <1>1
  <2> HIDE DEF m
  <2>2. IsSequence(SubSeq(xs, m, Len(xs))) /\ Len(SubSeq(xs, m, Len(xs))) = Len(xs) - m + 1
    BY <1>1, <2>1, SubSequence
  <2> QED
    BY <1>3, <2>1, <2>2 DEF ReadOf, m
<1> QED
  BY <1>2, <1>3

LEMMA OneSequence ==
  ASSUME NEW x
  PROVE  IsSequence(<<x>>) /\ Len(<<x>>) = 1 /\ <<x>>[1] = x
  BY DEF IsSequence

\* Reading one input more.
LEMMA ReadOfNext ==
  ASSUME NEW d, NEW xs, IsSequence(xs), NEW k \in 0 .. Len(xs) - 1
  PROVE  LET x == xs[IF d = 1 THEN k + 1 ELSE Len(xs) - k]
         IN  ReadOf(d, xs, k + 1) =
               IF d = 1 THEN ReadOf(d, xs, k) \o <<x>> ELSE <<x>> \o ReadOf(d, xs, k)
<1>1. Len(xs) \in Nat
  BY DEF IsSequence
<1> DEFINE x == xs[IF d = 1 THEN k + 1 ELSE Len(xs) - k]
           old == ReadOf(d, xs, k)
           one == <<x>>
<1>2. IsSequence(old) /\ Len(old) = k
  BY <1>1, ReadOfSequence
<1>3. IsSequence(one) /\ Len(one) = 1 /\ one[1] = x
  BY OneSequence
<1>4. k + 1 \in 0 .. Len(xs)
  BY <1>1
<1>5. IsSequence(ReadOf(d, xs, k + 1)) /\ Len(ReadOf(d, xs, k + 1)) = k + 1
  BY <1>4, ReadOfSequence
<1>6. CASE d = 1
  <2> HIDE DEF old, one
  <2> DEFINE right == old \o one
             left == ReadOf(d, xs, k + 1)
  <2>a. IsSequence(old)
    BY <1>2
  <2>b. IsSequence(one)
    BY <1>3
  <2>1. /\ IsSequence(right) /\ Len(right) = Len(old) + Len(one)
        /\ \A i \in 1 .. Len(old) : right[i] = old[i]
        /\ \A i \in 1 .. Len(one) : right[Len(old) + i] = one[i]
    BY <2>a, <2>b, ConcatSequence
  <2>2. left = [i \in 1 .. k + 1 |-> xs[1 + i - 1]]
    <3>1. (k + 1) - 1 + 1 = k + 1
      OBVIOUS
    <3> QED
      BY <1>6, <3>1 DEF ReadOf
  <2>3. old = [i \in 1 .. k |-> xs[1 + i - 1]]
    <3>1. k - 1 + 1 = k
      OBVIOUS
    <3> QED
      BY <1>6, <3>1 DEF ReadOf, old
  <2> HIDE DEF left, right
  <2>4. Len(left) = k + 1 /\ Len(right) = k + 1 /\ IsSequence(left)
    BY <1>2, <1>3, <1>5, <2>1 DEF left
  <2>5. ASSUME NEW i \in 1 .. Len(left)
        PROVE  left[i] = right[i]
    <3>1. CASE i \in 1 .. k
      BY <1>2, <2>1, <2>2, <2>3, <2>4, <3>1
    <3>2. CASE i = k + 1
      <4>1. left[i] = xs[k + 1]
        BY <2>2, <2>4, <3>2
      <4>2. right[i] = one[1]
        BY <1>2, <1>3, <2>1, <3>2
      <4> QED
        BY <1>3, <1>6, <4>1, <4>2
    <3> QED
      BY <2>4, <3>1, <3>2
  <2>6. left = right
    BY <2>1, <2>4, <2>5, SameSequence
  <2> QED
    BY <1>6, <2>6 DEF left, right, old, one
<1>7. CASE d # 1
  <2> HIDE DEF old, one
  <2> DEFINE right == one \o old
             left == ReadOf(d, xs, k + 1)
  <2>a. IsSequence(old)
    BY <1>2
  <2>b. IsSequence(one)
    BY <1>3
  <2>1. /\ IsSequence(right) /\ Len(right) = Len(one) + Len(old)
        /\ \A i \in 1 .. Len(one) : right[i] = one[i]
        /\ \A i \in 1 .. Len(old) : right[Len(one) + i] = old[i]
    BY <2>a, <2>b, ConcatSequence
  <2>2. left = [i \in 1 .. k + 1 |-> xs[Len(xs) - k + i - 1]]
    <3>1. /\ Len(xs) - (k + 1) + 1 = Len(xs) - k
          /\ Len(xs) - (Len(xs) - k) + 1 = k + 1
      BY <1>1
    <3> QED
      BY <1>7, <3>1 DEF ReadOf
  <2>3. old = [i \in 1 .. k |-> xs[Len(xs) - k + 1 + i - 1]]
    <3>1. Len(xs) - (Len(xs) - k + 1) + 1 = k
      BY <1>1
    <3> QED
      BY <1>7, <3>1 DEF ReadOf, old
  <2> HIDE DEF left, right
  <2>4. Len(left) = k + 1 /\ Len(right) = k + 1 /\ IsSequence(left)
    BY <1>2, <1>3, <1>5, <2>1 DEF left
  <2>5. ASSUME NEW i \in 1 .. Len(left)
        PROVE  left[i] = right[i]
    <3>1. CASE i = 1
      <4>1. left[i] = xs[Len(xs) - k]
        BY <1>1, <2>2, <2>4, <3>1
      <4> QED
        BY <1>3, <1>7, <2>1, <3>1, <4>1
    <3>2. CASE i # 1
      <4>1. PICK j \in 1 .. k : i = 1 + j
        <5>1. i - 1 \in 1 .. k /\ i = 1 + (i - 1)
          BY <2>4, <3>2
        <5> QED
          BY <5>1
      <4>2. left[i] = xs[Len(xs) - k + j]
        <5>1. Len(xs) - k + i - 1 = Len(xs) - k + j
          BY <1>1, <4>1
        <5> QED
          BY <2>2, <2>4, <5>1
      <4>3. old[j] = xs[Len(xs) - k + j]
        <5>1. Len(xs) - k + 1 + j - 1 = Len(xs) - k + j
          BY <1>1
        <5> QED
          BY <2>3, <5>1
      <4>4. right[i] = old[j]
        BY <1>2, <1>3, <2>1, <4>1
      <4> QED
        BY <4>2, <4>3, <4>4
    <3> QED
      BY <3>1, <3>2
  <2>6. left = right
    BY <2>1, <2>4, <2>5, SameSequence
  <2> QED
    BY <1>7, <2>6 DEF left, right, old, one
<1> QED
  BY <1>6, <1>7

LEMMA ReadToIsReading ==
  ASSUME NEW row, NEW l, NEW d, NEW xs, NEW k
  PROVE  ReadTo(row, l, d, xs, k) = AfterReading(row, l, d, ReadOf(d, xs, k))
  BY DEF ReadTo, ReadOf

LEMMA ReadToRow ==
  ASSUME NEW row, IsRow(row), NEW l, NEW d, NEW xs, IsSequence(xs), NEW k \in 0 .. Len(xs)
  PROVE  IsRow(ReadTo(row, l, d, xs, k))
<1>1. IsSequence(ReadOf(d, xs, k))
  BY ReadOfSequence
<1> QED
  BY <1>1, ReadingRow, ReadToIsReading

LEMMA EmptyIsEmpty ==
  ASSUME NEW xs, IsSequence(xs), Len(xs) = 0
  PROVE  xs = <<>>
<1>1. IsSequence(<<>>) /\ Len(<<>>) = 0
  BY DEF IsSequence
<1> QED
  BY <1>1, SameSequence

LEMMA ReadToNone ==
  ASSUME NEW row, IsRow(row), NEW l, NEW d, NEW xs, IsSequence(xs)
  PROVE  ReadTo(row, l, d, xs, 0) = row
<1>1. 0 \in 0 .. Len(xs)
  BY DEF IsSequence
<1>2. ReadOf(d, xs, 0) = <<>>
  BY <1>1, ReadOfSequence, EmptyIsEmpty
<1> QED
  BY <1>2, ReadToIsReading, ReadingNothing

LEMMA ReadToNext ==
  ASSUME NEW row, IsRow(row), NEW l, NEW d, NEW xs, IsSequence(xs), NEW k \in 0 .. Len(xs) - 1
  PROVE  ReadTo(row, l, d, xs, k + 1) =
           AfterReading(ReadTo(row, l, d, xs, k), l, d,
                        <<xs[IF d = 1 THEN k + 1 ELSE Len(xs) - k]>>)
<1> DEFINE one == <<xs[IF d = 1 THEN k + 1 ELSE Len(xs) - k]>>
           old == ReadOf(d, xs, k)
<1>1. k \in 0 .. Len(xs)
  BY DEF IsSequence
<1>2. IsSequence(old)
  BY <1>1, ReadOfSequence
<1>3. IsSequence(one)
  BY OneSequence
<1>4. ReadOf(d, xs, k + 1) = IF d = 1 THEN old \o one ELSE one \o old
  BY ReadOfNext
<1> HIDE DEF one, old
<1>5. AfterReading(AfterReading(row, l, d, old), l, d, one) =
        AfterReading(row, l, d, IF d = 1 THEN old \o one ELSE one \o old)
  BY <1>2, <1>3, ReadingOn
<1> QED
  BY <1>4, <1>5, ReadToIsReading DEF one, old

LEMMA ReadToAll ==
  ASSUME NEW row, NEW l, NEW d, NEW xs, IsSequence(xs)
  PROVE  ReadTo(row, l, d, xs, Len(xs)) = AfterReading(row, l, d, xs)
<1>1. Len(xs) \in 0 .. Len(xs)
  BY DEF IsSequence
<1>2. ReadOf(d, xs, Len(xs)) = xs
  <2> DEFINE all == ReadOf(d, xs, Len(xs))
  <2>1. IsSequence(all) /\ Len(all) = Len(xs) /\ Len(xs) \in Nat
    BY <1>1, ReadOfSequence DEF IsSequence
  <2>2. all = [i \in 1 .. Len(xs) |-> xs[1 + i - 1]]
    <3>1. Len(xs) - 1 + 1 = Len(xs) /\ Len(xs) - Len(xs) + 1 = 1
      BY <2>1
    <3> QED
      BY <3>1 DEF ReadOf
  <2> HIDE DEF all
  <2>3. ASSUME NEW i \in 1 .. Len(all) PROVE all[i] = xs[i]
    BY <2>1, <2>2
  <2>4. all = xs
    BY <2>1, <2>3, SameSequence
  <2> QED
    BY <2>4 DEF all
<1> QED
  BY <1>2, ReadToIsReading

-----------------------------------------------------------------------------
(* Layers.                                                                 *)

\* The defining equations of the recursive function.
LEMMA LayerInputsDef ==
  ASSUME NEW nw, nw.layers \in Nat, NEW start, NEW xs
  PROVE  /\ LayerInputs(nw, start, xs)[1] = xs
         /\ \A l \in 1 .. nw.layers :
              LayerInputs(nw, start, xs)[l + 1] =
                LayerOf(nw, start, l, LayerInputs(nw, start, xs)[l])
<1> DEFINE n == nw.layers
           body(g, l) == IF l = 1 THEN xs ELSE LayerOf(nw, start, l - 1, g[l - 1])
           Defined == {m \in Nat : \E g : g = [l \in 1 .. m |-> body(g, l)]}
<1>1. 0 \in Defined
  <2>1. <<>> = [l \in 1 .. 0 |-> body(<<>>, l)]
    OBVIOUS
  <2> QED
    BY <2>1
<1>2. ASSUME NEW m \in Nat, m \in Defined
      PROVE  m + 1 \in Defined
  <2>1. PICK g : g = [l \in 1 .. m |-> body(g, l)]
    BY <1>2
  <2> DEFINE h == [l \in 1 .. m + 1 |-> body(g, l)]
  <2>2. \A l \in 1 .. m : g[l] = body(g, l)
    BY <2>1
  <2>3. \A l \in 1 .. m : h[l] = body(g, l)
    OBVIOUS
  <2>4. ASSUME NEW l \in 1 .. m + 1
        PROVE  body(g, l) = body(h, l)
    <3>1. CASE l = 1
      BY <3>1
    <3>2. CASE l # 1
      <4>1. l - 1 \in 1 .. m
        BY <3>2
      <4>2. g[l - 1] = h[l - 1]
        BY <2>2, <2>3, <4>1
      <4> QED
        BY <4>2
    <3> QED
      BY <3>1, <3>2
  <2>5. h = [l \in 1 .. m + 1 |-> body(h, l)]
    BY <2>4
  <2> HIDE DEF h
  <2> QED
    BY <2>5
<1>3. n + 1 \in Defined
  <2> HIDE DEF Defined
  <2> QED
    BY <1>1, <1>2, NatInductionOnSet
<1>4. PICK g : g = [l \in 1 .. n + 1 |-> body(g, l)]
  BY <1>3
<1>5. LayerInputs(nw, start, xs) =
        [l \in 1 .. n + 1 |-> body(LayerInputs(nw, start, xs), l)]
  BY <1>4 DEF LayerInputs
<1> DEFINE inputs == LayerInputs(nw, start, xs)
<1>6. inputs = [l \in 1 .. n + 1 |-> body(inputs, l)]
  BY <1>5
<1> HIDE DEF inputs
<1>7. inputs[1] = xs
  <2>1. 1 \in 1 .. n + 1
    OBVIOUS
  <2> QED
    BY <1>6, <2>1
<1>8. ASSUME NEW l \in 1 .. nw.layers
      PROVE  inputs[l + 1] = LayerOf(nw, start, l, inputs[l])
  <2>1. l + 1 \in 1 .. n + 1 /\ l + 1 # 1 /\ (l + 1) - 1 = l
    OBVIOUS
  <2>2. inputs[l + 1] = body(inputs, l + 1)
    BY <1>6, <2>1
  <2> QED
    BY <2>1, <2>2
<1> QED
  BY <1>7, <1>8 DEF inputs

\* The networks the references are about.
IsNet(nw) == nw.layers \in Nat \ {0} /\ nw.directions \in {1, 2}

LEMMA LayerOfSequence ==
  ASSUME NEW nw, NEW start, NEW l, NEW xs, IsSequence(xs)
  PROVE  IsSequence(LayerOf(nw, start, l, xs)) /\ Len(LayerOf(nw, start, l, xs)) = Len(xs)
<1>1. DOMAIN xs = 1 .. Len(xs) /\ Len(xs) \in Nat
  BY SequenceIsSeq DEF IsSequence
<1> QED
  BY <1>1 DEF LayerOf, IsSequence

LEMMA LayersAreSequences ==
  ASSUME NEW nw, IsNet(nw), NEW start, NEW xs, IsSequence(xs)
  PROVE  \A l \in 1 .. nw.layers + 1 :
           /\ IsSequence(LayerInputs(nw, start, xs)[l])
           /\ Len(LayerInputs(nw, start, xs)[l]) = Len(xs)
<1> DEFINE inputs == LayerInputs(nw, start, xs)
           Good == {m \in Nat : m \in 1 .. nw.layers + 1 =>
                      IsSequence(inputs[m]) /\ Len(inputs[m]) = Len(xs)}
<1>0. nw.layers \in Nat
  BY DEF IsNet
<1>1. inputs[1] = xs /\ \A l \in 1 .. nw.layers : inputs[l + 1] = LayerOf(nw, start, l, inputs[l])
  BY <1>0, LayerInputsDef
<1> HIDE DEF inputs
<1>2. 0 \in Good
  BY <1>0
<1>3. ASSUME NEW m \in Nat, m \in Good
      PROVE  m + 1 \in Good
  <2> SUFFICES ASSUME m + 1 \in 1 .. nw.layers + 1
               PROVE  IsSequence(inputs[m + 1]) /\ Len(inputs[m + 1]) = Len(xs)
    OBVIOUS
  <2>1. CASE m = 0
    BY <1>1, <2>1
  <2>2. CASE m # 0
    <3>1. m \in 1 .. nw.layers /\ m \in 1 .. nw.layers + 1
      BY <1>0, <2>2
    <3>2. inputs[m + 1] = LayerOf(nw, start, m, inputs[m])
      BY <1>1, <3>1
    <3>3. IsSequence(inputs[m])
      BY <1>3, <3>1
    <3>4. Len(inputs[m]) = Len(xs)
      BY <1>3, <3>1
    <3>5. IsSequence(LayerOf(nw, start, m, inputs[m])) /\ Len(LayerOf(nw, start, m, inputs[m])) = Len(inputs[m])
      BY <3>3, LayerOfSequence
    <3> QED
      BY <3>2, <3>4, <3>5
  <2> QED
    BY <2>1, <2>2
<1>4. Nat \subseteq Good
  <2> HIDE DEF Good
  <2> QED
    BY <1>2, <1>3, NatInductionOnSet
<1>5. \A l \in 1 .. nw.layers + 1 : IsSequence(inputs[l]) /\ Len(inputs[l]) = Len(xs)
  BY <1>0, <1>4
<1> QED
  BY <1>5 DEF inputs

\* State indexes and directions of layers, one to one.
LayerOfIndex(nw, i) == ((i - 1) \div nw.directions) + 1
DirectionOfIndex(nw, i) == ((i - 1) % nw.directions) + 1

LEMMA IndexRange ==
  ASSUME NEW nw, IsNet(nw), NEW l \in 1 .. nw.layers, NEW d \in 1 .. nw.directions
  PROVE  /\ StateIndexOf(nw, l, d) \in 1 .. nw.layers * nw.directions
         /\ LayerOfIndex(nw, StateIndexOf(nw, l, d)) = l
         /\ DirectionOfIndex(nw, StateIndexOf(nw, l, d)) = d
<1>1. CASE nw.directions = 1
  BY <1>1 DEF IsNet, StateIndexOf, LayerOfIndex, DirectionOfIndex
<1>2. CASE nw.directions = 2
  BY <1>2 DEF IsNet, StateIndexOf, LayerOfIndex, DirectionOfIndex
<1> QED
  BY <1>1, <1>2 DEF IsNet

LEMMA IndexIsOf ==
  ASSUME NEW nw, IsNet(nw), NEW i \in 1 .. nw.layers * nw.directions
  PROVE  /\ LayerOfIndex(nw, i) \in 1 .. nw.layers
         /\ DirectionOfIndex(nw, i) \in 1 .. nw.directions
         /\ StateIndexOf(nw, LayerOfIndex(nw, i), DirectionOfIndex(nw, i)) = i
<1>1. CASE nw.directions = 1
  BY <1>1 DEF IsNet, StateIndexOf, LayerOfIndex, DirectionOfIndex
<1>2. CASE nw.directions = 2
  BY <1>2 DEF IsNet, StateIndexOf, LayerOfIndex, DirectionOfIndex
<1> QED
  BY <1>1, <1>2 DEF IsNet

LEMMA FinalIsReading ==
  ASSUME NEW nw, IsNet(nw), NEW start, NEW xs
  PROVE  /\ ReferenceFinal(nw, start, xs) =
              [i \in 1 .. nw.layers * nw.directions |-> ReferenceFinal(nw, start, xs)[i]]
         /\ \A i \in 1 .. nw.layers * nw.directions :
              ReferenceFinal(nw, start, xs)[i] =
                AfterReading(start[i], LayerOfIndex(nw, i), DirectionOfIndex(nw, i),
                             LayerInputs(nw, start, xs)[LayerOfIndex(nw, i)])
  BY DEF ReferenceFinal, LayerOfIndex, DirectionOfIndex

AreRows(nw, rows) == \A i \in 1 .. nw.layers * nw.directions : IsRow(rows[i])

LEMMA FinalRows ==
  ASSUME NEW nw, IsNet(nw), NEW start, NEW xs, IsSequence(xs),
         AreRows(nw, start)
  PROVE  AreRows(nw, ReferenceFinal(nw, start, xs))
<1> SUFFICES ASSUME NEW i \in 1 .. nw.layers * nw.directions
             PROVE  IsRow(ReferenceFinal(nw, start, xs)[i])
  BY DEF AreRows
<1> DEFINE l == LayerOfIndex(nw, i)
           d == DirectionOfIndex(nw, i)
           input == LayerInputs(nw, start, xs)[l]
           row == start[i]
<1>1. l \in 1 .. nw.layers + 1
  BY IndexIsOf DEF IsNet
<1>2. IsSequence(input)
  BY <1>1, LayersAreSequences
<1>3. IsRow(row)
  BY DEF AreRows
<1>4. ReferenceFinal(nw, start, xs)[i] = AfterReading(row, l, d, input)
  BY FinalIsReading
<1> HIDE DEF row, l, d, input
<1>5. IsRow(AfterReading(row, l, d, input))
  BY <1>2, <1>3, ReadingRow
<1> QED
  BY <1>4, <1>5

-----------------------------------------------------------------------------
(* One sequence in two parts, forwards.                                    *)

LEMMA ReadOfFirst ==
  ASSUME NEW xs, NEW ys, IsSequence(xs), IsSequence(ys), NEW t \in 0 .. Len(xs)
  PROVE  ReadOf(1, xs \o ys, t) = ReadOf(1, xs, t)
<1> DEFINE both == xs \o ys
<1>1. /\ Len(xs) \in Nat /\ Len(ys) \in Nat
      /\ IsSequence(both) /\ Len(both) = Len(xs) + Len(ys)
      /\ \A i \in 1 .. Len(xs) : both[i] = xs[i]
  BY ConcatSequence DEF IsSequence
<1> HIDE DEF both
<1>2. t - 1 + 1 = t /\ \A i \in 1 .. t : 1 + i - 1 = i /\ i \in 1 .. Len(xs)
  BY <1>1
<1>3. SubSeq(both, 1, t) = [i \in 1 .. t |-> both[1 + i - 1]]
  BY <1>2
<1>4. SubSeq(xs, 1, t) = [i \in 1 .. t |-> xs[1 + i - 1]]
  BY <1>2
<1>5. SubSeq(both, 1, t) = SubSeq(xs, 1, t)
  BY <1>1, <1>2, <1>3, <1>4
<1> QED
  BY <1>5 DEF ReadOf, both

LEMMA ReadOfSecond ==
  ASSUME NEW xs, NEW ys, IsSequence(xs), IsSequence(ys), NEW t \in 0 .. Len(ys)
  PROVE  ReadOf(1, xs \o ys, Len(xs) + t) = xs \o ReadOf(1, ys, t)
<1> DEFINE both == xs \o ys
           some == ReadOf(1, ys, t)
           left == ReadOf(1, both, Len(xs) + t)
           right == xs \o some
<1>1. /\ Len(xs) \in Nat /\ Len(ys) \in Nat
      /\ IsSequence(both) /\ Len(both) = Len(xs) + Len(ys)
      /\ \A i \in 1 .. Len(xs) : both[i] = xs[i]
      /\ \A i \in 1 .. Len(ys) : both[Len(xs) + i] = ys[i]
  BY ConcatSequence DEF IsSequence
<1>2. IsSequence(some) /\ Len(some) = t
  BY ReadOfSequence
<1>3. \A i \in 1 .. t : some[i] = ys[i]
  <2>1. some = [i \in 1 .. t - 1 + 1 |-> ys[1 + i - 1]]
    BY DEF ReadOf
  <2>2. \A i \in 1 .. t : i \in 1 .. t - 1 + 1 /\ 1 + i - 1 = i
    BY <1>1
  <2> QED
    BY <2>1, <2>2
<1> HIDE DEF both, some
<1>a. IsSequence(both)
  BY <1>1
<1>b. Len(xs) + t \in 0 .. Len(both)
  BY <1>1
<1>c. IsSequence(some)
  BY <1>2
<1>4. IsSequence(left) /\ Len(left) = Len(xs) + t
  BY <1>a, <1>b, ReadOfSequence
<1>5. /\ IsSequence(right) /\ Len(right) = Len(xs) + Len(some)
      /\ \A i \in 1 .. Len(xs) : right[i] = xs[i]
      /\ \A i \in 1 .. Len(some) : right[Len(xs) + i] = some[i]
  BY <1>c, ConcatSequence
<1>6. left = [i \in 1 .. Len(xs) + t |-> both[i]]
  <2>1. left = [i \in 1 .. (Len(xs) + t) - 1 + 1 |-> both[1 + i - 1]]
    BY DEF ReadOf
  <2>2. (Len(xs) + t) - 1 + 1 = Len(xs) + t /\ \A i \in 1 .. Len(xs) + t : 1 + i - 1 = i
    BY <1>1
  <2> HIDE DEF left
  <2> QED
    BY <2>1, <2>2
<1> HIDE DEF left, right
<1>7. ASSUME NEW i \in 1 .. Len(left)
      PROVE  left[i] = right[i]
  <2>1. left[i] = both[i]
    BY <1>4, <1>6
  <2>2. CASE i \in 1 .. Len(xs)
    BY <1>1, <1>5, <2>1, <2>2
  <2>3. CASE i \notin 1 .. Len(xs)
    <3>1. PICK j \in 1 .. t : i = Len(xs) + j
      <4>1. i - Len(xs) \in 1 .. t /\ i = Len(xs) + (i - Len(xs))
        BY <1>1, <1>4, <2>3
      <4> QED
        BY <4>1
    <3>2. j \in 1 .. Len(ys)
      BY <1>1
    <3> QED
      BY <1>1, <1>2, <1>3, <1>5, <2>1, <3>1, <3>2
  <2> QED
    BY <2>2, <2>3
<1>8. left = right
  BY <1>2, <1>4, <1>5, <1>7, SameSequence
<1> QED
  BY <1>8 DEF left, right, both, some

\* What a forward layer makes of an input: its row there.
ForwardPart(nw, l, row) ==
  [parts |-> [d \in {1} |-> row], dropped |-> nw.dropout /\ l < nw.layers]

LEMMA ForwardLayer ==
  ASSUME NEW nw, nw.directions = 1, NEW start, NEW l \in Nat \ {0},
         NEW xs, IsSequence(xs)
  PROVE  \A t \in 1 .. Len(xs) :
           LayerOf(nw, start, l, xs)[t] = ForwardPart(nw, l, ReadTo(start[l], l, 1, xs, t))
<1> TAKE t \in 1 .. Len(xs)
<1>1. DOMAIN xs = 1 .. Len(xs)
  BY DEF IsSequence
<1>2. StateIndexOf(nw, l, 1) = l
  BY DEF StateIndexOf
<1>3. 1 .. nw.directions = {1}
  OBVIOUS
<1>4. [d \in 1 .. nw.directions |->
         ReadTo(start[StateIndexOf(nw, l, d)], l, d, xs, IF d = 1 THEN t ELSE Len(xs) - t + 1)]
      = [d \in {1} |-> ReadTo(start[l], l, 1, xs, t)]
  BY <1>2, <1>3
<1> QED
  BY <1>1, <1>4 DEF LayerOf, ForwardPart

\* One direction's row after one of two parts.
LEMMA LayerOfConcat ==
  ASSUME NEW nw, nw.directions = 1, NEW start, NEW next, NEW l \in Nat \ {0},
         NEW xs, NEW ys, IsSequence(xs), IsSequence(ys), IsRow(start[l]),
         next[l] = AfterReading(start[l], l, 1, xs)
  PROVE  LayerOf(nw, start, l, xs \o ys) = LayerOf(nw, start, l, xs) \o LayerOf(nw, next, l, ys)
<1> DEFINE both == xs \o ys
           one == LayerOf(nw, start, l, xs)
           two == LayerOf(nw, next, l, ys)
           left == LayerOf(nw, start, l, both)
           right == one \o two
           row == start[l]
           mid == next[l]
           Parts(p) == ForwardPart(nw, l, p)
<1>1. /\ Len(xs) \in Nat /\ Len(ys) \in Nat
      /\ IsSequence(both) /\ Len(both) = Len(xs) + Len(ys)
  BY ConcatSequence DEF IsSequence
<1>2. /\ IsSequence(one) /\ Len(one) = Len(xs)
      /\ \A t \in 1 .. Len(xs) : one[t] = Parts(ReadTo(row, l, 1, xs, t))
  BY LayerOfSequence, ForwardLayer
<1>3. /\ IsSequence(two) /\ Len(two) = Len(ys)
      /\ \A t \in 1 .. Len(ys) : two[t] = Parts(ReadTo(mid, l, 1, ys, t))
  BY LayerOfSequence, ForwardLayer
<1>4. /\ IsSequence(left) /\ Len(left) = Len(both)
      /\ \A t \in 1 .. Len(both) : left[t] = Parts(ReadTo(row, l, 1, both, t))
  <2> HIDE DEF both
  <2>1. IsSequence(both)
    BY <1>1
  <2> QED
    BY <2>1, LayerOfSequence, ForwardLayer
<1>5. \A t \in 1 .. Len(xs) : ReadTo(row, l, 1, both, t) = ReadTo(row, l, 1, xs, t)
  <2> TAKE t \in 1 .. Len(xs)
  <2>1. t \in 0 .. Len(xs)
    BY <1>1
  <2>2. ReadOf(1, both, t) = ReadOf(1, xs, t)
    BY <2>1, ReadOfFirst
  <2> QED
    BY <2>2, ReadToIsReading
<1>6. \A t \in 1 .. Len(ys) : ReadTo(row, l, 1, both, Len(xs) + t) = ReadTo(mid, l, 1, ys, t)
  <2> TAKE t \in 1 .. Len(ys)
  <2> DEFINE some == ReadOf(1, ys, t)
  <2>1. t \in 0 .. Len(ys)
    BY <1>1
  <2>2. ReadOf(1, both, Len(xs) + t) = xs \o some
    BY <2>1, ReadOfSecond
  <2>3. IsSequence(some)
    BY <2>1, ReadOfSequence
  <2>4. IsRow(row) /\ mid = AfterReading(row, l, 1, xs)
    OBVIOUS
  <2> HIDE DEF some, row, mid
  <2>a. IsRow(row)
    BY <2>4
  <2>5. AfterReading(AfterReading(row, l, 1, xs), l, 1, some) = AfterReading(row, l, 1, xs \o some)
    <3>1. AfterReading(AfterReading(row, l, 1, xs), l, 1, some) =
            AfterReading(row, l, 1, IF 1 = 1 THEN xs \o some ELSE some \o xs)
      BY <2>3, <2>a, ReadingOn
    <3> QED
      BY <3>1
  <2>6. ReadTo(mid, l, 1, ys, t) = AfterReading(mid, l, 1, some)
    BY ReadToIsReading DEF some
  <2>7. ReadTo(row, l, 1, both, Len(xs) + t) = AfterReading(row, l, 1, xs \o some)
    BY <2>2, ReadToIsReading DEF some
  <2> QED
    BY <2>4, <2>5, <2>6, <2>7
<1> HIDE DEF both, one, two, row, mid, Parts
<1>a. IsSequence(one)
  BY <1>2
<1>b. IsSequence(two)
  BY <1>3
<1>7. /\ IsSequence(right) /\ Len(right) = Len(one) + Len(two)
      /\ \A t \in 1 .. Len(one) : right[t] = one[t]
      /\ \A t \in 1 .. Len(two) : right[Len(one) + t] = two[t]
  BY <1>a, <1>b, ConcatSequence
<1> HIDE DEF left, right
<1>8. ASSUME NEW t \in 1 .. Len(left)
      PROVE  left[t] = right[t]
  <2>1. CASE t \in 1 .. Len(xs)
    <3>1. left[t] = Parts(ReadTo(row, l, 1, both, t))
      BY <1>4
    <3>2. right[t] = Parts(ReadTo(row, l, 1, xs, t))
      BY <1>2, <1>7, <2>1
    <3> QED
      BY <1>5, <2>1, <3>1, <3>2
  <2>2. CASE t \notin 1 .. Len(xs)
    <3>1. PICK j \in 1 .. Len(ys) : t = Len(xs) + j
      <4>1. t - Len(xs) \in 1 .. Len(ys) /\ t = Len(xs) + (t - Len(xs))
        BY <1>1, <1>4, <2>2
      <4> QED
        BY <4>1
    <3>2. left[t] = Parts(ReadTo(row, l, 1, both, t))
      BY <1>4
    <3>3. right[t] = Parts(ReadTo(mid, l, 1, ys, j))
      BY <1>2, <1>3, <1>7, <3>1
    <3> QED
      BY <1>6, <3>1, <3>2, <3>3
  <2> QED
    BY <2>1, <2>2
<1>c. IsSequence(left)
  BY <1>4
<1>d. IsSequence(right)
  BY <1>7
<1>e. Len(left) = Len(right)
  BY <1>1, <1>2, <1>3, <1>4, <1>7
<1>9. left = right
  BY <1>8, <1>c, <1>d, <1>e, SameSequence
<1> QED
  BY <1>9 DEF left, right, both, one, two

\* Reading a sequence is reading a part of it, and the rest from the rows the
\* first part left: layer by layer.
SplitAt(nw, start, xs, ys, l) ==
  LayerInputs(nw, start, xs \o ys)[l] =
    LayerInputs(nw, start, xs)[l] \o
    LayerInputs(nw, ReferenceFinal(nw, start, xs), ys)[l]

LEMMA LayersSplit ==
  ASSUME NEW nw, IsNet(nw), nw.directions = 1, NEW start, NEW xs, NEW ys,
         IsSequence(xs), IsSequence(ys), AreRows(nw, start)
  PROVE  \A l \in 1 .. nw.layers + 1 : SplitAt(nw, start, xs, ys, l)
<1> DEFINE next == ReferenceFinal(nw, start, xs)
           whole == LayerInputs(nw, start, xs \o ys)
           one == LayerInputs(nw, start, xs)
           two == LayerInputs(nw, next, ys)
           Good == {m \in Nat : m \in 1 .. nw.layers + 1 => whole[m] = one[m] \o two[m]}
<1>0. nw.layers \in Nat /\ nw.layers * nw.directions = nw.layers
  BY DEF IsNet
<1>1. whole[1] = xs \o ys /\ \A l \in 1 .. nw.layers : whole[l + 1] = LayerOf(nw, start, l, whole[l])
  <2> DEFINE both == xs \o ys
  <2> HIDE DEF both
  <2>1. /\ LayerInputs(nw, start, both)[1] = both
        /\ \A l \in 1 .. nw.layers :
             LayerInputs(nw, start, both)[l + 1] =
               LayerOf(nw, start, l, LayerInputs(nw, start, both)[l])
    BY <1>0, LayerInputsDef
  <2> QED
    BY <2>1 DEF both
<1>2. one[1] = xs /\ \A l \in 1 .. nw.layers : one[l + 1] = LayerOf(nw, start, l, one[l])
  BY <1>0, LayerInputsDef
<1>3. two[1] = ys /\ \A l \in 1 .. nw.layers : two[l + 1] = LayerOf(nw, next, l, two[l])
  <2> HIDE DEF next
  <2> QED
    BY <1>0, LayerInputsDef
<1>4. \A l \in 1 .. nw.layers + 1 : IsSequence(one[l])
  BY LayersAreSequences
<1>5. \A l \in 1 .. nw.layers + 1 : IsSequence(two[l])
  <2> HIDE DEF next
  <2> QED
    BY LayersAreSequences
<1>6. \A l \in 1 .. nw.layers : next[l] = AfterReading(start[l], l, 1, one[l])
  <2> TAKE l \in 1 .. nw.layers
  <2>1. LayerOfIndex(nw, l) = l /\ DirectionOfIndex(nw, l) = 1
    BY DEF LayerOfIndex, DirectionOfIndex
  <2>2. l \in 1 .. nw.layers * nw.directions
    BY <1>0
  <2> QED
    BY <2>1, <2>2, FinalIsReading
<1> HIDE DEF next, whole, one, two
<1>7. 0 \in Good
  BY <1>0
<1>8. ASSUME NEW m \in Nat, m \in Good
      PROVE  m + 1 \in Good
  <2> SUFFICES ASSUME m + 1 \in 1 .. nw.layers + 1
               PROVE  whole[m + 1] = one[m + 1] \o two[m + 1]
    <3>1. m + 1 \in Nat
      OBVIOUS
    <3> QED
      BY <3>1
  <2>1. CASE m = 0
    <3>1. m + 1 = 1
      BY <2>1
    <3>2. whole[1] = one[1] \o two[1]
      BY <1>1, <1>2, <1>3
    <3> QED
      BY <3>1, <3>2
  <2>2. CASE m # 0
    <3>1. m \in 1 .. nw.layers /\ m \in 1 .. nw.layers + 1 /\ m \in Nat \ {0}
      BY <1>0, <2>2
    <3> DEFINE a == one[m]
               b == two[m]
    <3>2. IsSequence(a)
      BY <1>4, <3>1
    <3>3. IsSequence(b)
      BY <1>5, <3>1
    <3>4. whole[m] = a \o b
      BY <1>8, <3>1
    <3>5. IsRow(start[m])
      BY <1>0, <3>1 DEF AreRows
    <3>6. next[m] = AfterReading(start[m], m, 1, a)
      BY <1>6, <3>1
    <3> HIDE DEF a, b
    <3>7. LayerOf(nw, start, m, a \o b) = LayerOf(nw, start, m, a) \o LayerOf(nw, next, m, b)
      BY <3>1, <3>2, <3>3, <3>5, <3>6, LayerOfConcat
    <3>8. /\ whole[m + 1] = LayerOf(nw, start, m, a \o b)
          /\ one[m + 1] = LayerOf(nw, start, m, a)
          /\ two[m + 1] = LayerOf(nw, next, m, b)
      BY <1>1, <1>2, <1>3, <3>1, <3>4 DEF a, b
    <3> QED
      BY <3>7, <3>8
  <2> QED
    BY <2>1, <2>2
<1>9. Nat \subseteq Good
  <2> HIDE DEF Good
  <2> QED
    BY <1>7, <1>8, NatInductionOnSet
<1>10. ASSUME NEW l \in 1 .. nw.layers + 1
       PROVE  whole[l] = one[l] \o two[l]
  <2>1. l \in Nat
    BY <1>0
  <2>2. l \in Good
    BY <1>9, <2>1
  <2> QED
    BY <2>2
<1> QED
  BY <1>10 DEF whole, one, two, next, SplitAt

LEMMA FinalSplit ==
  ASSUME NEW nw, IsNet(nw), nw.directions = 1, NEW start, NEW xs, NEW ys,
         IsSequence(xs), IsSequence(ys), AreRows(nw, start)
  PROVE  ReferenceFinal(nw, start, xs \o ys) =
           ReferenceFinal(nw, ReferenceFinal(nw, start, xs), ys)
<1> DEFINE next == ReferenceFinal(nw, start, xs)
           left == ReferenceFinal(nw, start, xs \o ys)
           right == ReferenceFinal(nw, next, ys)
           both == xs \o ys
<1>0. nw.layers \in Nat /\ nw.layers * nw.directions = nw.layers
  BY DEF IsNet
<1>1. left = [i \in 1 .. nw.layers |-> left[i]]
  <2> HIDE DEF both
  <2> QED
    BY <1>0, FinalIsReading
<1>2. right = [i \in 1 .. nw.layers |-> right[i]]
  <2> HIDE DEF next
  <2> QED
    BY <1>0, FinalIsReading
<1>3. ASSUME NEW i \in 1 .. nw.layers
      PROVE  left[i] = right[i]
  <2> DEFINE a == LayerInputs(nw, start, xs)[i]
             b == LayerInputs(nw, next, ys)[i]
             row == start[i]
  <2>1. LayerOfIndex(nw, i) = i /\ DirectionOfIndex(nw, i) = 1
        /\ i \in 1 .. nw.layers * nw.directions /\ i \in 1 .. nw.layers + 1
    BY <1>0 DEF LayerOfIndex, DirectionOfIndex
  <2>2. left[i] = AfterReading(start[i], i, 1, LayerInputs(nw, start, xs \o ys)[i])
    BY <2>1, FinalIsReading
  <2>3. LayerInputs(nw, start, xs \o ys)[i] = a \o b
    <3>1. i \in 1 .. nw.layers + 1
      BY <2>1
    <3>2. SplitAt(nw, start, xs, ys, i)
      BY <3>1, LayersSplit
    <3> QED
      BY <3>2 DEF SplitAt
  <2>4. next[i] = AfterReading(row, i, 1, a)
    BY <2>1, FinalIsReading
  <2>5. right[i] = AfterReading(next[i], i, 1, b)
    <3> HIDE DEF next
    <3> QED
      BY <2>1, FinalIsReading
  <2>6. IsSequence(a)
    BY <2>1, LayersAreSequences
  <2>7. IsSequence(b)
    <3> HIDE DEF next
    <3> QED
      BY <2>1, LayersAreSequences
  <2>8. IsRow(row)
    BY <1>0 DEF AreRows
  <2>9. left[i] = AfterReading(row, i, 1, a \o b)
    BY <2>2, <2>3
  <2>10. right[i] = AfterReading(AfterReading(row, i, 1, a), i, 1, b)
    BY <2>4, <2>5
  <2> HIDE DEF left, right, a, b, row
  <2>11. AfterReading(AfterReading(row, i, 1, a), i, 1, b) =
           AfterReading(row, i, 1, IF 1 = 1 THEN a \o b ELSE b \o a)
    BY <2>6, <2>7, <2>8, ReadingOn
  <2> QED
    BY <2>9, <2>10, <2>11
<1> HIDE DEF left, right
<1>4. left = right
  BY <1>1, <1>2, <1>3
<1> QED
  BY <1>4 DEF left, right

LEMMA OutputIsSequence ==
  ASSUME NEW nw, IsNet(nw), NEW start, NEW xs, IsSequence(xs)
  PROVE  /\ IsSequence(ReferenceOutput(nw, start, xs))
         /\ Len(ReferenceOutput(nw, start, xs)) = Len(xs)
<1>1. nw.layers + 1 \in 1 .. nw.layers + 1
  BY DEF IsNet
<1>2. \A l \in 1 .. nw.layers + 1 :
        /\ IsSequence(LayerInputs(nw, start, xs)[l])
        /\ Len(LayerInputs(nw, start, xs)[l]) = Len(xs)
  BY LayersAreSequences
<1> QED
  BY <1>1, <1>2 DEF ReferenceOutput

LEMMA OutputSplit ==
  ASSUME NEW nw, IsNet(nw), nw.directions = 1, NEW start, NEW xs, NEW ys,
         IsSequence(xs), IsSequence(ys), AreRows(nw, start)
  PROVE  ReferenceOutput(nw, ReferenceFinal(nw, start, xs), ys) =
           SubSeq(ReferenceOutput(nw, start, xs \o ys), Len(xs) + 1, Len(xs) + Len(ys))
<1> DEFINE next == ReferenceFinal(nw, start, xs)
           whole == ReferenceOutput(nw, start, xs \o ys)
           a == ReferenceOutput(nw, start, xs)
           b == ReferenceOutput(nw, next, ys)
<1>0. nw.layers + 1 \in 1 .. nw.layers + 1 /\ Len(xs) \in Nat /\ Len(ys) \in Nat
  BY DEF IsNet, IsSequence
<1>1. whole = a \o b
  <2> DEFINE end == nw.layers + 1
  <2> HIDE DEF end
  <2>1. end \in 1 .. nw.layers + 1
    BY <1>0 DEF end
  <2>2. SplitAt(nw, start, xs, ys, end)
    BY <2>1, LayersSplit
  <2> HIDE DEF next
  <2> QED
    BY <2>2 DEF ReferenceOutput, SplitAt, end, next
<1>2. IsSequence(a) /\ Len(a) = Len(xs)
  BY <1>0, OutputIsSequence
<1>3. IsSequence(b) /\ Len(b) = Len(ys)
  <2> HIDE DEF next
  <2> QED
    BY <1>0, OutputIsSequence
<1> HIDE DEF whole, a, b
<1>4. IsSequence(a)
  BY <1>2
<1>5. IsSequence(b)
  BY <1>3
<1>6. /\ IsSequence(whole) /\ Len(whole) = Len(a) + Len(b)
      /\ \A i \in 1 .. Len(b) : whole[Len(a) + i] = b[i]
  BY <1>1, <1>4, <1>5, ConcatSequence
<1> DEFINE rest == SubSeq(whole, Len(xs) + 1, Len(xs) + Len(ys))
<1>7. rest = [i \in 1 .. Len(ys) |-> whole[Len(xs) + i]]
  <2>1. rest = [i \in 1 .. (Len(xs) + Len(ys)) - (Len(xs) + 1) + 1 |-> whole[(Len(xs) + 1) + i - 1]]
    OBVIOUS
  <2>2. (Len(xs) + Len(ys)) - (Len(xs) + 1) + 1 = Len(ys)
        /\ \A i \in 1 .. Len(ys) : (Len(xs) + 1) + i - 1 = Len(xs) + i
    BY <1>0
  <2> HIDE DEF rest
  <2> QED
    BY <2>1, <2>2
<1> HIDE DEF rest
<1>8. b = [i \in 1 .. Len(ys) |-> b[i]]
  BY <1>3 DEF IsSequence
<1>9. \A i \in 1 .. Len(ys) : whole[Len(xs) + i] = b[i]
  BY <1>2, <1>3, <1>6
<1>10. rest = b
  BY <1>7, <1>8, <1>9
<1> QED
  BY <1>10 DEF rest, whole, b, next

CellRows(rows) == [i \in 1 .. States |-> CellOf(rows[i])]

CarriedHistory ==
  /\ net \in Layers
  /\ IsSequence(fed)
  /\ hx = None <=> fed = <<>>
  /\ hx # None =>
       /\ DOMAIN hx = StateFields /\ net.stateful
       /\ hx.dtype \in Dtypes /\ hx.batch \in 1 .. 2
       /\ hx.h = ReferenceFinal(net, StartRows, fed)
       /\ IsLstm => hx.c = CellRows(hx.h)

BeginRows(q) ==
  IF q.hx = "given" THEN Start("given", "fp32", Host, 1).h
  ELSE IF net.stateful /\ hx # None THEN hx.h ELSE StartRows

RowOf(d) == call.begin.h[StateIndexOf(net, call.layer, d)]
InputsOf(l) == LayerInputs(net, call.begin.h, Inputs(call.request))[l]
FinalRow(i) == ReferenceFinal(net, call.begin.h, Inputs(call.request))[i]

CallHistory ==
  call # None =>
    /\ DOMAIN call = CallFields
    /\ call.request \in Requests
    /\ call.begin.h = BeginRows(call.request)
    /\ IsLstm => call.begin.c = CellRows(call.begin.h)
    /\ call.layer \in 1 .. net.layers
    /\ call.input = InputsOf(call.layer)

\* What direction d made of its layer's inputs.
DirectionOutput(d, t) ==
  ReadTo(RowOf(d), call.layer, d, call.input, IF d = 1 THEN t ELSE Len(call.input) - t + 1)

DirectionsHistory ==
  call # None =>
    /\ IsSequence(call.outputs) /\ Len(call.outputs) <= net.directions
    /\ \A d \in 1 .. Len(call.outputs) :
         /\ IsSequence(call.outputs[d]) /\ Len(call.outputs[d]) = Len(call.input)
         /\ \A t \in 1 .. Len(call.input) : call.outputs[d][t] = DirectionOutput(d, t)

FinalHistory ==
  call # None =>
    /\ IsSequence(call.h)
    /\ Len(call.h) = (call.layer - 1) * net.directions + Len(call.outputs)
    /\ \A i \in 1 .. Len(call.h) : call.h[i] = FinalRow(i)
    /\ IsSequence(call.c) /\ Len(call.c) = Len(call.h)
    /\ IsLstm => \A i \in 1 .. Len(call.c) : call.c[i] = CellOf(call.h[i])

\* What a direction held after k inputs.
RunRow(k) == ReadTo(RowOf(Direction), call.layer, Direction, call.input, k)

RunHistory ==
  call # None /\ call.run # None =>
    /\ DOMAIN call.run = RunFields
    /\ Direction <= net.directions
    /\ IsSequence(call.run.outputs) /\ Len(call.run.outputs) <= Len(call.input)
    /\ call.run.gates # "none" => Len(call.run.outputs) < Len(call.input)
    /\ call.run.h = RunRow(Len(call.run.outputs))
    /\ \A k \in 1 .. Len(call.run.outputs) : call.run.outputs[k] = RunRow(k)
    /\ IsLstm => call.run.c = CellOf(call.run.h)

DepthHistory ==
  call # None =>
    /\ Len(frames) \in {call.depth, call.depth + 1}
    /\ call.run = None \/ call.run.gates = "none" => Len(frames) = call.depth

LastInv ==
  /\ last.outcome \in {"none", "malformed", "refused", "raised", "returned"}
  /\ last.outcome = "returned" => last.request \in Requests

HInv ==
  /\ CarriedHistory /\ CallHistory /\ DirectionsHistory /\ FinalHistory /\ RunHistory
  /\ LastInv /\ OutputsAreUnbroken

-----------------------------------------------------------------------------
LEMMA NetIsNet ==
  ASSUME net \in Layers
  PROVE  /\ IsNet(net) /\ States = net.layers * net.directions
         /\ States \in Nat \ {0}
         /\ net.stateful => net.directions = 1
<1>1. net.layers \in Nat \ {0} /\ net.directions \in {1, 2}
      /\ ~(net.stateful /\ net.directions = 2)
  BY SpikingRecurrentAssumption
<1>2. CASE net.directions = 1
  BY <1>1, <1>2 DEF IsNet, States
<1>3. CASE net.directions = 2
  BY <1>1, <1>3 DEF IsNet, States
<1> QED
  BY <1>1, <1>2, <1>3

LEMMA InputsAreSequence ==
  ASSUME IsSequence(fed), NEW q \in Requests
  PROVE  IsSequence(Inputs(q)) /\ Len(Inputs(q)) = q.steps /\ q.steps \in Nat \ {0}
<1>1. q.steps \in 1 .. 2
  BY DEF Requests
<1> QED
  BY <1>1 DEF Inputs, IsSequence

LEMMA StartsAreRows ==
  ASSUME NEW where, NEW d, NEW p, NEW n
  PROVE  AreRows(net, Start(where, d, p, n).h)
<1>1. ASSUME NEW i \in 1 .. States
      PROVE  IsRow(Start(where, d, p, n).h[i])
  BY StartRow DEF Start
<1> QED
  BY <1>1 DEF AreRows, States

\* The rows of a start do not depend on its type and batch.
LEMMA StartState ==
  ASSUME NEW where, NEW d, NEW p, NEW n
  PROVE  /\ Start(where, d, p, n).h = Start(where, "fp32", Host, 1).h
         /\ IsLstm => Start(where, d, p, n).c = CellRows(Start(where, d, p, n).h)
  BY DEF Start, CellRows, CellOf, Row

LEMMA CarriedAreRows ==
  ASSUME CarriedHistory, hx # None
  PROVE  AreRows(net, hx.h)
<1>1. AreRows(net, StartRows)
  BY StartsAreRows DEF StartRows
<1>2. IsNet(net) /\ IsSequence(fed)
  BY NetIsNet DEF CarriedHistory
<1>3. AreRows(net, ReferenceFinal(net, StartRows, fed))
  BY <1>1, <1>2, FinalRows
<1> QED
  BY <1>3 DEF CarriedHistory

LEMMA BeginAreRows ==
  ASSUME CarriedHistory, NEW q
  PROVE  AreRows(net, BeginRows(q))
<1>1. AreRows(net, Start("given", "fp32", Host, 1).h)
  BY StartsAreRows
<1>2. AreRows(net, StartRows)
  BY StartsAreRows DEF StartRows
<1> QED
  BY <1>1, <1>2, CarriedAreRows DEF BeginRows

\* A layer's inputs, and the rows of its directions.
LEMMA CallFacts ==
  ASSUME HInv, call # None
  PROVE  /\ IsNet(net) /\ call.layer \in 1 .. net.layers /\ AreRows(net, call.begin.h)
         /\ IsSequence(call.input) /\ Len(call.input) \in Nat \ {0}
         /\ Len(call.input) = call.request.steps
         /\ IsSequence(Inputs(call.request)) /\ Len(Inputs(call.request)) = call.request.steps
         /\ \A d \in 1 .. net.directions :
              /\ StateIndexOf(net, call.layer, d) \in 1 .. States
              /\ IsRow(RowOf(d))
<1>1. IsNet(net) /\ States = net.layers * net.directions
  BY NetIsNet DEF HInv, CarriedHistory
<1>2. call.layer \in 1 .. net.layers /\ AreRows(net, call.begin.h) /\ call.request \in Requests
  BY BeginAreRows DEF HInv, CallHistory
<1>3. IsSequence(Inputs(call.request)) /\ Len(Inputs(call.request)) = call.request.steps
      /\ call.request.steps \in Nat \ {0}
  BY <1>2, InputsAreSequence DEF HInv, CarriedHistory
<1>4. IsSequence(call.input) /\ Len(call.input) = call.request.steps
  <2> DEFINE xs == Inputs(call.request)
             start == call.begin.h
             l == call.layer
  <2>1. IsSequence(xs) /\ l \in 1 .. net.layers + 1
    BY <1>1, <1>2, <1>3 DEF IsNet
  <2>2. call.input = LayerInputs(net, start, xs)[l] /\ Len(xs) = call.request.steps
    BY <1>3 DEF HInv, CallHistory, InputsOf
  <2> HIDE DEF xs, start, l
  <2>3. \A m \in 1 .. net.layers + 1 :
          /\ IsSequence(LayerInputs(net, start, xs)[m])
          /\ Len(LayerInputs(net, start, xs)[m]) = Len(xs)
    <3>1. IsNet(net)
      BY <1>1
    <3>2. IsSequence(xs)
      BY <2>1
    <3> QED
      BY <3>1, <3>2, LayersAreSequences
  <2> QED
    BY <2>1, <2>2, <2>3
<1>5. ASSUME NEW d \in 1 .. net.directions
      PROVE  StateIndexOf(net, call.layer, d) \in 1 .. States /\ IsRow(RowOf(d))
  <2>1. StateIndexOf(net, call.layer, d) \in 1 .. States
    BY <1>1, <1>2, IndexRange
  <2> QED
    BY <1>1, <1>2, <2>1 DEF AreRows, RowOf
<1> QED
  BY <1>1, <1>2, <1>3, <1>4, <1>5

LEMMA CarriedKept ==
  ASSUME CarriedHistory, UNCHANGED <<net, hx, fed>>
  PROVE  CarriedHistory'
  BY DEF CarriedHistory, StartRows, Start, States, IsLstm, CellRows

LEMMA NoCallHistory ==
  ASSUME call' = None
  PROVE  CallHistory' /\ DirectionsHistory' /\ FinalHistory' /\ RunHistory'
  BY DEF CallHistory, DirectionsHistory, FinalHistory, RunHistory

LEMMA NothingReturned ==
  ASSUME last'.outcome \in {"none", "malformed", "refused", "raised"}
  PROVE  LastInv' /\ OutputsAreUnbroken'
  BY DEF LastInv, OutputsAreUnbroken

\* A step of a call leaves the carried state and the last result alone.
LEMMA CallGoesOn ==
  ASSUME HInv, UNCHANGED <<net, hx, last, fed>>
  PROVE  CarriedHistory' /\ LastInv' /\ OutputsAreUnbroken'
<1>1. CarriedHistory'
  BY CarriedKept DEF HInv
<1>2. LastInv' /\ OutputsAreUnbroken'
  BY DEF HInv, LastInv, OutputsAreUnbroken, StartRows, Start, States, IsLstm, Inputs, Requests
<1> QED
  BY <1>1, <1>2

LEMMA CallHistoryKept ==
  ASSUME CallHistory, call # None, UNCHANGED <<net, hx, fed>>, DOMAIN call' = CallFields,
         call'.request = call.request, call'.begin = call.begin, call'.layer = call.layer,
         call'.input = call.input
  PROVE  CallHistory'
  BY DEF CallHistory, BeginRows, StartRows, Start, States, IsLstm, CellRows, InputsOf, Inputs,
         Requests

LEMMA HBetweenCalls ==
  ASSUME HInv, NoneIsNoRecord,
         EnterContext \/ LeaveContext \/ Reset \/ Detach \/ Apply \/ Malformed \/ Refuse
  PROVE  HInv'
<1>1. call' = None /\ net' = net
  BY DEF EnterContext, LeaveContext, Reset, Detach, Apply, Malformed, Refuse, Raises
<1>2. last'.outcome \in {"none", "malformed", "refused", "raised"}
  BY DEF EnterContext, LeaveContext, Reset, Detach, Apply, Malformed, Refuse, Raises,
         ForgetResult, NoResult
<1>3. CarriedHistory'
  <2>1. CASE UNCHANGED <<hx, fed>>
    BY <1>1, <2>1, CarriedKept DEF HInv
  <2>2. CASE Reset
    BY <1>1, <2>2 DEF Reset, ResetState, HInv, CarriedHistory, IsSequence
  <2>3. CASE Detach
    <3>1. /\ DOMAIN hx' = StateFields /\ hx'.h = hx.h /\ hx'.c = hx.c
          /\ hx'.dtype = hx.dtype /\ hx'.batch = hx.batch /\ fed' = fed /\ hx # None
      BY <2>3 DEF Detach, HInv, CarriedHistory, StateFields
    <3>2. hx' # None
      BY <3>1 DEF NoneIsNoRecord
    <3> QED
      BY <1>1, <3>1, <3>2
      DEF HInv, CarriedHistory, StartRows, Start, States, IsLstm, CellRows
  <2>4. CASE Apply /\ hx # None
    <3>1. /\ DOMAIN hx' = StateFields /\ hx'.h = hx.h /\ hx'.c = hx.c
          /\ hx'.dtype \in Dtypes /\ hx'.batch = hx.batch /\ fed' = fed
      <4>1. DOMAIN hx = StateFields /\ hx.dtype \in Dtypes
        BY <2>4 DEF HInv, CarriedHistory
      <4>2. CASE dtype' \in Dtypes /\ hx' = Converted(hx, dtype')
        BY <2>4, <4>1, <4>2 DEF Apply, Converted, StateFields
      <4>3. CASE hx' = Moved(hx, device')
        BY <2>4, <4>1, <4>3 DEF Apply, Moved, StateFields
      <4> QED
        BY <2>4, <4>2, <4>3 DEF Apply
    <3>2. hx' # None
      BY <3>1 DEF NoneIsNoRecord
    <3> QED
      BY <1>1, <2>4, <3>1, <3>2
      DEF HInv, CarriedHistory, StartRows, Start, States, IsLstm, CellRows
  <2> QED
    BY <2>1, <2>2, <2>3, <2>4
    DEF EnterContext, LeaveContext, Apply, Converted, Moved, Malformed, Refuse, Raises
<1> QED
  BY <1>1, <1>2, <1>3, NoCallHistory, NothingReturned DEF HInv

LEMMA HForwardStep ==
  ASSUME HInv, NoneIsNoRecord, Forward
  PROVE  HInv'
<1>1. PICK q \in Requests :
        LET begin == IF q.hx = "given" THEN Explicit(q)
                     ELSE IF Carries(q) THEN hx ELSE ZeroState(q)
        IN  call' = [request |-> q, begin |-> begin, input |-> Inputs(q),
                     inputDtype |-> q.dtype, layer |-> 1, outputs |-> <<>>,
                     h |-> <<>>, c |-> <<>>, dtypes |-> {},
                     run |-> None, depth |-> Len(frames)]
  BY DEF Forward
<1>2. UNCHANGED <<net, hx, fed>> /\ last' = NoResult
  BY DEF Forward
<1> DEFINE begin == IF q.hx = "given" THEN Explicit(q)
                    ELSE IF Carries(q) THEN hx ELSE ZeroState(q)
<1>3. /\ DOMAIN call' = CallFields /\ call'.request = q /\ call'.begin = begin
      /\ call'.input = Inputs(q) /\ call'.layer = 1 /\ call'.outputs = <<>>
      /\ call'.h = <<>> /\ call'.c = <<>> /\ call'.run = None
  BY <1>1 DEF CallFields
<1>4. q.hx \in {"none", "given"}
  BY DEF Requests
<1>5. begin.h = BeginRows(q) /\ (IsLstm => begin.c = CellRows(begin.h))
  <2>1. CASE q.hx = "given"
    BY <2>1, StartState DEF Explicit, BeginRows
  <2>2. CASE q.hx # "given" /\ Carries(q)
    BY <2>2 DEF Carries, BeginRows, HInv, CarriedHistory
  <2>3. CASE q.hx # "given" /\ ~Carries(q)
    BY <1>4, <2>3, StartState DEF Carries, ZeroState, BeginRows, StartRows
  <2> QED
    BY <2>1, <2>2, <2>3
<1> HIDE DEF begin
<1>6. IsNet(net) /\ net.layers \in Nat \ {0}
  BY NetIsNet DEF HInv, CarriedHistory, IsNet
<1>7. LayerInputs(net, begin.h, Inputs(q))[1] = Inputs(q)
  <2>1. net.layers \in Nat
    BY <1>6
  <2> QED
    BY <2>1, LayerInputsDef
<1>8. CallHistory'
  <2>1. call'.begin.h = BeginRows(call.request)'
    BY <1>2, <1>3, <1>5 DEF BeginRows, StartRows, Start, States, IsLstm
  <2>2. IsLstm' => call'.begin.c = CellRows(call.begin.h)'
    BY <1>2, <1>3, <1>5 DEF IsLstm, CellRows, States
  <2>3. call'.input = InputsOf(call.layer)'
    BY <1>2, <1>3, <1>7 DEF InputsOf, Inputs
  <2>4. 1 \in 1 .. net'.layers
    BY <1>2, <1>6
  <2> QED
    BY <1>3, <2>1, <2>2, <2>3, <2>4 DEF CallHistory, Requests
<1>9. Len(<<>>) = 0 /\ IsSequence(<<>>)
  BY DEF IsSequence
<1>10. DirectionsHistory' /\ FinalHistory' /\ RunHistory'
  <2>1. DirectionsHistory'
    BY <1>2, <1>3, <1>6, <1>9 DEF DirectionsHistory, IsNet
  <2>2. FinalHistory'
    <3>1. (1 - 1) * net.directions + 0 = 0
      BY <1>6 DEF IsNet
    <3> QED
      BY <1>2, <1>3, <1>9, <3>1 DEF FinalHistory
  <2>3. RunHistory'
    BY <1>3 DEF RunHistory
  <2> QED
    BY <2>1, <2>2, <2>3
<1>11. CarriedHistory' /\ LastInv' /\ OutputsAreUnbroken'
  BY <1>2, CarriedKept, NothingReturned DEF HInv, NoResult
<1> QED
  BY <1>8, <1>10, <1>11 DEF HInv

\* What is within a step's reach of a call stays.
SameCall ==
  /\ DOMAIN call' = CallFields
  /\ call'.request = call.request /\ call'.begin = call.begin
  /\ call'.layer = call.layer /\ call'.input = call.input

LEMMA SameRows ==
  ASSUME SameCall, UNCHANGED <<net, fed>>
  PROVE  /\ \A d : RowOf(d)' = RowOf(d)
         /\ \A d, t : DirectionOutput(d, t)' = DirectionOutput(d, t)
         /\ \A i : FinalRow(i)' = FinalRow(i)
  BY DEF SameCall, RowOf, DirectionOutput, FinalRow, Inputs

LEMMA SameDirections ==
  ASSUME HInv, call # None, SameCall, UNCHANGED <<net, fed>>, call'.outputs = call.outputs,
         call'.h = call.h, call'.c = call.c
  PROVE  DirectionsHistory' /\ FinalHistory'
<1>1. DirectionsHistory'
  BY SameRows DEF HInv, DirectionsHistory, SameCall
<1>2. FinalHistory'
  BY SameRows DEF HInv, FinalHistory, SameCall, IsLstm
<1> QED
  BY <1>1, <1>2

LEMMA HRunDirectionStep ==
  ASSUME HInv, NoneIsNoRecord, RunDirection
  PROVE  HInv'
<1>1. /\ call # None /\ call.run = None /\ Direction <= net.directions
      /\ UNCHANGED <<net, hx, last, fed>> /\ DOMAIN call = CallFields
  BY DEF RunDirection, HInv, CallHistory
<1>2. /\ SameCall /\ call'.outputs = call.outputs /\ call'.h = call.h /\ call'.c = call.c
      /\ DOMAIN call'.run = RunFields
      /\ call'.run.h = call.begin.h[Index] /\ call'.run.gates = "none"
      /\ call'.run.outputs = <<>>
      /\ IsLstm => call'.run.c = call.begin.c[Index]
  BY <1>1 DEF RunDirection, CallFields, RunFields, SameCall
<1>3. CallHistory'
  BY <1>1, <1>2, CallHistoryKept DEF HInv, SameCall
<1>4. DirectionsHistory' /\ FinalHistory'
  BY <1>1, <1>2, SameDirections
<1>5. Len(<<>>) = 0 /\ IsSequence(<<>>) /\ 1 .. 0 = {}
  BY DEF IsSequence
<1>6. Direction \in 1 .. net.directions
  BY <1>1 DEF HInv, DirectionsHistory, IsSequence, Direction
<1>7. Index \in 1 .. States /\ IsRow(RowOf(Direction)) /\ IsSequence(call.input)
      /\ Len(call.input) \in Nat
  BY <1>1, <1>6, CallFacts DEF Index
<1>8. call'.run.h = RunRow(0)
  <2>1. IsRow(RowOf(Direction))
    BY <1>7
  <2>2. IsSequence(call.input)
    BY <1>7
  <2>3. ReadTo(RowOf(Direction), call.layer, Direction, call.input, 0) = RowOf(Direction)
    BY <2>1, <2>2, ReadToNone
  <2> QED
    BY <1>2, <2>3 DEF RunRow, RowOf, Index
<1>9. IsLstm => call'.run.c = CellOf(call'.run.h)
  BY <1>1, <1>2, <1>7 DEF HInv, CallHistory, CellRows
<1>10. RunRow(0)' = RunRow(0) /\ Direction' = Direction
  BY <1>1, <1>2, SameRows DEF RunRow, Direction, SameCall
<1>11. RunHistory'
  BY <1>1, <1>2, <1>5, <1>7, <1>8, <1>9, <1>10 DEF RunHistory, SameCall, IsLstm
<1> QED
  BY <1>1, <1>3, <1>4, <1>11, CallGoesOn DEF HInv

LEMMA HAffineStep ==
  ASSUME HInv, NoneIsNoRecord, Affine
  PROVE  HInv'
<1>1. /\ call # None /\ call.run # None /\ Len(call.run.outputs) < Len(call.input)
      /\ UNCHANGED <<net, hx, last, fed>> /\ DOMAIN call = CallFields
      /\ DOMAIN call.run = RunFields
      /\ call' = [call EXCEPT !.run.gates = RecurrenceDtype(LinearDtype)]
  BY DEF Affine, Running, HInv, CallHistory, RunHistory
<1>2. /\ SameCall /\ call'.outputs = call.outputs /\ call'.h = call.h /\ call'.c = call.c
      /\ DOMAIN call'.run = RunFields
      /\ call'.run.h = call.run.h /\ call'.run.c = call.run.c
      /\ call'.run.outputs = call.run.outputs
  BY <1>1 DEF CallFields, RunFields, SameCall
<1>3. CallHistory'
  BY <1>1, <1>2, CallHistoryKept DEF HInv, SameCall
<1>4. DirectionsHistory' /\ FinalHistory'
  BY <1>1, <1>2, SameDirections
<1>5. (\A k : RunRow(k)' = RunRow(k)) /\ Direction' = Direction
  BY <1>1, <1>2, SameRows DEF RunRow, Direction, SameCall
<1>6. RunHistory'
  BY <1>1, <1>2, <1>5 DEF HInv, RunHistory, SameCall, IsLstm
<1> QED
  BY <1>1, <1>3, <1>4, <1>6, CallGoesOn DEF HInv

LEMMA AppendSequence ==
  ASSUME NEW s, IsSequence(s), NEW x
  PROVE  /\ IsSequence(Append(s, x)) /\ Len(Append(s, x)) = Len(s) + 1
         /\ \A i \in 1 .. Len(s) : Append(s, x)[i] = s[i]
         /\ Append(s, x)[Len(s) + 1] = x
<1> DEFINE S == {s[i] : i \in 1 .. Len(s)} \cup {x}
<1>1. \A i \in 1 .. Len(s) : s[i] \in S
  OBVIOUS
<1>2. x \in S
  OBVIOUS
<1> HIDE DEF S
<1>3. s \in Seq(S)
  BY <1>1, SequenceOver
<1>4. /\ Append(s, x) \in Seq(S) /\ Len(Append(s, x)) = Len(s) + 1
      /\ \A i \in 1 .. Len(s) : Append(s, x)[i] = s[i]
      /\ Append(s, x)[Len(s) + 1] = x
  BY <1>2, <1>3, AppendProperties
<1> QED
  BY <1>4, SeqIsSequence

LEMMA HCellStepStep ==
  ASSUME HInv, NoneIsNoRecord, CellStep
  PROVE  HInv'
<1> DEFINE run == call.run
           n == Len(run.outputs) + 1
           x == call.input[IF Direction = 1 THEN n ELSE Len(call.input) + 1 - n]
           h == AfterReading(run.h, call.layer, Direction, <<x>>)
<1>1. /\ call # None /\ run # None /\ Len(run.outputs) < Len(call.input)
      /\ UNCHANGED <<net, hx, last, fed>> /\ DOMAIN call = CallFields
      /\ DOMAIN run = RunFields /\ (IsLstm => run.c = CellOf(run.h))
      /\ IsSequence(run.outputs)
  BY DEF CellStep, Running, HInv, CallHistory, RunHistory
<1>2. /\ SameCall /\ call'.outputs = call.outputs /\ call'.h = call.h /\ call'.c = call.c
      /\ DOMAIN call'.run = RunFields /\ call'.run.gates = "none"
      /\ call'.run.h = h /\ (IsLstm => call'.run.c = CellOf(h))
      /\ call'.run.outputs = Append(run.outputs, h)
  <2>1. /\ DOMAIN call' = CallFields /\ call'.request = call.request /\ call'.begin = call.begin
        /\ call'.layer = call.layer /\ call'.input = call.input
        /\ call'.outputs = call.outputs /\ call'.h = call.h /\ call'.c = call.c
    BY <1>1 DEF CellStep, CallFields
  <2>2. \E d : call'.run = [h |-> h, c |-> IF IsLstm THEN CellOf(h) ELSE None, dtype |-> d,
                            gates |-> "none", outputs |-> Append(run.outputs, h)]
    BY <1>1 DEF CellStep, CallFields
  <2> HIDE DEF h
  <2> QED
    BY <2>1, <2>2 DEF SameCall, RunFields
<1>3. CallHistory'
  BY <1>1, <1>2, CallHistoryKept DEF HInv, SameCall
<1>4. DirectionsHistory' /\ FinalHistory'
  BY <1>1, <1>2, SameDirections
<1>5. (\A k : RunRow(k)' = RunRow(k)) /\ Direction' = Direction
  BY <1>1, <1>2, SameRows DEF RunRow, Direction, SameCall
<1>6. Direction \in 1 .. net.directions
  BY <1>1 DEF HInv, DirectionsHistory, RunHistory, IsSequence, Direction
<1>7. Len(run.outputs) \in Nat /\ Len(call.input) \in Nat
  BY <1>1, CallFacts DEF IsSequence
<1>8. h = RunRow(n)
  <2> DEFINE k == Len(run.outputs)
             row == RowOf(Direction)
             xs == call.input
             l == call.layer
             d == Direction
  <2>1. k \in 0 .. Len(xs) - 1
    BY <1>1, <1>7
  <2>2. Len(xs) + 1 - n = Len(xs) - k /\ n = k + 1
    <3>1. \A a, b \in Nat : a + 1 - (b + 1) = a - b
      OBVIOUS
    <3> QED
      BY <1>7, <3>1
  <2>3. run.h = ReadTo(row, l, d, xs, k)
    BY <1>1 DEF HInv, RunHistory, RunRow
  <2>4. IsRow(row)
    BY <1>1, <1>6, CallFacts
  <2>5. IsSequence(xs)
    BY <1>1, CallFacts
  <2>6. x = xs[IF d = 1 THEN k + 1 ELSE Len(xs) - k]
    BY <2>2
  <2> HIDE DEF k, row, xs, l, d, x
  <2>7. ReadTo(row, l, d, xs, k + 1) =
          AfterReading(ReadTo(row, l, d, xs, k), l, d,
                       <<xs[IF d = 1 THEN k + 1 ELSE Len(xs) - k]>>)
    BY <2>1, <2>4, <2>5, ReadToNext
  <2>8. h = AfterReading(run.h, l, d, <<x>>)
    BY DEF l, d
  <2>9. h = ReadTo(row, l, d, xs, k + 1)
    BY <2>3, <2>6, <2>7, <2>8
  <2> QED
    BY <2>9 DEF RunRow, k, row, xs, l, d
<1> HIDE DEF h
<1>9. /\ IsSequence(call'.run.outputs) /\ Len(call'.run.outputs) = n
      /\ \A i \in 1 .. Len(run.outputs) : call'.run.outputs[i] = run.outputs[i]
      /\ call'.run.outputs[n] = h
  <2> DEFINE s == run.outputs
  <2> HIDE DEF s
  <2>1. IsSequence(s)
    BY <1>1 DEF s
  <2>2. /\ IsSequence(Append(s, h)) /\ Len(Append(s, h)) = Len(s) + 1
        /\ \A i \in 1 .. Len(s) : Append(s, h)[i] = s[i]
        /\ Append(s, h)[Len(s) + 1] = h
    BY <2>1, AppendSequence
  <2> QED
    BY <1>2, <2>2 DEF s
<1>10. \A k \in 1 .. Len(call'.run.outputs) : call'.run.outputs[k] = RunRow(k)
  <2> TAKE k \in 1 .. Len(call'.run.outputs)
  <2>1. CASE k \in 1 .. Len(run.outputs)
    BY <1>1, <1>9, <2>1 DEF HInv, RunHistory
  <2>2. CASE k = n
    BY <1>8, <1>9, <2>2
  <2> QED
    BY <1>7, <1>9, <2>1, <2>2
<1>11. RunHistory'
  <2>1. n <= Len(call.input)
    BY <1>1, <1>7
  <2>2. Direction' <= net'.directions
    BY <1>1, <1>5 DEF HInv, RunHistory
  <2>3. call'.run.h = RunRow(Len(call'.run.outputs))
    BY <1>2, <1>8, <1>9
  <2>4. IsLstm' => call'.run.c = CellOf(call'.run.h)
    BY <1>1, <1>2 DEF IsLstm
  <2> HIDE DEF n, run
  <2> QED
    BY <1>2, <1>5, <1>9, <1>10, <2>1, <2>2, <2>3, <2>4 DEF RunHistory, SameCall
<1> QED
  BY <1>1, <1>3, <1>4, <1>11, CallGoesOn DEF HInv

LEMMA HCellRaisesStep ==
  ASSUME HInv, CellRaises
  PROVE  HInv'
<1>1. call' = None /\ UNCHANGED <<net, hx, fed>> /\ last'.outcome = "raised"
  BY DEF CellRaises, Raises
<1> QED
  BY <1>1, CarriedKept, NoCallHistory, NothingReturned DEF HInv

\* With its directions behind it, a layer has made of its inputs what the
\* reference makes of them.
LEMMA LayerOutputIs ==
  ASSUME HInv, call # None, call.run = None, Direction > net.directions
  PROVE  LayerOutput = LayerOf(net, call.begin.h, call.layer, call.input)
<1>1. IsNet(net) /\ IsSequence(call.input) /\ Len(call.input) \in Nat
  BY CallFacts
<1>2. DOMAIN call.input = 1 .. Len(call.input)
  BY <1>1 DEF IsSequence
<1>3. Len(call.outputs) = net.directions
  <2>1. Len(call.outputs) \in Nat /\ Len(call.outputs) <= net.directions
    BY DEF HInv, DirectionsHistory, IsSequence
  <2>2. net.directions \in Nat
    BY <1>1 DEF IsNet
  <2> QED
    BY <2>1, <2>2 DEF Direction
<1>4. \A d \in 1 .. net.directions : \A t \in 1 .. Len(call.input) :
        call.outputs[d][t] = DirectionOutput(d, t)
  BY <1>3 DEF HInv, DirectionsHistory
<1>5. ASSUME NEW t \in 1 .. Len(call.input)
      PROVE  [d \in 1 .. net.directions |-> call.outputs[d][t]] =
             [d \in 1 .. net.directions |-> DirectionOutput(d, t)]
  BY <1>4
<1>6. LayerOutput =
        [t \in 1 .. Len(call.input) |->
          [parts |-> [d \in 1 .. net.directions |-> DirectionOutput(d, t)],
           dropped |-> net.dropout /\ call.layer < net.layers]]
  BY <1>2, <1>5 DEF LayerOutput
<1> QED
  BY <1>2, <1>6 DEF LayerOf, DirectionOutput, RowOf

\* The inputs of the next layer, or the output.
LEMMA NextLayer ==
  ASSUME HInv, call # None
  PROVE  InputsOf(call.layer + 1) = LayerOf(net, call.begin.h, call.layer, call.input)
<1> DEFINE start == call.begin.h
           xs == Inputs(call.request)
           l == call.layer
<1>1. l \in 1 .. net.layers /\ net.layers \in Nat
  BY CallFacts DEF IsNet
<1>2. call.input = LayerInputs(net, start, xs)[l]
  BY DEF HInv, CallHistory, InputsOf
<1>3. InputsOf(l + 1) = LayerInputs(net, start, xs)[l + 1]
  BY DEF InputsOf
<1> HIDE DEF start, xs, l
<1>4. \A m \in 1 .. net.layers :
        LayerInputs(net, start, xs)[m + 1] = LayerOf(net, start, m, LayerInputs(net, start, xs)[m])
  BY <1>1, LayerInputsDef
<1>5. InputsOf(l + 1) = LayerOf(net, start, l, LayerInputs(net, start, xs)[l])
  BY <1>1, <1>3, <1>4
<1> QED
  BY <1>2, <1>5 DEF start, xs, l

LEMMA HEndDirectionStep ==
  ASSUME HInv, NoneIsNoRecord, EndDirection
  PROVE  HInv'
<1> DEFINE run == call.run
           d == Direction
           outs == IF Direction = 1 THEN run.outputs ELSE Reverse(run.outputs)
<1>1. /\ call # None /\ run # None /\ ~(Len(run.outputs) < Len(call.input))
      /\ UNCHANGED <<net, hx, last, fed>> /\ DOMAIN call = CallFields
      /\ IsSequence(run.outputs) /\ Len(run.outputs) <= Len(call.input)
      /\ (IsLstm => run.c = CellOf(run.h))
  BY DEF EndDirection, Running, HInv, CallHistory, RunHistory
<1>2. /\ SameCall /\ call'.outputs = Append(call.outputs, outs)
      /\ call'.h = Append(call.h, run.h) /\ call'.c = Append(call.c, run.c)
      /\ call'.run = None
  BY <1>1 DEF EndDirection, CallFields, SameCall, Collected
<1>3. CallHistory'
  BY <1>1, <1>2, CallHistoryKept DEF HInv, SameCall
<1>4. /\ IsNet(net) /\ call.layer \in 1 .. net.layers /\ IsSequence(call.input)
      /\ Len(call.input) \in Nat \ {0}
  BY <1>1, CallFacts
<1>5. Len(run.outputs) = Len(call.input)
  BY <1>1, <1>4 DEF IsSequence
<1>6. /\ IsSequence(call.outputs) /\ Len(call.outputs) \in Nat
      /\ d = Len(call.outputs) + 1 /\ d \in 1 .. net.directions
  BY <1>1 DEF HInv, DirectionsHistory, RunHistory, IsSequence, Direction
<1>7. IsSequence(outs) /\ Len(outs) = Len(call.input)
      /\ \A t \in 1 .. Len(call.input) : outs[t] = DirectionOutput(d, t)
  <2>1. \A k \in 1 .. Len(call.input) : run.outputs[k] = RunRow(k)
    BY <1>1, <1>5 DEF HInv, RunHistory
  <2>2. CASE Direction = 1
    BY <1>1, <1>5, <2>1, <2>2 DEF RunRow, DirectionOutput
  <2>3. CASE Direction # 1
    <3> DEFINE s == run.outputs
               n == Len(call.input)
    <3>1. IsSequence(s)
      BY <1>1
    <3>2. Len(s) = n /\ n \in Nat /\ \A k \in 1 .. n : s[k] = RunRow(k)
      BY <1>4, <1>5, <2>1
    <3> HIDE DEF s, n
    <3>3. IsSequence(Reverse(s)) /\ Len(Reverse(s)) = Len(s)
          /\ \A i \in 1 .. Len(s) : Reverse(s)[i] = s[Len(s) - i + 1]
      BY <3>1, ReverseSequence
    <3>4. ASSUME NEW t \in 1 .. n
          PROVE  Reverse(s)[t] = RunRow(n - t + 1)
      <4>1. n - t + 1 \in 1 .. n
        BY <3>2
      <4> QED
        BY <3>2, <3>3, <4>1
    <3>5. \A t \in 1 .. n : RunRow(n - t + 1) = DirectionOutput(d, t)
      BY <2>3 DEF RunRow, DirectionOutput, n
    <3>6. outs = Reverse(s)
      BY <2>3 DEF s
    <3> HIDE DEF outs
    <3>7. IsSequence(outs) /\ Len(outs) = n /\ \A t \in 1 .. n : outs[t] = DirectionOutput(d, t)
      BY <3>2, <3>3, <3>4, <3>5, <3>6
    <3> QED
      BY <3>7 DEF n
  <2> QED
    BY <2>2, <2>3
<1> HIDE DEF outs
<1>8. /\ IsSequence(call'.outputs) /\ Len(call'.outputs) = d
      /\ \A i \in 1 .. Len(call.outputs) : call'.outputs[i] = call.outputs[i]
      /\ call'.outputs[d] = outs
  <2> DEFINE s == call.outputs
  <2> HIDE DEF s
  <2>1. IsSequence(s)
    BY <1>6 DEF s
  <2>2. /\ IsSequence(Append(s, outs)) /\ Len(Append(s, outs)) = Len(s) + 1
        /\ \A i \in 1 .. Len(s) : Append(s, outs)[i] = s[i]
        /\ Append(s, outs)[Len(s) + 1] = outs
    BY <2>1, AppendSequence
  <2>3. call'.outputs = Append(s, outs) /\ d = Len(s) + 1
    BY <1>2, <1>6 DEF s
  <2> HIDE DEF d
  <2>4. /\ IsSequence(call'.outputs) /\ Len(call'.outputs) = d
        /\ \A i \in 1 .. Len(s) : call'.outputs[i] = s[i]
        /\ call'.outputs[d] = outs
    BY <2>2, <2>3
  <2> QED
    BY <2>4 DEF s
<1> HIDE DEF d
<1>9. ASSUME NEW e \in 1 .. Len(call'.outputs)
      PROVE  /\ IsSequence(call'.outputs[e]) /\ Len(call'.outputs[e]) = Len(call.input)
             /\ \A t \in 1 .. Len(call.input) : call'.outputs[e][t] = DirectionOutput(e, t)
  <2>1. CASE e \in 1 .. Len(call.outputs)
    BY <1>1, <1>8, <2>1 DEF HInv, DirectionsHistory
  <2>2. CASE e = d
    BY <1>7, <1>8, <2>2
  <2> QED
    BY <1>6, <1>8, <2>1, <2>2
<1>10. DirectionsHistory'
  <2>1. Len(call'.outputs) <= net'.directions
    BY <1>1, <1>6, <1>8
  <2> QED
    BY <1>1, <1>2, <1>8, <1>9, <2>1, SameRows DEF DirectionsHistory, SameCall
<1>11. /\ IsSequence(call.h) /\ IsSequence(call.c) /\ Len(call.c) = Len(call.h)
       /\ Len(call.h) = (call.layer - 1) * net.directions + Len(call.outputs)
       /\ \A i \in 1 .. Len(call.h) : call.h[i] = FinalRow(i)
       /\ IsLstm => \A i \in 1 .. Len(call.c) : call.c[i] = CellOf(call.h[i])
       /\ Len(call.h) \in Nat
  BY <1>1 DEF HInv, FinalHistory, IsSequence
<1> DEFINE i == StateIndexOf(net, call.layer, d)
<1>12. Len(call.h) + 1 = i
  <2>1. (call.layer - 1) * net.directions \in Nat
    <3>1. CASE net.directions = 1
      BY <1>4, <3>1 DEF IsNet
    <3>2. CASE net.directions = 2
      BY <1>4, <3>2 DEF IsNet
    <3> QED
      BY <1>4, <3>1, <3>2 DEF IsNet
  <2> QED
    BY <1>6, <1>11, <2>1 DEF StateIndexOf
<1>13. run.h = FinalRow(i)
  <2> DEFINE start == call.begin.h
             xs == Inputs(call.request)
             l == call.layer
             input == call.input
  <2>1. /\ i \in 1 .. net.layers * net.directions
        /\ LayerOfIndex(net, i) = l /\ DirectionOfIndex(net, i) = d
    BY <1>4, <1>6, IndexRange
  <2>2. FinalRow(i) = ReferenceFinal(net, start, xs)[i] /\ input = LayerInputs(net, start, xs)[l]
    BY <1>1 DEF FinalRow, HInv, CallHistory, InputsOf
  <2>3. run.h = ReadTo(start[i], l, d, input, Len(input))
    BY <1>1, <1>5 DEF HInv, RunHistory, RunRow, RowOf, d
  <2>4. IsSequence(input)
    BY <1>4
  <2> HIDE DEF start, xs, l, i, input
  <2>5. ReadTo(start[i], l, d, input, Len(input)) = AfterReading(start[i], l, d, input)
    BY <2>4, ReadToAll
  <2>6. ReferenceFinal(net, start, xs)[i] =
          AfterReading(start[i], LayerOfIndex(net, i), DirectionOfIndex(net, i),
                       LayerInputs(net, start, xs)[LayerOfIndex(net, i)])
    BY <1>4, <2>1, FinalIsReading
  <2> QED
    BY <2>1, <2>2, <2>3, <2>5, <2>6
<1> HIDE DEF i
<1>14. /\ IsSequence(call'.h) /\ Len(call'.h) = Len(call.h) + 1
       /\ \A j \in 1 .. Len(call.h) : call'.h[j] = call.h[j]
       /\ call'.h[Len(call.h) + 1] = run.h
  <2> DEFINE s == call.h
             x == run.h
  <2> HIDE DEF s, x
  <2>1. IsSequence(s)
    BY <1>11 DEF s
  <2>2. /\ IsSequence(Append(s, x)) /\ Len(Append(s, x)) = Len(s) + 1
        /\ \A j \in 1 .. Len(s) : Append(s, x)[j] = s[j]
        /\ Append(s, x)[Len(s) + 1] = x
    BY <2>1, AppendSequence
  <2> QED
    BY <1>2, <2>2 DEF s, x
<1>15. /\ IsSequence(call'.c) /\ Len(call'.c) = Len(call.c) + 1
       /\ \A j \in 1 .. Len(call.c) : call'.c[j] = call.c[j]
       /\ call'.c[Len(call.c) + 1] = run.c
  <2> DEFINE s == call.c
             x == run.c
  <2> HIDE DEF s, x
  <2>1. IsSequence(s)
    BY <1>11 DEF s
  <2>2. /\ IsSequence(Append(s, x)) /\ Len(Append(s, x)) = Len(s) + 1
        /\ \A j \in 1 .. Len(s) : Append(s, x)[j] = s[j]
        /\ Append(s, x)[Len(s) + 1] = x
    BY <2>1, AppendSequence
  <2> QED
    BY <1>2, <2>2 DEF s, x
<1>16. FinalHistory'
  <2>1. Len(call'.h) = (call'.layer - 1) * net'.directions + Len(call'.outputs)
    <3>1. call'.layer = call.layer /\ net' = net
      BY <1>1, <1>2 DEF SameCall
    <3>2. Len(call'.h) = StateIndexOf(net, call.layer, d)
      BY <1>12, <1>14 DEF i
    <3> QED
      BY <1>8, <3>1, <3>2 DEF StateIndexOf
  <2>2. \A j \in 1 .. Len(call'.h) : j \in 1 .. Len(call.h) \/ j = Len(call.h) + 1
    BY <1>11, <1>14
  <2>3. \A j \in 1 .. Len(call'.h) : call'.h[j] = FinalRow(j)
    BY <1>11, <1>12, <1>13, <1>14, <2>2
  <2>4. IsLstm => \A j \in 1 .. Len(call'.c) : call'.c[j] = CellOf(call'.h[j])
    BY <1>1, <1>11, <1>14, <1>15, <2>2
  <2> QED
    BY <1>1, <1>2, <1>11, <1>14, <1>15, <2>1, <2>3, <2>4, SameRows DEF FinalHistory, IsLstm
<1>17. RunHistory'
  BY <1>2 DEF RunHistory
<1> QED
  BY <1>1, <1>3, <1>10, <1>16, <1>17, CallGoesOn DEF HInv

LEMMA AllDirections ==
  ASSUME HInv, call # None, Direction > net.directions
  PROVE  /\ Len(call.outputs) = net.directions
         /\ Len(call.h) = call.layer * net.directions
<1>1. /\ IsNet(net) /\ call.layer \in 1 .. net.layers
      /\ net.layers \in Nat /\ net.directions \in {1, 2}
  BY CallFacts DEF IsNet
<1>2. Len(call.outputs) \in Nat /\ Len(call.outputs) <= net.directions
  BY DEF HInv, DirectionsHistory, IsSequence
<1>3. Len(call.outputs) = net.directions
  BY <1>1, <1>2 DEF Direction
<1>4. Len(call.h) = (call.layer - 1) * net.directions + net.directions
  BY <1>3 DEF HInv, FinalHistory
<1>5. CASE net.directions = 1
  BY <1>1, <1>3, <1>4, <1>5
<1>6. CASE net.directions = 2
  BY <1>1, <1>3, <1>4, <1>6
<1> QED
  BY <1>1, <1>5, <1>6

LEMMA HEndLayerStep ==
  ASSUME HInv, NoneIsNoRecord, EndLayer
  PROVE  HInv'
<1>1. /\ call # None /\ call.run = None /\ Direction > net.directions
      /\ call.layer < net.layers
      /\ UNCHANGED <<net, hx, last, fed>> /\ DOMAIN call = CallFields
  BY DEF EndLayer, HInv, CallHistory
<1>2. /\ DOMAIN call' = CallFields /\ call'.request = call.request /\ call'.begin = call.begin
      /\ call'.layer = call.layer + 1 /\ call'.input = LayerOutput /\ call'.outputs = <<>>
      /\ call'.h = call.h /\ call'.c = call.c /\ call'.run = None
  BY <1>1 DEF EndLayer, CallFields
<1>3. /\ IsNet(net) /\ call.layer \in 1 .. net.layers
      /\ net.layers \in Nat /\ net.directions \in Nat
  BY <1>1, CallFacts DEF IsNet
<1>4. call'.input = InputsOf(call.layer + 1)
  BY <1>1, <1>2, LayerOutputIs, NextLayer
<1>5. CallHistory'
  <2>1. call'.layer \in 1 .. net'.layers
    BY <1>1, <1>2, <1>3
  <2>2. call'.input = InputsOf(call.layer)'
    BY <1>1, <1>2, <1>4 DEF InputsOf, Inputs
  <2> QED
    BY <1>1, <1>2, <2>1, <2>2
    DEF HInv, CallHistory, BeginRows, StartRows, Start, States, IsLstm, CellRows, Requests
<1>6. Len(<<>>) = 0 /\ IsSequence(<<>>)
  BY DEF IsSequence
<1>7. DirectionsHistory'
  BY <1>1, <1>2, <1>3, <1>6 DEF DirectionsHistory
<1>8. FinalHistory'
  <2>1. Len(call'.h) = (call'.layer - 1) * net'.directions + Len(call'.outputs)
    <3>1. Len(call.h) = call.layer * net.directions
      BY <1>1, AllDirections
    <3>2. (call.layer + 1) - 1 = call.layer
      BY <1>3
    <3>3. Len(call.h) \in Nat
      BY <1>1 DEF HInv, FinalHistory, IsSequence
    <3> QED
      BY <1>1, <1>2, <1>6, <3>1, <3>2, <3>3
  <2>2. \A i : FinalRow(i)' = FinalRow(i)
    BY <1>1, <1>2 DEF FinalRow, Inputs
  <2> QED
    BY <1>1, <1>2, <2>1, <2>2 DEF HInv, FinalHistory, IsLstm
<1>9. RunHistory'
  BY <1>2 DEF RunHistory
<1> QED
  BY <1>1, <1>5, <1>7, <1>8, <1>9, CallGoesOn DEF HInv

\* What a call of all its layers has computed.
LEMMA WholeCall ==
  ASSUME HInv, call # None, call.run = None, Direction > net.directions,
         call.layer = net.layers
  PROVE  LET q == call.request
         IN  /\ LayerOutput = ReferenceOutput(net, call.begin.h, Inputs(q))
             /\ OutputState.h = ReferenceFinal(net, call.begin.h, Inputs(q))
             /\ IsLstm => OutputState.c = CellRows(OutputState.h)
             /\ DOMAIN OutputState = StateFields
             /\ OutputState.dtype \in Dtypes /\ OutputState.batch \in 1 .. 2
<1> DEFINE q == call.request
           start == call.begin.h
           xs == Inputs(q)
<1>1. LayerOutput = ReferenceOutput(net, call.begin.h, Inputs(q))
  BY LayerOutputIs, NextLayer DEF InputsOf, ReferenceOutput
<1>2. IsNet(net) /\ States = net.layers * net.directions
  BY NetIsNet DEF HInv, CarriedHistory
<1>3. IsSequence(call.h) /\ Len(call.h) = States
  BY <1>2, AllDirections DEF HInv, FinalHistory
<1>4. call.h = ReferenceFinal(net, start, xs)
  <2>1. \A i \in 1 .. States : call.h[i] = ReferenceFinal(net, start, xs)[i]
    BY <1>3 DEF HInv, FinalHistory, FinalRow
  <2>2. call.h = [i \in 1 .. States |-> call.h[i]]
    BY <1>3 DEF IsSequence
  <2>3. ReferenceFinal(net, start, xs) = [i \in 1 .. States |-> ReferenceFinal(net, start, xs)[i]]
    <3> HIDE DEF start, xs
    <3> QED
      BY <1>2, FinalIsReading
  <2> HIDE DEF start, xs
  <2> QED
    BY <2>1, <2>2, <2>3
<1>5. IsLstm => call.c = CellRows(call.h)
  <2> SUFFICES ASSUME IsLstm PROVE call.c = CellRows(call.h)
    OBVIOUS
  <2>1. call.c = [i \in 1 .. States |-> call.c[i]]
    BY <1>3 DEF HInv, FinalHistory, IsSequence
  <2>2. \A i \in 1 .. States : call.c[i] = CellOf(call.h[i])
    BY <1>3 DEF HInv, FinalHistory
  <2> QED
    BY <2>1, <2>2 DEF CellRows
<1>6. q.batch \in 1 .. 2
  BY DEF HInv, CallHistory, Requests
<1>7. /\ OutputState.h = call.h /\ (IsLstm => OutputState.c = call.c)
      /\ DOMAIN OutputState = StateFields /\ OutputState.batch = q.batch
      /\ OutputState.dtype \in Dtypes
  BY DEF OutputState, StateFields, OutputDtype, Dtypes
<1> QED
  BY <1>1, <1>4, <1>5, <1>6, <1>7

LEMMA EmptyConcat ==
  ASSUME NEW xs, IsSequence(xs)
  PROVE  <<>> \o xs = xs
  BY SequenceIsSeq, ConcatEmptySeq

LEMMA SubSequenceOfAll ==
  ASSUME NEW xs, IsSequence(xs), Len(xs) > 0
  PROVE  SubSeq(xs, 1, Len(xs)) = xs
<1> DEFINE n == Len(xs)
           all == SubSeq(xs, 1, n)
<1>1. n \in Nat /\ 1 <= n + 1 /\ n <= Len(xs) /\ n - 1 + 1 = n
  BY DEF IsSequence
<1>2. all = [i \in 1 .. n |-> xs[1 + i - 1]]
  BY <1>1
<1>3. \A i \in 1 .. n : 1 + i - 1 = i
  BY <1>1
<1>4. all = [i \in 1 .. n |-> xs[i]]
  <2> HIDE DEF all, n
  <2> QED
    BY <1>2, <1>3
<1> QED
  BY <1>4 DEF IsSequence

LEMMA HReturnStep ==
  ASSUME HInv, NoneIsNoRecord, Return
  PROVE  HInv'
<1> DEFINE q == call.request
           xs == Inputs(q)
           start == call.begin.h
<1>1. /\ call # None /\ call.run = None /\ Direction > net.directions
      /\ call.layer = net.layers /\ call' = None /\ net' = net
      /\ hx' = IF Commits(q) THEN OutputState ELSE hx
      /\ fed' = IF Commits(q) THEN fed \o xs ELSE fed
      /\ last' = [request |-> q, outcome |-> "returned", output |-> LayerOutput]
  BY DEF Return, Commits
<1>2. /\ LayerOutput = ReferenceOutput(net, start, xs)
      /\ OutputState.h = ReferenceFinal(net, start, xs)
      /\ IsLstm => OutputState.c = CellRows(OutputState.h)
      /\ DOMAIN OutputState = StateFields
      /\ OutputState.dtype \in Dtypes /\ OutputState.batch \in 1 .. 2
  BY <1>1, WholeCall
<1>3. /\ q \in Requests /\ start = BeginRows(q) /\ IsSequence(fed) /\ Len(fed) \in Nat
      /\ net \in Layers
  BY <1>1 DEF HInv, CallHistory, CarriedHistory, IsSequence
<1>4. /\ IsSequence(xs) /\ Len(xs) = q.steps /\ q.steps \in Nat \ {0} /\ IsNet(net)
  BY <1>1, <1>3, InputsAreSequence, NetIsNet
<1>5. StartRows' = StartRows /\ Start("given", "fp32", Host, 1).h' = Start("given", "fp32", Host, 1).h
  BY <1>1 DEF StartRows, Start, States, IsLstm
<1>6. LastInv'
  BY <1>1, <1>3 DEF LastInv, Requests
<1>7. CASE ~Commits(q)
  <2>1. UNCHANGED <<net, hx, fed>>
    BY <1>1, <1>7
  <2>2. CarriedHistory'
    BY <2>1, CarriedKept DEF HInv
  <2>3. Inputs(last.request)' = xs /\ last'.request = q /\ last'.output = LayerOutput
    BY <1>1, <2>1 DEF Inputs
  <2>4. q.hx = "given" \/ (q.hx # "given" /\ ~net.stateful)
    BY <1>3, <1>7 DEF Commits, Requests
  <2>5. OutputsAreUnbroken'
    <3>1. CASE q.hx = "given"
      <4>1. last'.output = ReferenceOutput(net, Start("given", "fp32", Host, 1).h, xs)
        BY <1>2, <1>3, <2>3, <3>1 DEF BeginRows
      <4> QED
        BY <1>1, <1>5, <2>3, <3>1, <4>1 DEF OutputsAreUnbroken
    <3>2. CASE q.hx # "given" /\ ~net.stateful
      <4>1. last'.output = ReferenceOutput(net, StartRows, xs)
        BY <1>2, <1>3, <2>3, <3>2 DEF BeginRows
      <4> QED
        BY <1>1, <1>5, <2>3, <3>2, <4>1 DEF OutputsAreUnbroken
    <3> QED
      BY <2>4, <3>1, <3>2
  <2> QED
    BY <1>1, <1>6, <2>2, <2>5, NoCallHistory DEF HInv
<1>8. CASE Commits(q)
  <2> DEFINE whole == fed \o xs
  <2>1. /\ net.stateful /\ q.hx = "none" /\ hx' = OutputState /\ fed' = whole
        /\ net.directions = 1
    BY <1>1, <1>3, <1>8, NetIsNet DEF Commits
  <2>2. IsSequence(whole) /\ Len(whole) = Len(fed) + Len(xs)
    <3> HIDE DEF xs
    <3>1. IsSequence(xs)
      BY <1>4
    <3>2. IsSequence(fed)
      BY <1>3
    <3> QED
      BY <3>1, <3>2, ConcatSequence
  <2>3. AreRows(net, StartRows)
    BY StartsAreRows DEF StartRows
  <2>4. /\ ReferenceFinal(net, start, xs) = ReferenceFinal(net, StartRows, whole)
        /\ ReferenceOutput(net, start, xs) =
             SubSeq(ReferenceOutput(net, StartRows, whole), Len(fed) + 1, Len(fed) + Len(xs))
    <3>1. CASE hx = None
      <4>1. start = StartRows /\ fed = <<>>
        BY <1>3, <2>1, <3>1 DEF BeginRows, HInv, CarriedHistory
      <4>2. whole = xs
        <5> HIDE DEF xs
        <5>1. IsSequence(xs)
          BY <1>4
        <5> QED
          BY <4>1, <5>1, EmptyConcat
      <4>3. Len(fed) + 1 = 1 /\ Len(fed) + Len(xs) = Len(xs)
        BY <1>4, <4>1
      <4> DEFINE out == ReferenceOutput(net, StartRows, xs)
                 rows == StartRows
      <4>4. IsSequence(out) /\ Len(out) = Len(xs)
        <5> HIDE DEF xs, rows
        <5>1. IsSequence(xs)
          BY <1>4
        <5>2. IsNet(net)
          BY <1>4
        <5>3. IsSequence(ReferenceOutput(net, rows, xs)) /\ Len(ReferenceOutput(net, rows, xs)) = Len(xs)
          BY <5>1, <5>2, OutputIsSequence
        <5> QED
          BY <5>3 DEF rows
      <4> HIDE DEF xs, out
      <4>5. SubSeq(out, 1, Len(out)) = out
        <5>1. IsSequence(out)
          BY <4>4
        <5>2. Len(out) > 0
          BY <1>4, <4>4
        <5> QED
          BY <5>1, <5>2, SubSequenceOfAll
      <4> QED
        BY <4>1, <4>2, <4>3, <4>4, <4>5 DEF out
    <3>2. CASE hx # None
      <4> DEFINE rows == StartRows
      <4>1. start = ReferenceFinal(net, rows, fed)
        BY <1>3, <2>1, <3>2 DEF BeginRows, HInv, CarriedHistory
      <4> HIDE DEF xs, rows
      <4>2. IsNet(net)
        BY <1>4
      <4>3. IsSequence(xs)
        BY <1>4
      <4>4. IsSequence(fed)
        BY <1>3
      <4>5. AreRows(net, rows)
        BY <2>3 DEF rows
      <4>6. net.directions = 1
        BY <2>1
      <4>7. ReferenceFinal(net, rows, fed \o xs) =
              ReferenceFinal(net, ReferenceFinal(net, rows, fed), xs)
        BY <4>2, <4>3, <4>4, <4>5, <4>6, FinalSplit
      <4>8. ReferenceOutput(net, ReferenceFinal(net, rows, fed), xs) =
              SubSeq(ReferenceOutput(net, rows, fed \o xs), Len(fed) + 1, Len(fed) + Len(xs))
        BY <4>2, <4>3, <4>4, <4>5, <4>6, OutputSplit
      <4> QED
        BY <4>1, <4>7, <4>8 DEF rows
    <3> QED
      BY <3>1, <3>2
  <2>5. hx' # None
    BY <1>2, <2>1 DEF NoneIsNoRecord
  <2>6. whole # <<>>
    <3>1. Len(whole) > 0
      BY <1>3, <1>4, <2>2
    <3> HIDE DEF whole
    <3> QED
      BY <3>1
  <2>7. CarriedHistory'
    <3>1. hx'.h = ReferenceFinal(net, StartRows, fed')
      BY <1>2, <2>1, <2>4
    <3>2. IsLstm' => hx'.c = CellRows(hx.h)'
      BY <1>1, <1>2, <2>1 DEF IsLstm, CellRows, States
    <3> HIDE DEF whole
    <3> QED
      BY <1>1, <1>2, <1>3, <1>5, <2>1, <2>2, <2>5, <2>6, <3>1, <3>2 DEF CarriedHistory
  <2>8. OutputsAreUnbroken'
    <3>1. Len(fed') - q.steps + 1 = Len(fed) + 1 /\ Len(fed') = Len(fed) + Len(xs)
      BY <1>3, <1>4, <2>1, <2>2
    <3>2. last'.output = SubSeq(ReferenceOutput(net, StartRows, fed'), Len(fed') - q.steps + 1, Len(fed'))
      BY <1>1, <1>2, <2>1, <2>4, <3>1
    <3>3. last'.request = q
      BY <1>1
    <3> HIDE DEF whole
    <3> QED
      BY <1>1, <1>5, <2>1, <3>2, <3>3 DEF OutputsAreUnbroken
  <2> QED
    BY <1>1, <1>6, <2>7, <2>8, NoCallHistory DEF HInv
<1> QED
  BY <1>7, <1>8

-----------------------------------------------------------------------------
LEMMA HInit == Init => HInv
<1> SUFFICES ASSUME Init PROVE HInv
  OBVIOUS
<1>1. IsSequence(<<>>)
  BY DEF IsSequence
<1> QED
  BY <1>1 DEF Init, HInv, CarriedHistory, CallHistory, DirectionsHistory, FinalHistory, RunHistory,
     LastInv, OutputsAreUnbroken, NoResult

LEMMA HNext ==
  ASSUME NoneIsNoRecord
  PROVE  HInv /\ [Next]_vars => HInv'
<1> SUFFICES ASSUME HInv, [Next]_vars PROVE HInv'
  OBVIOUS
<1>1. CASE UNCHANGED vars
  <2>1. UNCHANGED <<net, hx, call, last, fed>>
    BY <1>1 DEF vars
  <2>2. CarriedHistory' /\ LastInv' /\ OutputsAreUnbroken'
    BY <2>1, CallGoesOn
  <2>3. CASE call = None
    BY <2>1, <2>2, <2>3, NoCallHistory DEF HInv
  <2>4. CASE call # None
    <3>1. SameCall
      BY <2>1, <2>4 DEF HInv, CallHistory, SameCall
    <3>2. CallHistory'
      BY <2>1, <2>4, <3>1, CallHistoryKept DEF HInv, SameCall
    <3>3. DirectionsHistory' /\ FinalHistory'
      BY <2>1, <2>4, <3>1, SameDirections
    <3>4. (\A k : RunRow(k)' = RunRow(k)) /\ Direction' = Direction
      BY <2>1, <3>1, SameRows DEF RunRow, Direction, SameCall
    <3>5. RunHistory'
      BY <2>1, <3>4 DEF HInv, RunHistory, IsLstm
    <3> QED
      BY <2>2, <3>2, <3>3, <3>5 DEF HInv
  <2> QED
    BY <2>3, <2>4
<1> QED
  BY <1>1, HBetweenCalls, HForwardStep, HRunDirectionStep, HAffineStep, HCellStepStep,
     HCellRaisesStep, HEndDirectionStep, HEndLayerStep, HReturnStep DEF Next

DInv == IInv /\ HInv /\ DepthHistory /\ device \in Devices

LEMMA DepthNext ==
  ASSUME NoneIsNoRecord, DInv, [Next]_vars
  PROVE  DepthHistory'
<1>1. CASE call' = None
  BY <1>1 DEF DepthHistory
<1>2. Len(frames) \in Nat /\ (call # None => call.depth \in Nat)
  BY FramesLength DEF DInv
<1>3. CASE UNCHANGED vars
  BY <1>3 DEF vars, context, DInv, DepthHistory
<1>4. CASE Forward
  <2>1. \E b, q : call' = [request |-> q, begin |-> b, input |-> Inputs(q),
                           inputDtype |-> q.dtype, layer |-> 1, outputs |-> <<>>,
                           h |-> <<>>, c |-> <<>>, dtypes |-> {},
                           run |-> None, depth |-> Len(frames)]
    BY <1>4 DEF Forward
  <2> QED
    BY <1>4, <2>1 DEF Forward, context, DepthHistory
<1>5. CASE RunDirection
  <2>1. call # None /\ call.run = None /\ call'.depth = call.depth /\ UNCHANGED context
    BY <1>5 DEF RunDirection, DInv, HInv, CallHistory, CallFields
  <2> QED
    BY <2>1 DEF DInv, DepthHistory, context
<1>6. CASE Affine
  <2>1. /\ call # None /\ call.run # None /\ call.run.gates = "none"
        /\ DOMAIN call = CallFields /\ DOMAIN call.run = RunFields
        /\ call' = [call EXCEPT !.run.gates = RecurrenceDtype(LinearDtype)]
    BY <1>6 DEF Affine, Running, DInv, HInv, CallHistory, RunHistory
  <2>2. /\ call'.depth = call.depth /\ DOMAIN call'.run = RunFields
        /\ call'.run.gates = RecurrenceDtype(LinearDtype)
    BY <2>1 DEF CallFields, RunFields
  <2>3. RecurrenceDtype(LinearDtype) # "none"
    BY DEF RecurrenceDtype, LinearDtype, DInv, IInv, CallInv, Dtypes
  <2>4. call'.run # None
    BY <2>2 DEF NoneIsNoRecord
  <2>5. Len(frames) = call.depth
    BY <2>1 DEF DInv, DepthHistory
  <2>6. CASE EnterTorchDisabled
    <3>1. Push("torch")
      BY <2>6 DEF EnterTorchDisabled
    <3>2. Len(frames') = Len(frames) + 1
      BY <3>1, PushKeeps DEF DInv, IInv
    <3> QED
      BY <1>2, <2>2, <2>3, <2>4, <2>5, <3>2 DEF DepthHistory
  <2>7. CASE UNCHANGED context
    BY <2>2, <2>3, <2>4, <2>5, <2>7 DEF DepthHistory, context
  <2> QED
    BY <1>6, <2>6, <2>7 DEF Affine
<1>7. CASE CellStep
  <2>1. /\ call # None /\ call'.depth = call.depth /\ LeaveSurrogate
    BY <1>7 DEF CellStep, Running, DInv, HInv, CallHistory, CallFields
  <2>2. Len(frames) \in {call.depth, call.depth + 1}
    BY <2>1 DEF DInv, DepthHistory
  <2>3. Len(frames') = call.depth
    <3>1. CASE Len(frames) > call.depth
      <4>1. Leave
        BY <2>1, <3>1 DEF LeaveSurrogate
      <4>2. Len(frames') = Len(frames) - 1
        BY <4>1, LeaveKeeps DEF DInv, IInv
      <4> QED
        BY <1>2, <2>1, <2>2, <3>1, <4>2
    <3>2. CASE ~(Len(frames) > call.depth)
      <4>1. UNCHANGED context
        BY <2>1, <3>2 DEF LeaveSurrogate
      <4> QED
        BY <1>2, <2>1, <2>2, <3>2, <4>1 DEF context
    <3> QED
      BY <3>1, <3>2
  <2> QED
    BY <2>1, <2>3 DEF DepthHistory
<1>8. CASE EndDirection
  <2>1. /\ call # None /\ call.run # None /\ ~Running
        /\ call'.depth = call.depth /\ UNCHANGED context
    BY <1>8 DEF EndDirection, DInv, HInv, CallHistory, CallFields
  <2>2. call.run.gates = "none"
    BY <2>1 DEF Running, DInv, HInv, RunHistory
  <2> QED
    BY <2>1, <2>2 DEF DInv, DepthHistory, context
<1>9. CASE EndLayer
  <2>1. call # None /\ call.run = None /\ call'.depth = call.depth /\ UNCHANGED context
    BY <1>9 DEF EndLayer, DInv, HInv, CallHistory, CallFields
  <2> QED
    BY <2>1 DEF DInv, DepthHistory, context
<1> QED
  BY <1>1, <1>3, <1>4, <1>5, <1>6, <1>7, <1>8, <1>9
  DEF Next, EnterContext, LeaveContext, Reset, Detach, Apply, Malformed, Refuse, CellRaises,
      Return, Raises

LEMMA DeviceNext ==
  ASSUME device \in Devices, [Next]_vars
  PROVE  device' \in Devices
  BY DEF Next, vars, EnterContext, LeaveContext, Reset, Detach, Apply, Malformed, Refuse,
         Forward, RunDirection, Affine, CellStep, CellRaises, EndDirection, EndLayer, Return,
         Raises

LEMMA DInvariance ==
  ASSUME NoneIsNoRecord
  PROVE  Spec => []DInv
<1>1. Init => DInv
  <2>1. Init => IInv /\ HInv
    BY InvInit, HInit
  <2>2. Init => DepthHistory /\ device \in Devices
    BY DEF Init, DepthHistory
  <2> QED
    BY <2>1, <2>2 DEF DInv
<1>2. DInv /\ [Next]_vars => DInv'
  BY InvNext, HNext, DepthNext, DeviceNext DEF DInv
<1> QED
  BY <1>1, <1>2, PTL DEF Spec

\* The state of the layer, of its call and of the contexts is well-formed at
\* any moment; in particular only the surrogate's own context is ever open on
\* top of the caller's.
THEOREM TypeCorrect ==
  ASSUME NoneIsNoRecord
  PROVE  Spec => []TypeOK
<1>1. DInv => TypeOK
  <2> SUFFICES ASSUME DInv PROVE TypeOK
    OBVIOUS
  <2>1. ASSUME hx # None PROVE Len(hx.h) = States
    <3>1. IsNet(net) /\ States = net.layers * net.directions /\ States \in Nat
      BY NetIsNet DEF DInv, HInv, CarriedHistory
    <3>2. hx.h = [i \in 1 .. States |-> hx.h[i]]
      BY <2>1, <3>1, FinalIsReading DEF DInv, HInv, CarriedHistory
    <3> QED
      BY <3>1, <3>2
  <2>2. net \in Layers /\ dtype \in Dtypes /\ last.outcome \in {"none", "malformed", "refused", "raised", "returned"}
    BY DEF DInv, IInv, CallInv, HInv, CarriedHistory, LastInv
  <2>3. hx # None => net.stateful /\ hx.dtype \in Dtypes /\ hx.batch \in 1 .. 2
    BY DEF DInv, HInv, CarriedHistory
  <2>4. call # None => call.layer \in 1 .. net.layers /\ Len(frames) \in {call.depth, call.depth + 1}
    BY DEF DInv, HInv, CallHistory, DepthHistory
  <2> QED
    BY <2>1, <2>2, <2>3, <2>4 DEF TypeOK, DInv
<1>2. Spec => []DInv
  BY DInvariance
<1> QED
  BY <1>1, <1>2, PTL

\* The carried state is that of one call over everything that was fed since the
\* last reset, whatever was raised, refused, given, detached or converted
\* meanwhile: for every layer, any number of calls of any length.
THEOREM CarriedStateIsUnbroken ==
  ASSUME NoneIsNoRecord
  PROVE  Spec => []CarriedIsUnbroken
<1>1. DInv => CarriedIsUnbroken
  BY DEF DInv, HInv, CarriedHistory, CarriedIsUnbroken, CellRows
<1>2. Spec => []DInv
  BY DInvariance
<1> QED
  BY <1>1, <1>2, PTL

\* What a call returns is the rest of the output of that one call, or that of a
\* call of its own from the state it was given.
THEOREM CallsOutputIsUnbroken ==
  ASSUME NoneIsNoRecord
  PROVE  Spec => []OutputsAreUnbroken
<1>1. DInv => OutputsAreUnbroken
  BY DEF DInv, HInv
<1>2. Spec => []DInv
  BY DInvariance
<1> QED
  BY <1>1, <1>2, PTL

-----------------------------------------------------------------------------
(* A batch sorted by length.                                               *)

Size(q) == Len(q.lengths)
RowsOf(q) == 1 .. Size(q)
\* The sequence in row p, and how many inputs it has.
SequenceIn(q, p) == OrderOf(q)[p]
OwnSteps(q, p) == q.lengths[SequenceIn(q, p)]
\* The steps of the batch and the rows of each.
StepsOf(q) == OwnSteps(q, 1)
Wide(q, t) == Cardinality({s \in RowsOf(q) : q.lengths[s] >= t})

IsBatch(q) ==
  /\ Size(q) \in Nat \ {0} /\ DOMAIN q.lengths = RowsOf(q)
  /\ \A s \in RowsOf(q) : q.lengths[s] \in Nat
  /\ \A p \in RowsOf(q) : SequenceIn(q, p) \in RowsOf(q)
  /\ \A s \in RowsOf(q) : \E p \in RowsOf(q) : SequenceIn(q, p) = s
  /\ \A p, o \in RowsOf(q) : p < o => SequenceIn(q, p) # SequenceIn(q, o)
  /\ \A p, o \in RowsOf(q) : p < o => OwnSteps(q, p) >= OwnSteps(q, o)

IsForm(q) ==
  /\ q.form \in {"packed", "dense", "unbatched"}
  /\ q.form # "packed" =>
       /\ q.sorted = None
       /\ \A s \in RowsOf(q) : q.lengths[s] = q.lengths[1]
  /\ q.form = "unbatched" => Size(q) = 1
  /\ q.form = "packed" => \A s \in RowsOf(q) : q.lengths[s] > 0
  /\ q.sorted # None => DOMAIN q.sorted = RowsOf(q)

LEMMA CallIsWellFormed ==
  ASSUME NEW q \in Calls
  PROVE  /\ IsNet(q) /\ IsBatch(q) /\ IsForm(q) /\ q # None
         /\ {q.lstm, q.batchFirst, q.dropout, q.given} \subseteq BOOLEAN
<1> DEFINE n == Len(q.lengths)
<1>1. /\ q.lengths \in Seq(Nat) /\ q.lengths # <<>>
      /\ q.layers \in Nat \ {0} /\ q.directions \in {1, 2} /\ q # None
      /\ {q.lstm, q.batchFirst, q.dropout, q.given} \subseteq BOOLEAN
      /\ q.form \in {"packed", "dense", "unbatched"}
  BY SequenceRecurrentAssumption
<1>2. n \in Nat \ {0} /\ DOMAIN q.lengths = 1 .. n /\ \A s \in 1 .. n : q.lengths[s] \in Nat
  BY <1>1, EmptySeq
<1>3. /\ q.form # "packed" =>
            /\ q.sorted = None
            /\ \A s \in DOMAIN q.lengths : q.lengths[s] = q.lengths[1]
      /\ q.form = "unbatched" => n = 1
  BY SequenceRecurrentAssumption
<1>4. ASSUME q.form = "packed"
      PROVE  /\ \A s \in 1 .. n : q.lengths[s] > 0
             /\ OrderOf(q) \in [1 .. n -> 1 .. n]
             /\ \A s \in 1 .. n : \E p \in 1 .. n : OrderOf(q)[p] = s
             /\ \A p, o \in 1 .. n : p < o =>
                  OrderOf(q)[p] # OrderOf(q)[o] /\ q.lengths[OrderOf(q)[p]] >= q.lengths[OrderOf(q)[o]]
  BY <1>4, SequenceRecurrentAssumption
<1>5. ASSUME q.form # "packed"
      PROVE  \A p \in 1 .. n : OrderOf(q)[p] = p
  BY <1>2, <1>3, <1>5 DEF OrderOf
<1>6. IsBatch(q)
  <2>1. CASE q.form = "packed"
    BY <1>2, <1>4, <2>1 DEF IsBatch, Size, RowsOf, SequenceIn, OwnSteps
  <2>2. CASE q.form # "packed"
    <3>1. \A p \in 1 .. n : OrderOf(q)[p] = p /\ q.lengths[p] = q.lengths[1] /\ q.lengths[p] \in Nat
      BY <1>2, <1>3, <1>5, <2>2
    <3> QED
      BY <1>2, <3>1 DEF IsBatch, Size, RowsOf, SequenceIn, OwnSteps
  <2> QED
    BY <2>1, <2>2
<1>7. IsForm(q)
  <2>1. q.sorted # None => DOMAIN q.sorted = 1 .. n
    BY <1>3, <1>4 DEF OrderOf
  <2> QED
    BY <1>1, <1>2, <1>3, <1>4, <2>1 DEF IsForm, Size, RowsOf
<1> QED
  BY <1>1, <1>6, <1>7 DEF IsNet

\* What is closed downwards is an interval.
LEMMA DownwardClosed ==
  ASSUME NEW n \in Nat, NEW P, P \subseteq 1 .. n,
         \A p \in P : \A o \in 1 .. p : o \in P
  PROVE  \E m \in 0 .. n : P = 1 .. m
<1> DEFINE Good == {k \in Nat : k <= n => \E m \in 0 .. k : P \cap (1 .. k) = 1 .. m}
<1>1. 0 \in Good
  <2>1. P \cap (1 .. 0) = 1 .. 0
    OBVIOUS
  <2> QED
    BY <2>1
<1>2. ASSUME NEW k \in Nat, k \in Good
      PROVE  k + 1 \in Good
  <2> SUFFICES ASSUME k + 1 <= n
               PROVE  \E m \in 0 .. k + 1 : P \cap (1 .. k + 1) = 1 .. m
    OBVIOUS
  <2>1. CASE k + 1 \in P
    <3>1. P \cap (1 .. k + 1) = 1 .. k + 1
      BY <2>1
    <3> QED
      BY <3>1
  <2>2. CASE k + 1 \notin P
    <3>1. PICK m \in 0 .. k : P \cap (1 .. k) = 1 .. m
      BY <1>2
    <3>2. P \cap (1 .. k + 1) = P \cap (1 .. k)
      BY <2>2
    <3> QED
      BY <3>1, <3>2
  <2> QED
    BY <2>1, <2>2
<1>3. n \in Good
  <2> HIDE DEF Good
  <2> QED
    BY <1>1, <1>2, NatInductionOnSet
<1>4. PICK m \in 0 .. n : P \cap (1 .. n) = 1 .. m
  BY <1>3
<1> QED
  BY <1>4

\* The rows of a step are those of the sequences that have it.
LEMMA Shape ==
  ASSUME NEW q, IsBatch(q), NEW t \in Nat
  PROVE  /\ Wide(q, t) \in 0 .. Size(q)
         /\ \A p \in RowsOf(q) : p <= Wide(q, t) <=> OwnSteps(q, p) >= t
<1> DEFINE n == Size(q)
           P == {p \in 1 .. n : OwnSteps(q, p) >= t}
           S == {s \in 1 .. n : q.lengths[s] >= t}
<1>1. /\ n \in Nat \ {0}
      /\ \A p \in 1 .. n : SequenceIn(q, p) \in 1 .. n
      /\ \A s \in 1 .. n : \E p \in 1 .. n : SequenceIn(q, p) = s
      /\ \A p, o \in 1 .. n : p < o => SequenceIn(q, p) # SequenceIn(q, o)
      /\ \A p, o \in 1 .. n : p < o => OwnSteps(q, p) >= OwnSteps(q, o)
  BY DEF IsBatch, RowsOf
<1>2. \A p \in 1 .. n : OwnSteps(q, p) \in Nat
  BY DEF IsBatch, RowsOf, OwnSteps
<1> HIDE DEF n
<1>3. ASSUME NEW p \in P, NEW o \in 1 .. p
      PROVE  o \in P
  <2>1. o \in 1 .. n /\ p \in 1 .. n /\ (o = p \/ o < p)
    BY <1>1
  <2>2. OwnSteps(q, o) >= OwnSteps(q, p)
    BY <1>1, <1>2, <2>1
  <2> QED
    BY <1>2, <2>1, <2>2
<1>4. PICK m \in 0 .. n : P = 1 .. m
  <2>1. P \subseteq 1 .. n
    OBVIOUS
  <2> HIDE DEF P
  <2> QED
    BY <1>1, <1>3, <2>1, DownwardClosed
<1>5. ExistsBijection(1 .. m, S)
  <2> DEFINE f == [p \in 1 .. m |-> SequenceIn(q, p)]
  <2>0. m \in Nat /\ \A p \in 1 .. m : p \in 1 .. n /\ OwnSteps(q, p) >= t
    BY <1>4
  <2>1. f \in [1 .. m -> S]
    BY <1>1, <2>0 DEF OwnSteps
  <2>2. ASSUME NEW p \in 1 .. m, NEW o \in 1 .. m, f[p] = f[o]
        PROVE  p = o
    <3>1. SequenceIn(q, p) = SequenceIn(q, o)
      BY <2>2
    <3>2. ~(p < o) /\ ~(o < p)
      BY <1>1, <2>0, <3>1
    <3> QED
      BY <3>2
  <2>3. ASSUME NEW s \in S
        PROVE  \E p \in 1 .. m : f[p] = s
    <3>1. PICK p \in 1 .. n : SequenceIn(q, p) = s
      BY <1>1
    <3>2. p \in P
      BY <3>1 DEF OwnSteps
    <3> QED
      BY <1>4, <3>1, <3>2
  <2> HIDE DEF f
  <2>4. f \in Bijection(1 .. m, S)
    BY <2>1, <2>2, <2>3 DEF Bijection, Injection, Surjection, IsInjective
  <2> QED
    BY <2>4 DEF ExistsBijection
<1>6. Wide(q, t) = m
  <2>1. Cardinality(S) = m
    <3> HIDE DEF S
    <3> QED
      BY <1>4, <1>5, FS_CountingElements
  <2> QED
    BY <2>1 DEF Wide, RowsOf, n
<1>7. \A p \in 1 .. n : p <= m <=> OwnSteps(q, p) >= t
  BY <1>4
<1> QED
  BY <1>4, <1>6, <1>7 DEF RowsOf, n

\* What a call that is not turned away runs over.
Runs(q) == IsNet(q) /\ IsBatch(q) /\ IsForm(q) /\ StepsOf(q) > 0

LEMMA ShapeOfRun ==
  ASSUME NEW q, Runs(q)
  PROVE  /\ StepsOf(q) \in Nat \ {0} /\ Size(q) \in Nat \ {0}
         /\ \A p \in RowsOf(q) : OwnSteps(q, p) \in 1 .. StepsOf(q)
         /\ \A t \in 1 .. StepsOf(q) : Wide(q, t) \in 1 .. Size(q)
         /\ Wide(q, 1) = Size(q)
<1>1. /\ Size(q) \in Nat \ {0} /\ 1 \in RowsOf(q)
      /\ \A p, o \in RowsOf(q) : p < o => OwnSteps(q, p) >= OwnSteps(q, o)
  BY DEF Runs, IsBatch, RowsOf
<1>2. \A p \in RowsOf(q) : SequenceIn(q, p) \in RowsOf(q) /\ OwnSteps(q, p) \in Nat
  BY DEF Runs, IsBatch, OwnSteps
<1>3. StepsOf(q) \in Nat \ {0}
  BY <1>1, <1>2 DEF StepsOf, Runs
<1>4. ASSUME NEW p \in RowsOf(q)
      PROVE  OwnSteps(q, p) \in 1 .. StepsOf(q)
  <2>1. OwnSteps(q, p) <= StepsOf(q)
    <3>1. CASE p = 1
      BY <1>2, <3>1 DEF StepsOf
    <3>2. CASE 1 < p
      <4>1. OwnSteps(q, 1) >= OwnSteps(q, p)
        BY <1>1, <3>2
      <4> QED
        BY <1>2, <1>1, <4>1 DEF StepsOf
    <3> QED
      BY <1>1, <3>1, <3>2 DEF RowsOf
  <2>2. OwnSteps(q, p) > 0
    <3>1. CASE q.form = "packed"
      BY <1>2, <3>1 DEF Runs, IsForm, OwnSteps
    <3>2. CASE q.form # "packed"
      <4>1. \A s \in RowsOf(q) : q.lengths[s] = q.lengths[1]
        BY <3>2 DEF Runs, IsForm
      <4>2. OwnSteps(q, p) = StepsOf(q)
        BY <1>1, <1>2, <4>1 DEF OwnSteps, StepsOf
      <4> QED
        BY <1>3, <4>2
    <3> QED
      BY <3>1, <3>2
  <2> QED
    BY <1>2, <1>3, <2>1, <2>2
<1>5. \A t \in 1 .. StepsOf(q) : /\ Wide(q, t) \in 0 .. Size(q)
                                  /\ \A p \in RowsOf(q) : p <= Wide(q, t) <=> OwnSteps(q, p) >= t
  BY <1>3, Shape DEF Runs
<1>6. ASSUME NEW t \in 1 .. StepsOf(q)
      PROVE  Wide(q, t) \in 1 .. Size(q)
  <2>1. OwnSteps(q, 1) >= t
    BY <1>3 DEF StepsOf
  <2>2. 1 <= Wide(q, t) /\ Wide(q, t) \in 0 .. Size(q)
    BY <1>1, <1>5, <2>1
  <2> QED
    BY <1>1, <2>2
<1>7. Wide(q, 1) = Size(q)
  <2>1. 1 \in 1 .. StepsOf(q) /\ Size(q) \in RowsOf(q)
    BY <1>1, <1>3 DEF RowsOf
  <2>2. OwnSteps(q, Size(q)) >= 1
    BY <1>4, <2>1
  <2>3. Size(q) <= Wide(q, 1) /\ Wide(q, 1) \in 0 .. Size(q)
    BY <1>5, <2>1, <2>2
  <2> QED
    BY <1>1, <2>3
<1> QED
  BY <1>1, <1>3, <1>4, <1>6, <1>7

\* Who is in a step: whoever has one.
LEMMA InStep ==
  ASSUME NEW q, Runs(q), NEW t \in 1 .. StepsOf(q), NEW p \in RowsOf(q)
  PROVE  p \in 1 .. Wide(q, t) <=> OwnSteps(q, p) >= t
<1>1. t \in Nat /\ StepsOf(q) \in Nat /\ Size(q) \in Nat
  BY ShapeOfRun
<1>2. Wide(q, t) \in 0 .. Size(q) /\ (p <= Wide(q, t) <=> OwnSteps(q, p) >= t)
  BY <1>1, Shape DEF Runs
<1> QED
  BY <1>1, <1>2 DEF RowsOf

LEMMA StepRows ==
  ASSUME NEW q, Runs(q), NEW t \in 1 .. StepsOf(q), NEW p \in 1 .. Wide(q, t)
  PROVE  p \in RowsOf(q) /\ OwnSteps(q, p) >= t
<1>1. Wide(q, t) \in 1 .. Size(q) /\ Size(q) \in Nat
  BY ShapeOfRun
<1>2. p \in RowsOf(q)
  BY <1>1 DEF RowsOf
<1> QED
  BY <1>2, InStep

\* Later steps have no more rows.
LEMMA Narrowing ==
  ASSUME NEW q, Runs(q), NEW t \in 1 .. StepsOf(q), t + 1 \in 1 .. StepsOf(q)
  PROVE  Wide(q, t + 1) <= Wide(q, t)
<1>1. /\ Wide(q, t) \in 1 .. Size(q) /\ Wide(q, t + 1) \in 1 .. Size(q) /\ Size(q) \in Nat
      /\ t \in Nat
  BY ShapeOfRun
<1>2. Wide(q, t + 1) \in 1 .. Wide(q, t + 1)
  BY <1>1
<1>3. Wide(q, t + 1) \in RowsOf(q) /\ OwnSteps(q, Wide(q, t + 1)) >= t + 1
  BY <1>2, StepRows
<1>4. OwnSteps(q, Wide(q, t + 1)) \in Nat
  BY <1>3, ShapeOfRun
<1>5. Wide(q, t + 1) \in 1 .. Wide(q, t)
  BY <1>1, <1>3, <1>4, InStep
<1> QED
  BY <1>1, <1>5

\* Without packing, every row has every step.
LEMMA ShapeOfDense ==
  ASSUME NEW q, Runs(q), q.form # "packed"
  PROVE  /\ \A p \in RowsOf(q) : OwnSteps(q, p) = StepsOf(q) /\ SequenceIn(q, p) = p
         /\ \A t \in 1 .. StepsOf(q) : Wide(q, t) = Size(q)
         /\ StepsOf(q) = q.lengths[1]
<1>1. /\ q.sorted = None
      /\ \A s \in RowsOf(q) : q.lengths[s] = q.lengths[1]
  BY DEF Runs, IsForm
<1>2. /\ \A p \in RowsOf(q) : SequenceIn(q, p) \in RowsOf(q)
      /\ Size(q) \in Nat \ {0} /\ StepsOf(q) \in Nat \ {0}
  BY ShapeOfRun DEF Runs, IsBatch
<1>3. 1 \in RowsOf(q) /\ Size(q) \in RowsOf(q)
  BY <1>2 DEF RowsOf
<1>4. \A p \in RowsOf(q) : OwnSteps(q, p) = q.lengths[1]
  BY <1>1, <1>2 DEF OwnSteps
<1>5. StepsOf(q) = q.lengths[1]
  BY <1>3, <1>4 DEF StepsOf
<1>6. \A p \in RowsOf(q) : SequenceIn(q, p) = p
  BY <1>1 DEF SequenceIn, OrderOf, RowsOf, Size, Runs, IsBatch
<1>7. ASSUME NEW t \in 1 .. StepsOf(q)
      PROVE  Wide(q, t) = Size(q)
  <2>1. OwnSteps(q, Size(q)) >= t
    BY <1>2, <1>3, <1>4, <1>5
  <2>2. Size(q) \in 1 .. Wide(q, t)
    BY <1>3, <2>1, InStep
  <2>3. Wide(q, t) \in 1 .. Size(q)
    BY ShapeOfRun
  <2> QED
    BY <1>2, <2>2, <2>3
<1> QED
  BY <1>4, <1>5, <1>6, <1>7

-----------------------------------------------------------------------------
(* Packed data: the rows of all steps one after another.                   *)

IsTable(m) == IsSequence(m) /\ \A t \in 1 .. Len(m) : IsSequence(m[t])

\* How many rows there are in the steps up to one.
UpTo(sizes) ==
  LET upTo[t \in 0 .. Len(sizes)] == IF t = 0 THEN 0 ELSE upTo[t - 1] + sizes[t]
  IN  upTo

LEMMA UpToDef ==
  ASSUME NEW sizes, Len(sizes) \in Nat
  PROVE  /\ UpTo(sizes)[0] = 0
         /\ \A t \in 1 .. Len(sizes) : UpTo(sizes)[t] = UpTo(sizes)[t - 1] + sizes[t]
<1> DEFINE n == Len(sizes)
           body(g, t) == IF t = 0 THEN 0 ELSE g[t - 1] + sizes[t]
           Defined == {m \in Nat : \E g : g = [t \in 0 .. m |-> body(g, t)]}
<1>1. 0 \in Defined
  <2> DEFINE g == [t \in 0 .. 0 |-> 0]
  <2>1. g = [t \in 0 .. 0 |-> body(g, t)]
    OBVIOUS
  <2> QED
    BY <2>1
<1>2. ASSUME NEW m \in Nat, m \in Defined
      PROVE  m + 1 \in Defined
  <2>1. PICK g : g = [t \in 0 .. m |-> body(g, t)]
    BY <1>2
  <2> DEFINE h == [t \in 0 .. m + 1 |-> body(g, t)]
  <2>2. \A t \in 0 .. m : g[t] = body(g, t)
    BY <2>1
  <2>3. \A t \in 0 .. m : h[t] = body(g, t)
    OBVIOUS
  <2>4. ASSUME NEW t \in 0 .. m + 1
        PROVE  body(g, t) = body(h, t)
    <3>1. CASE t = 0
      BY <3>1
    <3>2. CASE t # 0
      <4>1. t - 1 \in 0 .. m
        BY <3>2
      <4>2. g[t - 1] = h[t - 1]
        BY <2>2, <2>3, <4>1
      <4> QED
        BY <4>2
    <3> QED
      BY <3>1, <3>2
  <2>5. h = [t \in 0 .. m + 1 |-> body(h, t)]
    BY <2>4
  <2> HIDE DEF h
  <2> QED
    BY <2>5
<1>3. n \in Defined
  <2> HIDE DEF Defined
  <2> QED
    BY <1>1, <1>2, NatInductionOnSet
<1>4. PICK g : g = [t \in 0 .. n |-> body(g, t)]
  BY <1>3
<1> DEFINE upTo == UpTo(sizes)
<1>5. upTo = [t \in 0 .. n |-> body(upTo, t)]
  BY <1>4 DEF UpTo
<1> HIDE DEF upTo
<1>6. upTo[0] = 0
  <2>1. 0 \in 0 .. n
    OBVIOUS
  <2> QED
    BY <1>5, <2>1
<1>7. ASSUME NEW t \in 1 .. Len(sizes)
      PROVE  upTo[t] = upTo[t - 1] + sizes[t]
  <2>1. t \in 0 .. n /\ t # 0
    OBVIOUS
  <2> QED
    BY <1>5, <2>1
<1> QED
  BY <1>6, <1>7 DEF upTo

\* Joined after the first so many steps.
Joined(m, k) ==
  LET flatten[t \in 1 .. Len(m)] == IF t = 1 THEN m[t] ELSE flatten[t - 1] \o m[t]
  IN  flatten[k]

LEMMA JoinedDef ==
  ASSUME NEW m, Len(m) \in Nat \ {0}
  PROVE  /\ Joined(m, 1) = m[1]
         /\ \A k \in 1 .. Len(m) - 1 : Joined(m, k + 1) = Joined(m, k) \o m[k + 1]
         /\ FlattenSeq(m) = Joined(m, Len(m))
<1> DEFINE n == Len(m)
           body(g, t) == IF t = 1 THEN m[t] ELSE g[t - 1] \o m[t]
           Defined == {j \in Nat : \E g : g = [t \in 1 .. j |-> body(g, t)]}
           flat == CHOOSE g : g = [t \in 1 .. n |-> body(g, t)]
<1>1. 0 \in Defined
  <2>1. <<>> = [t \in 1 .. 0 |-> body(<<>>, t)]
    OBVIOUS
  <2> QED
    BY <2>1
<1>2. ASSUME NEW j \in Nat, j \in Defined
      PROVE  j + 1 \in Defined
  <2>1. PICK g : g = [t \in 1 .. j |-> body(g, t)]
    BY <1>2
  <2> DEFINE h == [t \in 1 .. j + 1 |-> body(g, t)]
  <2>2. \A t \in 1 .. j : g[t] = body(g, t)
    BY <2>1
  <2>3. \A t \in 1 .. j : h[t] = body(g, t)
    OBVIOUS
  <2>4. ASSUME NEW t \in 1 .. j + 1
        PROVE  body(g, t) = body(h, t)
    <3>1. CASE t = 1
      BY <3>1
    <3>2. CASE t # 1
      <4>1. t - 1 \in 1 .. j
        BY <3>2
      <4>2. g[t - 1] = h[t - 1]
        BY <2>2, <2>3, <4>1
      <4> QED
        BY <4>2
    <3> QED
      BY <3>1, <3>2
  <2>5. h = [t \in 1 .. j + 1 |-> body(h, t)]
    BY <2>4
  <2> HIDE DEF h
  <2>6. \E f : f = [t \in 1 .. j + 1 |-> body(f, t)]
    BY <2>5
  <2> HIDE DEF body
  <2> QED
    BY <2>6
<1>3. n \in Defined
  <2> HIDE DEF Defined
  <2> QED
    BY <1>1, <1>2, NatInductionOnSet
<1>4. PICK g : g = [t \in 1 .. n |-> body(g, t)]
  BY <1>3
<1>5. flat = [t \in 1 .. n |-> body(flat, t)]
  BY <1>4
<1>6. \A k : Joined(m, k) = flat[k]
  BY DEF Joined
<1>7. FlattenSeq(m) = flat[n]
  BY DEF FlattenSeq
<1> HIDE DEF flat
<1>8. flat[1] = m[1]
  <2>1. 1 \in 1 .. n
    OBVIOUS
  <2> QED
    BY <1>5, <2>1
<1>9. ASSUME NEW k \in 1 .. n - 1
      PROVE  flat[k + 1] = flat[k] \o m[k + 1]
  <2>1. k + 1 \in 1 .. n /\ k + 1 # 1 /\ (k + 1) - 1 = k
    OBVIOUS
  <2> QED
    BY <1>5, <2>1
<1> QED
  BY <1>6, <1>7, <1>8, <1>9

\* Where the steps are once they are joined.
PartsAt(m, sizes, k) ==
  /\ IsSequence(Joined(m, k)) /\ Len(Joined(m, k)) = UpTo(sizes)[k]
  /\ \A t \in 1 .. k :
       /\ UpTo(sizes)[t - 1] \in Nat /\ UpTo(sizes)[t] <= UpTo(sizes)[k]
       /\ \A j \in 1 .. Len(m[t]) : Joined(m, k)[UpTo(sizes)[t - 1] + j] = m[t][j]

LEMMA JoinedParts ==
  ASSUME NEW m, IsTable(m), Len(m) > 0, NEW sizes, Len(sizes) = Len(m),
         \A t \in 1 .. Len(m) : sizes[t] = Len(m[t])
  PROVE  \A k \in 1 .. Len(m) : PartsAt(m, sizes, k)
<1> DEFINE n == Len(m)
           U == UpTo(sizes)
           Good == {k \in Nat : k \in 1 .. n => PartsAt(m, sizes, k)}
<1>0. /\ n \in Nat \ {0}
      /\ \A t \in 1 .. n : IsSequence(m[t]) /\ sizes[t] = Len(m[t]) /\ Len(m[t]) \in Nat
  BY DEF IsTable, IsSequence
<1>1. U[0] = 0 /\ \A t \in 1 .. n : U[t] = U[t - 1] + sizes[t]
  BY <1>0, UpToDef
<1>2. Joined(m, 1) = m[1] /\ \A k \in 1 .. n - 1 : Joined(m, k + 1) = Joined(m, k) \o m[k + 1]
  BY <1>0, JoinedDef
<1> HIDE DEF U, n
<1>3. PartsAt(m, sizes, 1)
  <2>1. 1 \in 1 .. n /\ 1 - 1 = 0
    BY <1>0
  <2>2. IsSequence(m[1]) /\ Len(m[1]) \in Nat /\ U[1] = Len(m[1]) /\ U[1 - 1] = 0
    BY <1>0, <1>1, <2>1
  <2>3. ASSUME NEW t \in 1 .. 1
        PROVE  /\ U[t - 1] \in Nat /\ U[t] <= U[1]
               /\ \A j \in 1 .. Len(m[t]) : Joined(m, 1)[U[t - 1] + j] = m[t][j]
    <3>1. t = 1
      OBVIOUS
    <3>2. \A j \in 1 .. Len(m[1]) : Joined(m, 1)[U[1 - 1] + j] = m[1][j]
      BY <1>2, <2>2
    <3> QED
      BY <2>2, <3>1, <3>2
  <2> QED
    BY <1>2, <2>2, <2>3 DEF PartsAt, U
<1>4. ASSUME NEW k \in 1 .. n - 1, PartsAt(m, sizes, k)
      PROVE  PartsAt(m, sizes, k + 1)
  <2> DEFINE a == Joined(m, k)
             b == m[k + 1]
             c == Joined(m, k + 1)
  <2>1. k \in Nat /\ k + 1 \in 1 .. n /\ (k + 1) - 1 = k /\ k \in 1 .. k
    BY <1>0
  <2>2. /\ IsSequence(a) /\ Len(a) = U[k] /\ Len(a) \in Nat
        /\ \A t \in 1 .. k : U[t - 1] \in Nat /\ U[t] <= U[k]
        /\ \A t \in 1 .. k : \A j \in 1 .. Len(m[t]) : a[U[t - 1] + j] = m[t][j]
    BY <1>4 DEF PartsAt, U, IsSequence
  <2>3. IsSequence(b) /\ Len(b) \in Nat /\ U[k + 1] = U[k] + Len(b)
    <3>1. IsSequence(b) /\ Len(b) \in Nat /\ sizes[k + 1] = Len(b)
      BY <1>0, <2>1
    <3>2. U[k + 1] = U[(k + 1) - 1] + sizes[k + 1]
      BY <1>1, <2>1
    <3> QED
      BY <2>1, <3>1, <3>2
  <2>4. c = a \o b
    BY <1>2
  <2> HIDE DEF a, b, c
  <2>5. /\ IsSequence(c) /\ Len(c) = Len(a) + Len(b)
        /\ \A i \in 1 .. Len(a) : c[i] = a[i]
        /\ \A i \in 1 .. Len(b) : c[Len(a) + i] = b[i]
    <3>1. IsSequence(a)
      BY <2>2
    <3>2. IsSequence(b)
      BY <2>3
    <3> QED
      BY <2>4, <3>1, <3>2, ConcatSequence
  <2>6. ASSUME NEW t \in 1 .. k + 1
        PROVE  /\ U[t - 1] \in Nat /\ U[t] <= U[k + 1]
               /\ \A j \in 1 .. Len(m[t]) : c[U[t - 1] + j] = m[t][j]
    <3>1. CASE t \in 1 .. k
      <4>1. t \in 1 .. n /\ Len(m[t]) \in Nat /\ U[t] = U[t - 1] + Len(m[t])
        <5>1. t \in 1 .. n
          BY <1>0, <3>1
        <5> QED
          BY <1>0, <1>1, <5>1
      <4>2. U[t - 1] \in Nat /\ U[t] <= U[k]
        BY <2>2, <3>1
      <4>3. U[t] <= U[k + 1]
        BY <2>2, <2>3, <4>1, <4>2
      <4>4. ASSUME NEW j \in 1 .. Len(m[t])
            PROVE  c[U[t - 1] + j] = m[t][j]
        <5>1. U[t - 1] + j \in 1 .. Len(a)
          BY <2>2, <4>1, <4>2
        <5>2. c[U[t - 1] + j] = a[U[t - 1] + j]
          BY <2>5, <5>1
        <5>3. a[U[t - 1] + j] = m[t][j]
          BY <2>2, <3>1
        <5> QED
          BY <5>2, <5>3
      <4> QED
        BY <4>2, <4>3, <4>4
    <3>2. CASE t = k + 1
      <4>1. t - 1 = k /\ m[t] = b
        BY <2>1, <3>2 DEF b
      <4>2. \A j \in 1 .. Len(b) : c[U[k] + j] = b[j]
        BY <2>2, <2>5
      <4>3. U[k + 1] \in Nat /\ U[k + 1] <= U[k + 1] /\ U[k] \in Nat
        BY <2>2, <2>3
      <4> QED
        BY <3>2, <4>1, <4>2, <4>3
    <3> QED
      BY <2>1, <3>1, <3>2
  <2>7. Len(c) = U[k + 1]
    BY <2>2, <2>3, <2>5
  <2> QED
    BY <2>5, <2>6, <2>7 DEF PartsAt, U, c
<1>5. 0 \in Good
  OBVIOUS
<1>6. ASSUME NEW k \in Nat, k \in Good
      PROVE  k + 1 \in Good
  <2>1. CASE k + 1 \in 1 .. n /\ k # 0
    <3>1. k \in 1 .. n - 1 /\ k \in 1 .. n
      BY <1>0, <2>1
    <3>2. PartsAt(m, sizes, k + 1)
      BY <1>4, <1>6, <3>1
    <3> QED
      BY <3>2
  <2>2. CASE k = 0
    BY <1>3, <2>2
  <2>3. CASE k + 1 \notin 1 .. n
    BY <2>3
  <2> QED
    BY <2>1, <2>2, <2>3
<1>7. Nat \subseteq Good
  <2> HIDE DEF Good
  <2> QED
    BY <1>5, <1>6, NatInductionOnSet
<1> QED
  BY <1>0, <1>7 DEF n

\* Splitting undoes joining.
LEMMA SplitOfFlat ==
  ASSUME NEW m, IsTable(m), Len(m) > 0, NEW sizes, IsSequence(sizes), Len(sizes) = Len(m),
         \A t \in 1 .. Len(m) : sizes[t] = Len(m[t])
  PROVE  Split(FlattenSeq(m), sizes) = m
<1> DEFINE n == Len(m)
           U == UpTo(sizes)
           flat == FlattenSeq(m)
<1>0. /\ n \in Nat \ {0} /\ n \in 1 .. n
      /\ \A t \in 1 .. n : IsSequence(m[t]) /\ sizes[t] = Len(m[t]) /\ Len(m[t]) \in Nat
  BY DEF IsTable, IsSequence
<1>1. U[0] = 0 /\ \A t \in 1 .. n : U[t] = U[t - 1] + sizes[t]
  BY <1>0, UpToDef
<1>2. flat = Joined(m, n)
  BY <1>0, JoinedDef
<1>3. PartsAt(m, sizes, n)
  BY <1>0, JoinedParts
<1>4. /\ IsSequence(flat) /\ Len(flat) = U[n] /\ Len(flat) \in Nat
      /\ \A t \in 1 .. n : U[t - 1] \in Nat /\ U[t] <= U[n]
      /\ \A t \in 1 .. n : \A j \in 1 .. Len(m[t]) : flat[U[t - 1] + j] = m[t][j]
  BY <1>2, <1>3 DEF PartsAt, IsSequence
<1>5. DOMAIN sizes = 1 .. n /\ Split(flat, sizes) = [t \in 1 .. n |-> SubSeq(flat, U[t - 1] + 1, U[t])]
  <2>1. DOMAIN sizes = 1 .. n
    BY SequenceIsSeq
  <2> HIDE DEF flat, n
  <2> QED
    BY <2>1 DEF Split, UpTo
<1> HIDE DEF flat, U, n
<1>6. ASSUME NEW t \in 1 .. n
      PROVE  SubSeq(flat, U[t - 1] + 1, U[t]) = m[t]
  <2> DEFINE from == U[t - 1] + 1
             part == SubSeq(flat, from, U[t])
  <2>1. U[t - 1] \in Nat /\ Len(m[t]) \in Nat /\ U[t] = U[t - 1] + Len(m[t]) /\ U[t] <= Len(flat)
    BY <1>0, <1>1, <1>4
  <2>2. from \in Nat \ {0} /\ U[t] \in Nat /\ from <= U[t] + 1 /\ U[t] - from + 1 = Len(m[t])
    BY <2>1
  <2>3. IsSequence(flat)
    BY <1>4
  <2>4. /\ IsSequence(part) /\ Len(part) = U[t] - from + 1
        /\ \A i \in 1 .. U[t] - from + 1 : part[i] = flat[from + i - 1]
    <3>1. from \in Nat \ {0}
      BY <2>2
    <3>2. U[t] \in Nat
      BY <2>2
    <3>3. from <= U[t] + 1
      BY <2>2
    <3>4. U[t] <= Len(flat)
      BY <2>1
    <3> HIDE DEF from
    <3> QED
      BY <2>3, <3>1, <3>2, <3>3, <3>4, SubSequence
  <2> HIDE DEF part
  <2>5. ASSUME NEW i \in 1 .. Len(part)
        PROVE  part[i] = m[t][i]
    <3>1. i \in 1 .. Len(m[t]) /\ i \in 1 .. U[t] - from + 1
      BY <2>2, <2>4
    <3>2. from + i - 1 = U[t - 1] + i
      BY <2>1, <3>1
    <3>3. part[i] = flat[from + i - 1]
      BY <2>4, <3>1
    <3>4. flat[U[t - 1] + i] = m[t][i]
      BY <1>4, <3>1
    <3> QED
      BY <3>2, <3>3, <3>4
  <2>6. IsSequence(m[t]) /\ Len(part) = Len(m[t])
    BY <1>0, <2>2, <2>4
  <2>7. part = m[t]
    BY <2>4, <2>5, <2>6, SameSequence
  <2> QED
    BY <2>7 DEF part
<1>7. m = [t \in 1 .. n |-> m[t]]
  BY DEF IsTable, IsSequence, n
<1> QED
  BY <1>5, <1>6, <1>7 DEF flat

-----------------------------------------------------------------------------
(* A call's data, layer by layer, and a direction's rows, step by step.    *)

\* Where the sequence in row p starts, and its inputs on each layer.
StartsIn(q, p) ==
  [i \in 1 .. q.layers * q.directions |->
     Row("h", IF q.given THEN <<i, SequenceIn(q, p)>> ELSE Zero)]
FedIn(q, p) ==
  [t \in 1 .. OwnSteps(q, p) |-> [sequence |-> SequenceIn(q, p), time |-> t]]
InputsIn(q, p, l) == LayerInputs(q, StartsIn(q, p), FedIn(q, p))[l]
FinalIn(q, p) == ReferenceFinal(q, StartsIn(q, p), FedIn(q, p))

\* The data of a layer: who is in a step has its own input there.
DataOf(q, l) ==
  [t \in 1 .. StepsOf(q) |-> [p \in 1 .. Wide(q, t) |-> InputsIn(q, p, l)[t]]]

\* The states before the first step.
StateOf(q, part) ==
  [i \in 1 .. q.layers * q.directions |->
     [p \in RowsOf(q) |-> Row(part, IF q.given THEN <<i, SequenceIn(q, p)>> ELSE Zero)]]

\* Row p of direction d once its sequence has read k of its inputs.
ReadIn(q, l, d, p, k) ==
  ReadTo(StartsIn(q, p)[StateIndexOf(q, l, d)], l, d, InputsIn(q, p, l), k)

\* After at steps: forwards, whoever has ended stays; backwards, who has not
\* entered yet is not there.
ReadsAt(q, d, p, k) ==
  IF d = 1 THEN IF k <= OwnSteps(q, p) THEN k ELSE OwnSteps(q, p)
  ELSE k - (StepsOf(q) - OwnSteps(q, p))
RowsAt(q, d, k) ==
  IF q.form = "packed" /\ d = 2 THEN IF k = 0 THEN 0 ELSE Wide(q, StepsOf(q) + 1 - k)
  ELSE Size(q)
HiddenAt(q, l, d, k) ==
  [p \in 1 .. RowsAt(q, d, k) |-> ReadIn(q, l, d, p, ReadsAt(q, d, p, k))]
CellsOf(q, rows) == IF q.lstm THEN [p \in DOMAIN rows |-> CellOf(rows[p])] ELSE None

\* The step a direction takes as its k-th, and what it has put out by then.
StepAt(q, d, k) == IF d = 1 THEN k ELSE StepsOf(q) + 1 - k
OutputAt(q, l, d, k) ==
  [p \in 1 .. Wide(q, StepAt(q, d, k)) |-> ReadIn(q, l, d, p, ReadsAt(q, d, p, k))]
OutputsTo(q, l, d, k) == [j \in 1 .. k |-> OutputAt(q, l, d, j)]

\* A whole direction, and all the directions so far.
DirectionOf(q, l, d) ==
  [t \in 1 .. StepsOf(q) |->
     [p \in 1 .. Wide(q, t) |-> ReadIn(q, l, d, p, IF d = 1 THEN t ELSE OwnSteps(q, p) - t + 1)]]
DirectionsTo(q, l, n) == [d \in 1 .. n |-> DirectionOf(q, l, d)]
FinalsTo(q, n) == [i \in 1 .. n |-> [p \in RowsOf(q) |-> FinalIn(q, p)[i]]]
FinalCellsTo(q, n) ==
  IF q.lstm THEN [i \in 1 .. n |-> [p \in RowsOf(q) |-> CellOf(FinalIn(q, p)[i])]] ELSE None

LEMMA RowFacts ==
  ASSUME NEW q, Runs(q), NEW p \in RowsOf(q)
  PROVE  /\ IsSequence(FedIn(q, p)) /\ Len(FedIn(q, p)) = OwnSteps(q, p)
         /\ AreRows(q, StartsIn(q, p))
         /\ OwnSteps(q, p) \in Nat \ {0}
         /\ \A l \in 1 .. q.layers + 1 :
              IsSequence(InputsIn(q, p, l)) /\ Len(InputsIn(q, p, l)) = OwnSteps(q, p)
<1>1. OwnSteps(q, p) \in Nat \ {0}
  <2>1. OwnSteps(q, p) \in 1 .. StepsOf(q) /\ StepsOf(q) \in Nat
    BY ShapeOfRun
  <2> QED
    BY <2>1
<1>2. IsSequence(FedIn(q, p)) /\ Len(FedIn(q, p)) = OwnSteps(q, p)
  BY <1>1 DEF FedIn, IsSequence
<1>3. AreRows(q, StartsIn(q, p))
  BY StartRow DEF AreRows, StartsIn
<1>4. \A l \in 1 .. q.layers + 1 :
        IsSequence(InputsIn(q, p, l)) /\ Len(InputsIn(q, p, l)) = OwnSteps(q, p)
  <2>1. IsNet(q)
    BY DEF Runs
  <2>2. IsSequence(FedIn(q, p))
    BY <1>2
  <2>3. \A l \in 1 .. q.layers + 1 :
          /\ IsSequence(LayerInputs(q, StartsIn(q, p), FedIn(q, p))[l])
          /\ Len(LayerInputs(q, StartsIn(q, p), FedIn(q, p))[l]) = Len(FedIn(q, p))
    BY <2>1, <2>2, LayersAreSequences
  <2> QED
    BY <1>2, <2>3 DEF InputsIn
<1> QED
  BY <1>1, <1>2, <1>3, <1>4

\* The direction a loop is in.
IsIn(q, l, d) == l \in 1 .. q.layers /\ d \in 1 .. q.directions

LEMMA StartInRow ==
  ASSUME NEW q, Runs(q), NEW p \in RowsOf(q), NEW l, NEW d, IsIn(q, l, d)
  PROVE  /\ IsRow(StartsIn(q, p)[StateIndexOf(q, l, d)])
         /\ l \in 1 .. q.layers + 1 /\ d \in {1, 2}
         /\ StateIndexOf(q, l, d) \in 1 .. q.layers * q.directions
<1>1. IsNet(q) /\ AreRows(q, StartsIn(q, p))
  BY RowFacts DEF Runs
<1>2. l \in 1 .. q.layers + 1 /\ d \in {1, 2}
  BY <1>1 DEF IsIn, IsNet
<1>3. StateIndexOf(q, l, d) \in 1 .. q.layers * q.directions
  BY <1>1, IndexRange DEF IsIn
<1> QED
  BY <1>1, <1>2, <1>3 DEF AreRows

\* A row that is fed one input.
Added(row, w, x) == [row EXCEPT !.fed = Append(@, [w |-> w, x |-> x])]

\* A cell's step reads one input more.
LEMMA ReadOneMore ==
  ASSUME NEW q, Runs(q), NEW p \in RowsOf(q), NEW l, NEW d, IsIn(q, l, d),
         NEW k \in 0 .. OwnSteps(q, p) - 1
  PROVE  ReadIn(q, l, d, p, k + 1) =
           Added(ReadIn(q, l, d, p, k), <<l, d>>,
                 InputsIn(q, p, l)[IF d = 1 THEN k + 1 ELSE OwnSteps(q, p) - k])
<1> DEFINE row == StartsIn(q, p)[StateIndexOf(q, l, d)]
           xs == InputsIn(q, p, l)
           x == xs[IF d = 1 THEN k + 1 ELSE Len(xs) - k]
           old == ReadTo(row, l, d, xs, k)
           one == <<x>>
<1>1. IsRow(row) /\ l \in 1 .. q.layers + 1
  BY StartInRow
<1>2. IsSequence(xs) /\ Len(xs) = OwnSteps(q, p) /\ OwnSteps(q, p) \in Nat
  BY <1>1, RowFacts
<1>3. k \in 0 .. Len(xs) - 1 /\ k \in 0 .. Len(xs)
  BY <1>2
<1> HIDE DEF row, xs
<1>4. ReadTo(row, l, d, xs, k + 1) = AfterReading(old, l, d, one)
  BY <1>1, <1>2, <1>3, ReadToNext
<1>5. IsRow(old)
  BY <1>1, <1>2, <1>3, ReadToRow
<1>6. IsSequence(one) /\ Len(one) = 1 /\ one[1] = x
  BY OneSequence
<1> HIDE DEF old
<1>7. AfterReading(old, l, d, one) = [old EXCEPT !.fed = Append(@, [w |-> <<l, d>>, x |-> x])]
  <2>1. InItsOrder(d, one) = one
    <3>1. IsSequence(Reverse(one)) /\ Len(Reverse(one)) = 1
          /\ \A i \in 1 .. 1 : Reverse(one)[i] = one[1 - i + 1]
      BY <1>6, ReverseSequence
    <3>2. \A i \in 1 .. Len(Reverse(one)) : Reverse(one)[i] = one[i]
      <4>1. Reverse(one)[1] = one[1]
        BY <3>1
      <4> QED
        BY <3>1, <4>1
    <3>3. Reverse(one) = one
      BY <1>6, <3>1, <3>2, SameSequence
    <3> QED
      BY <3>3 DEF InItsOrder
  <2> DEFINE mark == [w |-> <<l, d>>, x |-> x]
             marks == Marked(l, d, one)
  <2>2. marks = <<mark>>
    <3>1. DOMAIN one = 1 .. 1 /\ one[1] = x
      BY <1>6
    <3>2. marks = [t \in 1 .. 1 |-> mark]
      <4> HIDE DEF x
      <4>1. \A t \in 1 .. 1 : one[t] = x
        OBVIOUS
      <4> QED
        BY <3>1, <4>1 DEF Marked
    <3> HIDE DEF mark
    <3>3. <<mark>> = [t \in 1 .. 1 |-> mark]
      OBVIOUS
    <3> QED
      BY <3>2, <3>3
  <2>3. AfterReading(old, l, d, one) =
          [part |-> old.part, start |-> old.start, fed |-> old.fed \o Marked(l, d, InItsOrder(d, one))]
    BY <1>5, <1>6, ReadingRow
  <2>4. old.fed \o <<mark>> = Append(old.fed, mark)
    <3> HIDE DEF mark
    <3>1. IsSequence(old.fed)
      BY <1>5 DEF IsRow
    <3> DEFINE S == {old.fed[i] : i \in 1 .. Len(old.fed)} \cup {mark}
    <3>2. old.fed \in Seq(S) /\ mark \in S
      <4>1. \A i \in 1 .. Len(old.fed) : old.fed[i] \in S
        OBVIOUS
      <4>2. mark \in S
        OBVIOUS
      <4> HIDE DEF S
      <4> QED
        BY <3>1, <4>1, <4>2, SequenceOver
    <3> HIDE DEF S
    <3> QED
      BY <3>2, AppendIsConcat
  <2> HIDE DEF mark
  <2>5. [old EXCEPT !.fed = Append(@, mark)] =
          [part |-> old.part, start |-> old.start, fed |-> Append(old.fed, mark)]
    <3>1. old = [part |-> old.part, start |-> old.start, fed |-> old.fed]
      BY <1>5 DEF IsRow
    <3> QED
      BY <3>1
  <2>6. AfterReading(old, l, d, one) = [old EXCEPT !.fed = Append(@, mark)]
    BY <2>1, <2>2, <2>3, <2>4, <2>5
  <2> QED
    BY <2>6 DEF mark
<1> QED
  BY <1>2, <1>4, <1>7 DEF ReadIn, Added, row, xs, old

-----------------------------------------------------------------------------
(* Rows taken, dropped, entering and joined.                               *)

\* None is not the rows of a state.
NoneIsNoSequence == \A n \in Nat : DOMAIN None # 1 .. n

LEMMA RowsAreSome ==
  ASSUME NoneIsNoSequence, NEW rows, IsSequence(rows)
  PROVE  rows # None
<1>1. DOMAIN rows = 1 .. Len(rows) /\ Len(rows) \in Nat
  BY SequenceIsSeq DEF IsSequence
<1> QED
  BY <1>1 DEF NoneIsNoSequence

LEMMA TakeRows ==
  ASSUME NoneIsNoSequence, NEW rows, IsSequence(rows), NEW n \in 0 .. Len(rows)
  PROVE  /\ IsSequence(Take(rows, n)) /\ Len(Take(rows, n)) = n
         /\ \A p \in 1 .. n : Take(rows, n)[p] = rows[p]
<1>1. Len(rows) \in Nat /\ 1 <= n + 1 /\ n <= Len(rows) /\ n \in Nat /\ n - 1 + 1 = n
  BY DEF IsSequence
<1>2. Take(rows, n) = SubSeq(rows, 1, n)
  BY RowsAreSome DEF Take
<1>3. /\ IsSequence(SubSeq(rows, 1, n)) /\ Len(SubSeq(rows, 1, n)) = n - 1 + 1
      /\ \A i \in 1 .. n - 1 + 1 : SubSeq(rows, 1, n)[i] = rows[1 + i - 1]
  BY <1>1, SubSequence
<1>4. \A i \in 1 .. n : 1 + i - 1 = i
  BY <1>1
<1> QED
  BY <1>1, <1>2, <1>3, <1>4

LEMMA DropRows ==
  ASSUME NoneIsNoSequence, NEW rows, IsSequence(rows), NEW n \in 0 .. Len(rows)
  PROVE  /\ IsSequence(Drop(rows, n)) /\ Len(Drop(rows, n)) = Len(rows) - n
         /\ \A p \in n + 1 .. Len(rows) : Drop(rows, n)[p - n] = rows[p]
<1> DEFINE m == n + 1
<1>1. /\ Len(rows) \in Nat /\ n \in Nat /\ m \in Nat \ {0} /\ m <= Len(rows) + 1
      /\ Len(rows) - m + 1 = Len(rows) - n
  BY DEF IsSequence
<1>2. Drop(rows, n) = SubSeq(rows, m, Len(rows))
  BY RowsAreSome DEF Drop
<1>3. /\ IsSequence(SubSeq(rows, m, Len(rows)))
      /\ Len(SubSeq(rows, m, Len(rows))) = Len(rows) - m + 1
      /\ \A i \in 1 .. Len(rows) - m + 1 : SubSeq(rows, m, Len(rows))[i] = rows[m + i - 1]
  <2> HIDE DEF m
  <2>1. m \in Nat \ {0}
    BY <1>1
  <2>2. m <= Len(rows) + 1
    BY <1>1
  <2>3. Len(rows) \in Nat /\ Len(rows) <= Len(rows)
    BY <1>1
  <2> QED
    BY <2>1, <2>2, <2>3, SubSequence
<1>4. ASSUME NEW p \in n + 1 .. Len(rows)
      PROVE  Drop(rows, n)[p - n] = rows[p]
  <2>1. p - n \in 1 .. Len(rows) - m + 1 /\ m + (p - n) - 1 = p
    BY <1>1
  <2> HIDE DEF m
  <2>2. SubSeq(rows, m, Len(rows))[p - n] = rows[m + (p - n) - 1]
    BY <1>3, <2>1
  <2> QED
    BY <1>2, <2>1, <2>2
<1> QED
  BY <1>1, <1>2, <1>3, <1>4

\* Rows before and after a cut.
LEMMA RowsJoined ==
  ASSUME NEW a, IsSequence(a), NEW b, IsSequence(b), NEW n \in Nat,
         n = Len(a) + Len(b)
  PROVE  /\ IsSequence(a \o b) /\ Len(a \o b) = n
         /\ \A p \in 1 .. n : (a \o b)[p] = IF p <= Len(a) THEN a[p] ELSE b[p - Len(a)]
<1>1. /\ IsSequence(a \o b) /\ Len(a \o b) = Len(a) + Len(b)
      /\ \A i \in 1 .. Len(a) : (a \o b)[i] = a[i]
      /\ \A i \in 1 .. Len(b) : (a \o b)[Len(a) + i] = b[i]
  BY ConcatSequence
<1>2. Len(a) \in Nat /\ Len(b) \in Nat
  BY DEF IsSequence
<1>3. ASSUME NEW p \in 1 .. n
      PROVE  (a \o b)[p] = IF p <= Len(a) THEN a[p] ELSE b[p - Len(a)]
  <2>1. CASE p <= Len(a)
    <3>1. p \in 1 .. Len(a)
      BY <1>2, <2>1
    <3> QED
      BY <1>1, <2>1, <3>1
  <2>2. CASE ~(p <= Len(a))
    <3>1. p - Len(a) \in 1 .. Len(b) /\ Len(a) + (p - Len(a)) = p
      BY <1>2, <2>2
    <3>2. (a \o b)[Len(a) + (p - Len(a))] = b[p - Len(a)]
      BY <1>1, <3>1
    <3> QED
      BY <2>2, <3>1, <3>2
  <2> QED
    BY <2>1, <2>2
<1> QED
  BY <1>1, <1>3

\* The ended rows stay behind those of a step.
LEMMA EndedStay ==
  ASSUME NoneIsNoSequence, NEW rows, IsSequence(rows), NEW next, IsSequence(next),
         Len(next) <= Len(rows)
  PROVE  /\ IsSequence(next \o Drop(rows, Len(next)))
         /\ Len(next \o Drop(rows, Len(next))) = Len(rows)
         /\ \A p \in 1 .. Len(rows) :
              (next \o Drop(rows, Len(next)))[p] = IF p <= Len(next) THEN next[p] ELSE rows[p]
<1> DEFINE n == Len(next)
           rest == Drop(rows, n)
<1>1. Len(rows) \in Nat /\ n \in 0 .. Len(rows)
  BY DEF IsSequence
<1>2. /\ IsSequence(rest) /\ Len(rest) = Len(rows) - n
      /\ \A p \in n + 1 .. Len(rows) : rest[p - n] = rows[p]
  BY <1>1, DropRows
<1> HIDE DEF rest
<1>3. Len(rows) = Len(next) + Len(rest)
  BY <1>1, <1>2
<1>4. /\ IsSequence(next \o rest) /\ Len(next \o rest) = Len(rows)
      /\ \A p \in 1 .. Len(rows) :
           (next \o rest)[p] = IF p <= Len(next) THEN next[p] ELSE rest[p - Len(next)]
  BY <1>1, <1>2, <1>3, RowsJoined
<1>5. \A p \in 1 .. Len(rows) : ~(p <= n) => p \in n + 1 .. Len(rows)
  BY <1>1
<1>6. \A p \in 1 .. Len(rows) : (next \o rest)[p] = IF p <= n THEN next[p] ELSE rows[p]
  BY <1>2, <1>4, <1>5
<1> QED
  BY <1>4, <1>6 DEF rest

\* Rows that enter stand behind those that run.
EnteredBehind(rows, start, n) ==
  /\ IsSequence(rows \o Entering(start, Len(rows), n))
  /\ Len(rows \o Entering(start, Len(rows), n)) = n
  /\ \A p \in 1 .. n : (rows \o Entering(start, Len(rows), n))[p] =
                          IF p <= Len(rows) THEN rows[p] ELSE start[p]
  /\ Entering(start, Len(rows), n) # None

LEMMA EnteringJoin ==
  ASSUME NoneIsNoSequence, NEW rows, IsSequence(rows), NEW start, IsSequence(start),
         NEW n \in Nat, Len(rows) <= n, n <= Len(start)
  PROVE  EnteredBehind(rows, start, n)
<1> DEFINE have == Len(rows)
           taken == Take(start, n)
           in == Drop(taken, have)
<1>1. Len(start) \in Nat /\ have \in Nat /\ n \in 0 .. Len(start)
  BY DEF IsSequence
<1>2. /\ IsSequence(taken) /\ Len(taken) = n /\ \A p \in 1 .. n : taken[p] = start[p]
  BY <1>1, TakeRows
<1> HIDE DEF taken
<1>3. have \in 0 .. Len(taken)
  BY <1>1, <1>2
<1>4. /\ IsSequence(in) /\ Len(in) = Len(taken) - have
      /\ \A p \in have + 1 .. Len(taken) : in[p - have] = taken[p]
  BY <1>2, <1>3, DropRows
<1> HIDE DEF in
<1>5. n = Len(rows) + Len(in)
  BY <1>1, <1>2, <1>4
<1>6. /\ IsSequence(rows \o in) /\ Len(rows \o in) = n
      /\ \A p \in 1 .. n : (rows \o in)[p] = IF p <= Len(rows) THEN rows[p] ELSE in[p - Len(rows)]
  BY <1>4, <1>5, RowsJoined
<1>7. \A p \in 1 .. n : ~(p <= have) => p \in have + 1 .. Len(taken)
  BY <1>1, <1>2
<1>8. \A p \in 1 .. n : (rows \o in)[p] = IF p <= have THEN rows[p] ELSE start[p]
  BY <1>2, <1>4, <1>6, <1>7
<1>9. in # None
  BY <1>4, RowsAreSome
<1> QED
  BY <1>6, <1>8, <1>9 DEF in, taken, Entering, EnteredBehind

-----------------------------------------------------------------------------
(* A step of a direction.                                                  *)

\* The rows step k + 1 works on, before it does.
ActiveAt(q, l, d, k) ==
  [p \in 1 .. Wide(q, StepAt(q, d, k + 1)) |-> ReadIn(q, l, d, p, ReadsAt(q, d, p, k))]

\* Every row of a step has an input there, which is its next.
LEMMA RowAdvances ==
  ASSUME NEW q, Runs(q), NEW d \in {1, 2}, NEW k \in 0 .. StepsOf(q) - 1,
         NEW p \in 1 .. Wide(q, StepAt(q, d, k + 1))
  PROVE  LET t == StepAt(q, d, k + 1)
             j == ReadsAt(q, d, p, k)
         IN  /\ t \in 1 .. StepsOf(q) /\ p \in RowsOf(q)
             /\ j \in 0 .. OwnSteps(q, p) - 1
             /\ ReadsAt(q, d, p, k + 1) = j + 1
             /\ (IF d = 1 THEN j + 1 ELSE OwnSteps(q, p) - j) = t
<1> DEFINE t == StepAt(q, d, k + 1)
<1>1. StepsOf(q) \in Nat \ {0} /\ k \in Nat /\ k + 1 <= StepsOf(q)
  BY ShapeOfRun
<1>2. t \in 1 .. StepsOf(q) /\ t = (IF d = 1 THEN k + 1 ELSE StepsOf(q) - k)
  BY <1>1 DEF StepAt
<1>3. p \in RowsOf(q) /\ OwnSteps(q, p) >= t
  <2>1. p \in 1 .. Wide(q, t)
    OBVIOUS
  <2> HIDE DEF t
  <2> QED
    BY <1>2, <2>1, StepRows
<1>4. OwnSteps(q, p) \in 1 .. StepsOf(q)
  BY <1>3, ShapeOfRun
<1> HIDE DEF t
<1>5. /\ ReadsAt(q, d, p, k) \in 0 .. OwnSteps(q, p) - 1
      /\ ReadsAt(q, d, p, k + 1) = ReadsAt(q, d, p, k) + 1
      /\ (IF d = 1 THEN ReadsAt(q, d, p, k) + 1 ELSE OwnSteps(q, p) - ReadsAt(q, d, p, k)) = t
  <2>1. CASE d = 1
    <3>1. k <= OwnSteps(q, p) /\ k + 1 <= OwnSteps(q, p)
      BY <1>1, <1>2, <1>3, <1>4, <2>1
    <3> QED
      BY <1>1, <1>2, <1>4, <2>1, <3>1 DEF ReadsAt
  <2>2. CASE d = 2
    BY <1>1, <1>2, <1>3, <1>4, <2>2 DEF ReadsAt
  <2> QED
    BY <2>1, <2>2
<1> QED
  BY <1>2, <1>3, <1>5 DEF t

\* What a step puts out is each of its rows with its own input added.
LEMMA StepAdds ==
  ASSUME NEW q, Runs(q), NEW l, NEW d, IsIn(q, l, d), NEW k \in 0 .. StepsOf(q) - 1,
         NEW p \in 1 .. Wide(q, StepAt(q, d, k + 1))
  PROVE  OutputAt(q, l, d, k + 1)[p] =
           Added(ActiveAt(q, l, d, k)[p], <<l, d>>, DataOf(q, l)[StepAt(q, d, k + 1)][p])
<1> DEFINE t == StepAt(q, d, k + 1)
           j == ReadsAt(q, d, p, k)
<1>1. d \in {1, 2}
  BY DEF IsIn, Runs, IsNet
<1>2. /\ t \in 1 .. StepsOf(q) /\ p \in RowsOf(q)
      /\ j \in 0 .. OwnSteps(q, p) - 1
      /\ ReadsAt(q, d, p, k + 1) = j + 1
      /\ (IF d = 1 THEN j + 1 ELSE OwnSteps(q, p) - j) = t
  BY <1>1, RowAdvances
<1>3. ReadIn(q, l, d, p, j + 1) =
        Added(ReadIn(q, l, d, p, j), <<l, d>>,
              InputsIn(q, p, l)[IF d = 1 THEN j + 1 ELSE OwnSteps(q, p) - j])
  <2>1. p \in RowsOf(q)
    BY <1>2
  <2>2. j \in 0 .. OwnSteps(q, p) - 1
    BY <1>2
  <2> HIDE DEF j
  <2> QED
    BY <2>1, <2>2, ReadOneMore
<1>4. OutputAt(q, l, d, k + 1)[p] = ReadIn(q, l, d, p, j + 1)
  BY <1>2 DEF OutputAt
<1>5. ActiveAt(q, l, d, k)[p] = ReadIn(q, l, d, p, j)
  BY DEF ActiveAt
<1>6. DataOf(q, l)[t][p] = InputsIn(q, p, l)[t]
  BY <1>2 DEF DataOf
<1> HIDE DEF t, j
<1> QED
  BY <1>2, <1>3, <1>4, <1>5, <1>6 DEF t

LEMMA StepTables ==
  ASSUME NEW q, Runs(q), NEW l, NEW d, d \in {1, 2}, NEW k \in 0 .. StepsOf(q) - 1
  PROVE  LET t == StepAt(q, d, k + 1)
         IN  /\ t \in 1 .. StepsOf(q) /\ Wide(q, t) \in 1 .. Size(q)
             /\ IsSequence(OutputAt(q, l, d, k + 1)) /\ Len(OutputAt(q, l, d, k + 1)) = Wide(q, t)
             /\ IsSequence(ActiveAt(q, l, d, k)) /\ Len(ActiveAt(q, l, d, k)) = Wide(q, t)
             /\ IsSequence(DataOf(q, l)[t]) /\ Len(DataOf(q, l)[t]) = Wide(q, t)
<1> DEFINE t == StepAt(q, d, k + 1)
<1>1. StepsOf(q) \in Nat \ {0} /\ k \in Nat /\ k + 1 <= StepsOf(q)
  BY ShapeOfRun
<1>2. t \in 1 .. StepsOf(q)
  BY <1>1 DEF StepAt
<1> HIDE DEF t
<1>3. Wide(q, t) \in 1 .. Size(q) /\ Wide(q, t) \in Nat
  <2>1. Size(q) \in Nat /\ Wide(q, t) \in 1 .. Size(q)
    BY <1>2, ShapeOfRun
  <2> QED
    BY <2>1
<1>4. IsSequence(OutputAt(q, l, d, k + 1)) /\ Len(OutputAt(q, l, d, k + 1)) = Wide(q, t)
  BY <1>3 DEF OutputAt, IsSequence, t
<1>5. IsSequence(ActiveAt(q, l, d, k)) /\ Len(ActiveAt(q, l, d, k)) = Wide(q, t)
  BY <1>3 DEF ActiveAt, IsSequence, t
<1>6. IsSequence(DataOf(q, l)[t]) /\ Len(DataOf(q, l)[t]) = Wide(q, t)
  <2>1. DataOf(q, l)[t] = [p \in 1 .. Wide(q, t) |-> InputsIn(q, p, l)[t]]
    BY <1>2 DEF DataOf
  <2> QED
    BY <1>3, <2>1 DEF IsSequence
<1> QED
  BY <1>2, <1>3, <1>4, <1>5, <1>6 DEF t

\* The cell's functions over rows of one length.
LEMMA CellOverRows ==
  ASSUME NoneIsNoSequence, NEW q, q.lstm \in BOOLEAN, NEW xs, NEW hs, IsSequence(hs),
         NEW next, IsSequence(next), Len(next) = Len(hs),
         \A p \in 1 .. Len(hs) : next[p] = Added(hs[p], Weights, xs[p])
  PROVE  /\ NextHidden(xs, hs, CellsOf(q, hs)) = next
         /\ NextCell(xs, hs, CellsOf(q, hs)) = CellsOf(q, next)
<1> DEFINE cs == CellsOf(q, hs)
           n == Len(hs)
<1>1. /\ DOMAIN hs = 1 .. n /\ DOMAIN next = 1 .. n /\ n \in Nat
      /\ next = [p \in 1 .. n |-> next[p]]
  <2>1. DOMAIN hs = 1 .. Len(hs) /\ DOMAIN next = 1 .. Len(next)
    BY SequenceIsSeq
  <2> QED
    BY <2>1 DEF IsSequence
<1>2. q.lstm => DOMAIN cs = 1 .. n /\ cs # None /\ \A p \in 1 .. n : cs[p] = CellOf(hs[p])
  <2> SUFFICES ASSUME q.lstm
               PROVE  DOMAIN cs = 1 .. n /\ cs # None /\ \A p \in 1 .. n : cs[p] = CellOf(hs[p])
    OBVIOUS
  <2>1. cs = [p \in 1 .. n |-> CellOf(hs[p])]
    BY <1>1 DEF CellsOf
  <2> HIDE DEF cs
  <2>2. DOMAIN cs = 1 .. n
    BY <2>1
  <2> QED
    BY <1>1, <2>1, <2>2 DEF NoneIsNoSequence
<1>3. ~q.lstm => cs = None
  BY DEF CellsOf
<1> HIDE DEF cs
<1>4. ASSUME NEW p \in 1 .. n
      PROVE  Gates(xs[p], hs[p], IF cs = None THEN None ELSE cs[p]) = next[p]
  <2> DEFINE c == IF cs = None THEN None ELSE cs[p]
  <2>1. c = None \/ c = CellOf(hs[p])
    BY <1>2, <1>3
  <2>2. next[p] = Added(hs[p], Weights, xs[p])
    OBVIOUS
  <2> HIDE DEF c
  <2>3. Gates(xs[p], hs[p], c) = Added(hs[p], Weights, xs[p])
    BY <2>1 DEF Gates, Added
  <2> QED
    BY <2>2, <2>3 DEF c
<1>5. NextHidden(xs, hs, cs) = [p \in 1 .. n |-> next[p]]
  BY <1>1, <1>4 DEF NextHidden
<1>6. NextHidden(xs, hs, cs) = next
  BY <1>1, <1>5
<1>7. NextCell(xs, hs, cs) = CellsOf(q, next)
  <2>1. CASE q.lstm
    BY <1>1, <1>2, <1>6, <2>1 DEF NextCell, CellsOf
  <2>2. CASE ~q.lstm
    BY <1>3, <2>2 DEF NextCell, CellsOf
  <2> QED
    BY <2>1, <2>2
<1> QED
  BY <1>6, <1>7 DEF cs

LEMMA StepRuns ==
  ASSUME NoneIsNoSequence, NEW q, Runs(q), q.lstm \in BOOLEAN, IsIn(q, layer, direction),
         NEW k \in 0 .. StepsOf(q) - 1
  PROVE  LET xs == DataOf(q, layer)[StepAt(q, direction, k + 1)]
             hs == ActiveAt(q, layer, direction, k)
             next == OutputAt(q, layer, direction, k + 1)
         IN  /\ NextHidden(xs, hs, CellsOf(q, hs)) = next
             /\ NextCell(xs, hs, CellsOf(q, hs)) = CellsOf(q, next)
<1> DEFINE t == StepAt(q, direction, k + 1)
           xs == DataOf(q, layer)[t]
           hs == ActiveAt(q, layer, direction, k)
           next == OutputAt(q, layer, direction, k + 1)
<1>1. direction \in {1, 2}
  BY DEF IsIn, Runs, IsNet
<1>2. /\ IsSequence(next) /\ Len(next) = Wide(q, t)
      /\ IsSequence(hs) /\ Len(hs) = Wide(q, t)
  BY <1>1, StepTables
<1>3. \A p \in 1 .. Wide(q, t) : next[p] = Added(hs[p], <<layer, direction>>, xs[p])
  BY StepAdds
<1> HIDE DEF xs, hs, next, t
<1>4. \A p \in 1 .. Len(hs) : next[p] = Added(hs[p], Weights, xs[p])
  BY <1>2, <1>3 DEF Weights
<1>5. IsSequence(hs) /\ IsSequence(next) /\ Len(next) = Len(hs)
  BY <1>2
<1>6. NextHidden(xs, hs, CellsOf(q, hs)) = next /\ NextCell(xs, hs, CellsOf(q, hs)) = CellsOf(q, next)
  BY <1>4, <1>5, CellOverRows
<1> QED
  BY <1>6 DEF xs, hs, next, t

\* The cell rows of a table of rows.
LEMMA CellTable ==
  ASSUME NoneIsNoSequence, NEW q, q.lstm, NEW rows, IsSequence(rows)
  PROVE  /\ IsSequence(CellsOf(q, rows)) /\ Len(CellsOf(q, rows)) = Len(rows)
         /\ \A p \in 1 .. Len(rows) : CellsOf(q, rows)[p] = CellOf(rows[p])
         /\ CellsOf(q, rows) # None
<1>1. DOMAIN rows = 1 .. Len(rows) /\ Len(rows) \in Nat
  BY SequenceIsSeq DEF IsSequence
<1>2. CellsOf(q, rows) = [p \in 1 .. Len(rows) |-> CellOf(rows[p])]
  BY <1>1 DEF CellsOf
<1>3. IsSequence(CellsOf(q, rows)) /\ Len(CellsOf(q, rows)) = Len(rows)
  BY <1>1, <1>2 DEF IsSequence
<1>4. CellsOf(q, rows) # None
  BY <1>3, RowsAreSome
<1> QED
  BY <1>2, <1>3, <1>4

LEMMA NoCells ==
  ASSUME NEW q, ~q.lstm, NEW rows
  PROVE  CellsOf(q, rows) = None
  BY DEF CellsOf

\* Cells are taken, kept and let in as their rows are.
LEMMA CellsTaken ==
  ASSUME NoneIsNoSequence, NEW q, q.lstm \in BOOLEAN, NEW rows, IsSequence(rows),
         NEW n \in 0 .. Len(rows)
  PROVE  Take(CellsOf(q, rows), n) = CellsOf(q, Take(rows, n))
<1>1. CASE ~q.lstm
  BY <1>1, NoCells DEF Take
<1>2. CASE q.lstm
  <2> DEFINE cs == CellsOf(q, rows)
             left == Take(cs, n)
             some == Take(rows, n)
             right == CellsOf(q, some)
  <2>1. IsSequence(cs) /\ Len(cs) = Len(rows) /\ \A p \in 1 .. Len(rows) : cs[p] = CellOf(rows[p])
    BY <1>2, CellTable
  <2>2. IsSequence(some) /\ Len(some) = n /\ \A p \in 1 .. n : some[p] = rows[p]
    BY TakeRows
  <2> HIDE DEF cs, some
  <2>3. n \in 0 .. Len(cs)
    BY <2>1
  <2>4. IsSequence(left) /\ Len(left) = n /\ \A p \in 1 .. n : left[p] = cs[p]
    BY <2>1, <2>3, TakeRows
  <2>5. IsSequence(right) /\ Len(right) = Len(some) /\ \A p \in 1 .. Len(some) : right[p] = CellOf(some[p])
    BY <1>2, <2>2, CellTable
  <2> HIDE DEF left, right
  <2>6. \A p \in 1 .. n : p \in 1 .. Len(rows)
    BY DEF IsSequence
  <2>7. \A p \in 1 .. Len(left) : left[p] = right[p]
    BY <2>1, <2>2, <2>4, <2>5, <2>6
  <2>8. left = right
    BY <2>2, <2>4, <2>5, <2>7, SameSequence
  <2> QED
    BY <2>8 DEF left, right, cs, some
<1> QED
  BY <1>1, <1>2

LEMMA CellsKept ==
  ASSUME NoneIsNoSequence, NEW q, q.lstm, NEW rows, IsSequence(rows), NEW next, IsSequence(next),
         Len(next) <= Len(rows)
  PROVE  CellsOf(q, next) \o Drop(CellsOf(q, rows), Len(next)) =
           CellsOf(q, next \o Drop(rows, Len(next)))
<1> DEFINE cs == CellsOf(q, rows)
           cn == CellsOf(q, next)
           both == next \o Drop(rows, Len(next))
           left == cn \o Drop(cs, Len(next))
           right == CellsOf(q, both)
<1>1. IsSequence(cs) /\ Len(cs) = Len(rows) /\ \A p \in 1 .. Len(rows) : cs[p] = CellOf(rows[p])
  BY CellTable
<1>2. IsSequence(cn) /\ Len(cn) = Len(next) /\ \A p \in 1 .. Len(next) : cn[p] = CellOf(next[p])
  BY CellTable
<1>3. /\ IsSequence(both) /\ Len(both) = Len(rows)
      /\ \A p \in 1 .. Len(rows) : both[p] = IF p <= Len(next) THEN next[p] ELSE rows[p]
  BY EndedStay
<1> HIDE DEF cs, cn, both
<1>4. Len(cn) <= Len(cs)
  BY <1>1, <1>2
<1>5. /\ IsSequence(cn \o Drop(cs, Len(cn))) /\ Len(cn \o Drop(cs, Len(cn))) = Len(cs)
      /\ \A p \in 1 .. Len(cs) : (cn \o Drop(cs, Len(cn)))[p] = IF p <= Len(cn) THEN cn[p] ELSE cs[p]
  BY <1>1, <1>2, <1>4, EndedStay
<1>6. /\ IsSequence(left) /\ Len(left) = Len(rows)
      /\ \A p \in 1 .. Len(rows) : left[p] = IF p <= Len(next) THEN cn[p] ELSE cs[p]
  BY <1>1, <1>2, <1>5
<1>7. IsSequence(right) /\ Len(right) = Len(rows) /\ \A p \in 1 .. Len(rows) : right[p] = CellOf(both[p])
  <2>1. IsSequence(right) /\ Len(right) = Len(both) /\ \A p \in 1 .. Len(both) : right[p] = CellOf(both[p])
    BY <1>3, CellTable
  <2> QED
    BY <1>3, <2>1
<1> HIDE DEF left, right
<1>8. \A p \in 1 .. Len(left) : left[p] = right[p]
  <2>1. \A p \in 1 .. Len(rows) : p <= Len(next) => p \in 1 .. Len(next)
    BY DEF IsSequence
  <2> QED
    BY <1>1, <1>2, <1>3, <1>6, <1>7, <2>1
<1>9. left = right
  BY <1>6, <1>7, <1>8, SameSequence
<1> QED
  BY <1>9 DEF left, right, cs, cn, both

LEMMA CellsEnter ==
  ASSUME NoneIsNoSequence, NEW q, q.lstm \in BOOLEAN, NEW rows, IsSequence(rows),
         NEW start, IsSequence(start), NEW n \in Nat, Len(rows) <= n, n <= Len(start)
  PROVE  Join(CellsOf(q, rows), Entering(CellsOf(q, start), Len(rows), n)) =
           CellsOf(q, rows \o Entering(start, Len(rows), n))
<1>1. CASE ~q.lstm
  BY <1>1, NoCells DEF Join
<1>2. CASE q.lstm
  <2> DEFINE cs == CellsOf(q, rows)
             cb == CellsOf(q, start)
             both == rows \o Entering(start, Len(rows), n)
             left == cs \o Entering(cb, Len(rows), n)
             right == CellsOf(q, both)
  <2>1. /\ IsSequence(cs) /\ Len(cs) = Len(rows) /\ \A p \in 1 .. Len(rows) : cs[p] = CellOf(rows[p])
        /\ cs # None
    BY <1>2, CellTable
  <2>2. IsSequence(cb) /\ Len(cb) = Len(start) /\ \A p \in 1 .. Len(start) : cb[p] = CellOf(start[p])
    BY <1>2, CellTable
  <2>3. /\ IsSequence(both) /\ Len(both) = n
        /\ \A p \in 1 .. n : both[p] = IF p <= Len(rows) THEN rows[p] ELSE start[p]
    BY EnteringJoin DEF EnteredBehind
  <2> HIDE DEF cs, cb, both
  <2>4. Len(cs) <= n /\ n <= Len(cb)
    BY <2>1, <2>2
  <2>5. /\ IsSequence(cs \o Entering(cb, Len(cs), n)) /\ Len(cs \o Entering(cb, Len(cs), n)) = n
        /\ \A p \in 1 .. n : (cs \o Entering(cb, Len(cs), n))[p] = IF p <= Len(cs) THEN cs[p] ELSE cb[p]
    <3>1. IsSequence(cs)
      BY <2>1
    <3>2. IsSequence(cb)
      BY <2>2
    <3>3. Len(cs) <= n
      BY <2>4
    <3>4. n <= Len(cb)
      BY <2>4
    <3>5. EnteredBehind(cs, cb, n)
      BY <3>1, <3>2, <3>3, <3>4, EnteringJoin
    <3> QED
      BY <3>5 DEF EnteredBehind
  <2>6. /\ IsSequence(left) /\ Len(left) = n
        /\ \A p \in 1 .. n : left[p] = IF p <= Len(rows) THEN cs[p] ELSE cb[p]
    BY <2>1, <2>5
  <2>7. IsSequence(right) /\ Len(right) = n /\ \A p \in 1 .. n : right[p] = CellOf(both[p])
    <3>1. IsSequence(right) /\ Len(right) = Len(both) /\ \A p \in 1 .. Len(both) : right[p] = CellOf(both[p])
      BY <1>2, <2>3, CellTable
    <3> QED
      BY <2>3, <3>1
  <2> HIDE DEF left, right
  <2>8. \A p \in 1 .. Len(left) : left[p] = right[p]
    <3>1. \A p \in 1 .. n : p \in 1 .. Len(start) /\ (p <= Len(rows) => p \in 1 .. Len(rows))
      BY DEF IsSequence
    <3> QED
      BY <2>1, <2>2, <2>3, <2>6, <2>7, <3>1
  <2>9. left = right
    BY <2>6, <2>7, <2>8, SameSequence
  <2>10. Join(cs, Entering(cb, Len(rows), n)) = left
    BY <2>1 DEF Join, left
  <2> QED
    BY <2>9, <2>10 DEF right, cs, cb, both
<1> QED
  BY <1>1, <1>2

-----------------------------------------------------------------------------
(* The rows of a direction after its steps.                                *)

LEMMA HiddenTable ==
  ASSUME NEW q, Runs(q), NEW l, NEW d, d \in {1, 2}, NEW k \in 0 .. StepsOf(q)
  PROVE  /\ RowsAt(q, d, k) \in 0 .. Size(q)
         /\ IsSequence(HiddenAt(q, l, d, k)) /\ Len(HiddenAt(q, l, d, k)) = RowsAt(q, d, k)
         /\ \A p \in 1 .. RowsAt(q, d, k) :
              HiddenAt(q, l, d, k)[p] = ReadIn(q, l, d, p, ReadsAt(q, d, p, k))
<1>1. StepsOf(q) \in Nat \ {0} /\ Size(q) \in Nat
  BY ShapeOfRun
<1>2. RowsAt(q, d, k) \in 0 .. Size(q)
  <2>1. CASE q.form = "packed" /\ d = 2 /\ k # 0
    <3>1. StepsOf(q) + 1 - k \in 1 .. StepsOf(q)
      BY <1>1, <2>1
    <3>2. Wide(q, StepsOf(q) + 1 - k) \in 1 .. Size(q)
      BY <3>1, ShapeOfRun
    <3> QED
      BY <1>1, <2>1, <3>2 DEF RowsAt
  <2>2. CASE ~(q.form = "packed" /\ d = 2 /\ k # 0)
    BY <1>1, <2>2 DEF RowsAt
  <2> QED
    BY <2>1, <2>2
<1> QED
  BY <1>1, <1>2 DEF HiddenAt, IsSequence

\* Without packing a step works on all the rows.
LEMMA DenseHidden ==
  ASSUME NEW q, Runs(q), q.form # "packed", NEW l, NEW d, d \in {1, 2},
         NEW k \in 0 .. StepsOf(q) - 1
  PROVE  /\ HiddenAt(q, l, d, k) = ActiveAt(q, l, d, k)
         /\ HiddenAt(q, l, d, k + 1) = OutputAt(q, l, d, k + 1)
<1>1. StepAt(q, d, k + 1) \in 1 .. StepsOf(q)
  BY StepTables
<1>2. Wide(q, StepAt(q, d, k + 1)) = Size(q)
  BY <1>1, ShapeOfDense
<1> QED
  BY <1>2 DEF HiddenAt, ActiveAt, OutputAt, RowsAt

\* Forwards, a step works on the first rows and leaves those that ended.
LEMMA ForwardHidden ==
  ASSUME NoneIsNoSequence, NEW q, Runs(q), NEW l, NEW k \in 0 .. StepsOf(q) - 1
  PROVE  LET n == Wide(q, k + 1)
             rows == HiddenAt(q, l, 1, k)
         IN  /\ Take(rows, n) = ActiveAt(q, l, 1, k)
             /\ OutputAt(q, l, 1, k + 1) \o Drop(rows, n) = HiddenAt(q, l, 1, k + 1)
             /\ n \in 0 .. Len(rows)
<1> DEFINE n == Wide(q, k + 1)
           rows == HiddenAt(q, l, 1, k)
           after == HiddenAt(q, l, 1, k + 1)
           active == ActiveAt(q, l, 1, k)
           out == OutputAt(q, l, 1, k + 1)
           some == Take(rows, n)
           all == out \o Drop(rows, n)
<1>1. StepsOf(q) \in Nat \ {0} /\ Size(q) \in Nat \ {0} /\ StepAt(q, 1, k + 1) = k + 1
  BY ShapeOfRun DEF StepAt
<1>2. k \in 0 .. StepsOf(q) /\ k + 1 \in 0 .. StepsOf(q) /\ k + 1 \in 1 .. StepsOf(q) /\ k \in Nat
  BY <1>1
<1>3. /\ IsSequence(rows) /\ Len(rows) = Size(q)
      /\ \A p \in 1 .. Size(q) : rows[p] = ReadIn(q, l, 1, p, ReadsAt(q, 1, p, k))
  <2>1. RowsAt(q, 1, k) = Size(q)
    BY DEF RowsAt
  <2> QED
    BY <1>2, <2>1, HiddenTable
<1>4. /\ IsSequence(after) /\ Len(after) = Size(q)
      /\ \A p \in 1 .. Size(q) : after[p] = ReadIn(q, l, 1, p, ReadsAt(q, 1, p, k + 1))
  <2>1. RowsAt(q, 1, k + 1) = Size(q)
    BY DEF RowsAt
  <2> DEFINE j == k + 1
  <2>2. j \in 0 .. StepsOf(q)
    BY <1>2
  <2> HIDE DEF j
  <2>3. /\ IsSequence(HiddenAt(q, l, 1, j)) /\ Len(HiddenAt(q, l, 1, j)) = RowsAt(q, 1, j)
        /\ \A p \in 1 .. RowsAt(q, 1, j) :
              HiddenAt(q, l, 1, j)[p] = ReadIn(q, l, 1, p, ReadsAt(q, 1, p, j))
    BY <2>2, HiddenTable
  <2> QED
    BY <2>1, <2>3 DEF j
<1>5. /\ n \in 1 .. Size(q) /\ IsSequence(out) /\ Len(out) = n
      /\ IsSequence(active) /\ Len(active) = n
  BY <1>1, StepTables
<1>6. /\ \A p \in 1 .. n : out[p] = ReadIn(q, l, 1, p, ReadsAt(q, 1, p, k + 1))
      /\ \A p \in 1 .. n : active[p] = ReadIn(q, l, 1, p, ReadsAt(q, 1, p, k))
  BY <1>1 DEF OutputAt, ActiveAt
<1>7. ASSUME NEW p \in 1 .. Size(q), p \notin 1 .. n
      PROVE  ReadsAt(q, 1, p, k) = ReadsAt(q, 1, p, k + 1)
  <2>1. p \in RowsOf(q)
    BY DEF RowsOf
  <2>2. OwnSteps(q, p) \in 1 .. StepsOf(q) /\ ~(OwnSteps(q, p) >= k + 1)
    BY <1>2, <1>7, <2>1, InStep, ShapeOfRun
  <2> QED
    BY <1>1, <1>2, <2>2 DEF ReadsAt
<1> HIDE DEF n, rows, after, active, out
<1>8. n \in 0 .. Len(rows) /\ Len(out) <= Len(rows)
  BY <1>1, <1>3, <1>5
<1>9. IsSequence(some) /\ Len(some) = n /\ \A p \in 1 .. n : some[p] = rows[p]
  BY <1>3, <1>8, TakeRows
<1>10. /\ IsSequence(all) /\ Len(all) = Size(q)
       /\ \A p \in 1 .. Size(q) : all[p] = IF p <= n THEN out[p] ELSE rows[p]
  <2>1. /\ IsSequence(out \o Drop(rows, Len(out))) /\ Len(out \o Drop(rows, Len(out))) = Len(rows)
        /\ \A p \in 1 .. Len(rows) :
             (out \o Drop(rows, Len(out)))[p] = IF p <= Len(out) THEN out[p] ELSE rows[p]
    BY <1>3, <1>5, <1>8, EndedStay
  <2> QED
    BY <1>3, <1>5, <2>1
<1> HIDE DEF some, all
<1>11. some = active
  <2>1. \A p \in 1 .. n : p \in 1 .. Size(q)
    BY <1>1, <1>5
  <2>2. \A p \in 1 .. Len(some) : some[p] = active[p]
    BY <1>3, <1>6, <1>9, <2>1
  <2> QED
    BY <1>5, <1>9, <2>2, SameSequence
<1>12. all = after
  <2>1. \A p \in 1 .. Size(q) : p <= n <=> p \in 1 .. n
    BY <1>1, <1>5
  <2>2. \A p \in 1 .. Size(q) : p \notin 1 .. n => rows[p] = after[p]
    BY <1>3, <1>4, <1>7
  <2>3. \A p \in 1 .. Size(q) : p \in 1 .. n => out[p] = after[p]
    BY <1>4, <1>6
  <2>4. \A p \in 1 .. Len(all) : all[p] = after[p]
    BY <1>10, <2>1, <2>2, <2>3
  <2> QED
    BY <1>4, <1>10, <2>4, SameSequence
<1> QED
  BY <1>8, <1>11, <1>12 DEF some, all, n, rows, after, active, out

\* The initial rows are where the sequences start.
LEMMA InitialRows ==
  ASSUME NEW q, Runs(q), NEW i \in 1 .. q.layers * q.directions
  PROVE  /\ IsSequence(StateOf(q, "h")[i]) /\ Len(StateOf(q, "h")[i]) = Size(q)
         /\ \A p \in RowsOf(q) : StateOf(q, "h")[i][p] = StartsIn(q, p)[i]
         /\ StateOf(q, "c")[i] =
              [p \in RowsOf(q) |-> CellOf(StateOf(q, "h")[i][p])]
<1>1. Size(q) \in Nat
  BY ShapeOfRun
<1>2. /\ StateOf(q, "h")[i] =
           [p \in 1 .. Size(q) |-> Row("h", IF q.given THEN <<i, SequenceIn(q, p)>> ELSE Zero)]
      /\ StateOf(q, "c")[i] =
           [p \in 1 .. Size(q) |-> Row("c", IF q.given THEN <<i, SequenceIn(q, p)>> ELSE Zero)]
  BY DEF StateOf, RowsOf
<1>3. \A where : Row("c", where) = CellOf(Row("h", where))
  BY DEF Row, CellOf
<1>4. IsSequence(StateOf(q, "h")[i]) /\ Len(StateOf(q, "h")[i]) = Size(q)
  BY <1>1, <1>2 DEF IsSequence
<1>5. ASSUME NEW p \in RowsOf(q)
      PROVE  StateOf(q, "h")[i][p] = StartsIn(q, p)[i]
  BY <1>2 DEF StartsIn, RowsOf
<1>6. StateOf(q, "c")[i] = [p \in RowsOf(q) |-> CellOf(StateOf(q, "h")[i][p])]
  <2>1. \A p \in RowsOf(q) : CellOf(StateOf(q, "h")[i][p]) =
          Row("c", IF q.given THEN <<i, SequenceIn(q, p)>> ELSE Zero)
    <3> SUFFICES ASSUME NEW p \in RowsOf(q)
                 PROVE  CellOf(StateOf(q, "h")[i][p]) =
                          Row("c", IF q.given THEN <<i, SequenceIn(q, p)>> ELSE Zero)
      OBVIOUS
    <3> DEFINE where == IF q.given THEN <<i, SequenceIn(q, p)>> ELSE Zero
    <3>1. StateOf(q, "h")[i][p] = Row("h", where)
      BY <1>2 DEF RowsOf
    <3> HIDE DEF where
    <3>2. CellOf(StateOf(q, "h")[i][p]) = Row("c", where)
      BY <1>3, <3>1
    <3> QED
      BY <3>2 DEF where
  <2> QED
    BY <1>2, <2>1 DEF RowsOf
<1> QED
  BY <1>4, <1>5, <1>6

\* Backwards, sequences enter with their own rows at their own last step.
LEMMA BackwardHidden ==
  ASSUME NoneIsNoSequence, NEW q, Runs(q), q.form = "packed", NEW l, IsIn(q, l, 2),
         NEW k \in 0 .. StepsOf(q) - 1
  PROVE  LET n == Wide(q, StepsOf(q) - k)
             rows == HiddenAt(q, l, 2, k)
             start == StateOf(q, "h")[StateIndexOf(q, l, 2)]
         IN  /\ Len(rows) <= n /\ n <= Len(start) /\ n \in Nat
             /\ rows \o Entering(start, Len(rows), n) = ActiveAt(q, l, 2, k)
             /\ HiddenAt(q, l, 2, k + 1) = OutputAt(q, l, 2, k + 1)
<1> DEFINE t == StepsOf(q) - k
           n == Wide(q, t)
           rows == HiddenAt(q, l, 2, k)
           have == RowsAt(q, 2, k)
           i == StateIndexOf(q, l, 2)
           start == StateOf(q, "h")[i]
           active == ActiveAt(q, l, 2, k)
           joined == rows \o Entering(start, Len(rows), n)
<1>1. StepsOf(q) \in Nat \ {0} /\ Size(q) \in Nat \ {0}
  BY ShapeOfRun
<1>2. /\ k \in 0 .. StepsOf(q) /\ k \in Nat /\ t \in 1 .. StepsOf(q)
      /\ StepAt(q, 2, k + 1) = t /\ StepsOf(q) + 1 - (k + 1) = t /\ k + 1 # 0
  BY <1>1 DEF StepAt
<1>3. /\ IsSequence(rows) /\ Len(rows) = have /\ have \in 0 .. Size(q)
      /\ \A p \in 1 .. have : rows[p] = ReadIn(q, l, 2, p, ReadsAt(q, 2, p, k))
  BY <1>2, HiddenTable
<1>4. i \in 1 .. q.layers * q.directions
  BY IndexRange DEF IsIn, Runs
<1>5. /\ IsSequence(start) /\ Len(start) = Size(q)
      /\ \A p \in RowsOf(q) : start[p] = StartsIn(q, p)[i]
  BY <1>4, InitialRows
<1>6. n \in 1 .. Size(q) /\ n \in Nat
  <2>1. n \in 1 .. Size(q)
    BY <1>2, ShapeOfRun
  <2> QED
    BY <1>1, <2>1
<1>7. IsSequence(active) /\ Len(active) = n /\ \A p \in 1 .. n : active[p] = ReadIn(q, l, 2, p, ReadsAt(q, 2, p, k))
  BY <1>2, <1>6 DEF ActiveAt, IsSequence
<1>8. have = IF k = 0 THEN 0 ELSE Wide(q, t + 1)
  <2>1. StepsOf(q) + 1 - k = t + 1
    BY <1>1, <1>2
  <2> HIDE DEF t
  <2> QED
    BY <2>1 DEF RowsAt
<1>9. have <= n
  <2>1. CASE k = 0
    BY <1>6, <1>8, <2>1
  <2>2. CASE k # 0
    <3>1. t + 1 \in 1 .. StepsOf(q)
      BY <1>1, <1>2, <2>2
    <3>2. Wide(q, t + 1) <= Wide(q, t)
      <4>1. t \in 1 .. StepsOf(q)
        BY <1>2
      <4> HIDE DEF t
      <4> QED
        BY <3>1, <4>1, Narrowing
    <3> QED
      BY <1>8, <2>2, <3>2
  <2> QED
    BY <2>1, <2>2
<1>10. ASSUME NEW p \in 1 .. n, p \notin 1 .. have
       PROVE  ReadIn(q, l, 2, p, ReadsAt(q, 2, p, k)) = start[p]
  <2>1. p \in RowsOf(q) /\ OwnSteps(q, p) >= t
    BY <1>2, StepRows
  <2>2. OwnSteps(q, p) \in 1 .. StepsOf(q)
    BY <2>1, ShapeOfRun
  <2>3. OwnSteps(q, p) = t
    <3>1. CASE k = 0
      BY <1>1, <1>2, <2>1, <2>2, <3>1
    <3>2. CASE k # 0
      <4>1. t + 1 \in 1 .. StepsOf(q)
        BY <1>1, <1>2, <3>2
      <4>2. ~(OwnSteps(q, p) >= t + 1)
        <5>1. p \notin 1 .. Wide(q, t + 1)
          BY <1>8, <1>10, <3>2
        <5> HIDE DEF t
        <5> QED
          BY <2>1, <4>1, <5>1, InStep
      <4> QED
        BY <1>1, <1>2, <2>1, <2>2, <4>2
    <3> QED
      BY <3>1, <3>2
  <2>4. ReadsAt(q, 2, p, k) = 0
    BY <1>1, <1>2, <2>3 DEF ReadsAt
  <2>5. /\ IsRow(StartsIn(q, p)[i]) /\ IsSequence(InputsIn(q, p, l))
    <3>1. IsRow(StartsIn(q, p)[i]) /\ l \in 1 .. q.layers + 1
      BY <2>1, StartInRow
    <3> QED
      BY <2>1, <3>1, RowFacts
  <2>6. ReadIn(q, l, 2, p, 0) = StartsIn(q, p)[i]
    <3>1. ReadTo(StartsIn(q, p)[i], l, 2, InputsIn(q, p, l), 0) = StartsIn(q, p)[i]
      <4> DEFINE row == StartsIn(q, p)[i]
                 xs == InputsIn(q, p, l)
      <4>1. IsRow(row)
        BY <2>5
      <4>2. IsSequence(xs)
        BY <2>5
      <4> HIDE DEF row, xs
      <4>3. ReadTo(row, l, 2, xs, 0) = row
        BY <4>1, <4>2, ReadToNone
      <4> QED
        BY <4>3 DEF row, xs
    <3> QED
      BY <3>1 DEF ReadIn
  <2> QED
    BY <1>5, <2>1, <2>4, <2>6
<1>11. HiddenAt(q, l, 2, k + 1) = OutputAt(q, l, 2, k + 1)
  <2>1. RowsAt(q, 2, k + 1) = Wide(q, StepAt(q, 2, k + 1))
    BY <1>2 DEF RowsAt
  <2> QED
    BY <2>1 DEF HiddenAt, OutputAt
<1> HIDE DEF n, rows, have, start, active
<1>12. /\ Len(rows) <= n /\ n <= Len(start) /\ n \in Nat
  BY <1>1, <1>3, <1>5, <1>6, <1>9
<1>13. /\ IsSequence(joined) /\ Len(joined) = n
       /\ \A p \in 1 .. n : joined[p] = IF p <= Len(rows) THEN rows[p] ELSE start[p]
  <2>1. IsSequence(rows)
    BY <1>3
  <2>2. IsSequence(start)
    BY <1>5
  <2>3. Len(rows) <= n
    BY <1>12
  <2>4. n <= Len(start)
    BY <1>12
  <2> QED
    BY <1>6, <2>1, <2>2, <2>3, <2>4, EnteringJoin DEF EnteredBehind
<1> HIDE DEF joined
<1>14. joined = active
  <2>1. \A p \in 1 .. n : p <= have <=> p \in 1 .. have
    BY <1>1, <1>3, <1>6
  <2>2. \A p \in 1 .. n : p \in 1 .. have => rows[p] = active[p]
    BY <1>3, <1>7
  <2>3. \A p \in 1 .. n : p \notin 1 .. have => start[p] = active[p]
    BY <1>7, <1>10
  <2>4. \A p \in 1 .. Len(joined) : joined[p] = active[p]
    BY <1>3, <1>13, <2>1, <2>2, <2>3
  <2> QED
    BY <1>7, <1>13, <2>4, SameSequence
<1> QED
  BY <1>11, <1>12, <1>14 DEF joined, n, rows, start, active

-----------------------------------------------------------------------------
(* The ends of a direction, of a layer and of the call.                    *)

\* A direction's outputs, put in order, are the direction's.
LEMMA DirectionDone ==
  ASSUME NEW q, Runs(q), NEW l, NEW d, d \in {1, 2}
  PROVE  LET outs == OutputsTo(q, l, d, StepsOf(q))
         IN  (IF d = 2 THEN Reverse(outs) ELSE outs) = DirectionOf(q, l, d)
<1> DEFINE T == StepsOf(q)
           outs == OutputsTo(q, l, d, T)
           ordered == IF d = 2 THEN Reverse(outs) ELSE outs
           whole == DirectionOf(q, l, d)
<1>1. T \in Nat \ {0}
  BY ShapeOfRun
<1>2. IsSequence(outs) /\ Len(outs) = T /\ \A j \in 1 .. T : outs[j] = OutputAt(q, l, d, j)
  BY <1>1 DEF OutputsTo, IsSequence
<1>3. IsSequence(whole) /\ Len(whole) = T
  BY <1>1 DEF DirectionOf, IsSequence
<1>4. /\ IsSequence(ordered) /\ Len(ordered) = T
      /\ \A t \in 1 .. T : ordered[t] = outs[IF d = 2 THEN T - t + 1 ELSE t]
  <2> HIDE DEF outs, T
  <2>1. /\ IsSequence(Reverse(outs)) /\ Len(Reverse(outs)) = T
        /\ \A t \in 1 .. T : Reverse(outs)[t] = outs[T - t + 1]
    BY <1>2, ReverseSequence
  <2> QED
    BY <1>2, <2>1
<1> HIDE DEF outs, ordered
<1>5. ASSUME NEW t \in 1 .. T
      PROVE  ordered[t] = whole[t]
  <2> DEFINE j == IF d = 2 THEN T - t + 1 ELSE t
  <2>1. j \in 1 .. T /\ StepAt(q, d, j) = t
    BY <1>1 DEF StepAt
  <2>2. ordered[t] = OutputAt(q, l, d, j)
    BY <1>2, <1>4, <2>1
  <2>3. whole[t] = [p \in 1 .. Wide(q, t) |->
                      ReadIn(q, l, d, p, IF d = 1 THEN t ELSE OwnSteps(q, p) - t + 1)]
    BY DEF DirectionOf
  <2>4. ASSUME NEW p \in 1 .. Wide(q, t)
        PROVE  ReadsAt(q, d, p, j) = (IF d = 1 THEN t ELSE OwnSteps(q, p) - t + 1)
    <3>1. p \in RowsOf(q) /\ OwnSteps(q, p) >= t
      BY StepRows
    <3>2. OwnSteps(q, p) \in 1 .. T
      BY <3>1, ShapeOfRun
    <3> QED
      BY <1>1, <3>1, <3>2 DEF ReadsAt
  <2>5. OutputAt(q, l, d, j) = [p \in 1 .. Wide(q, t) |-> ReadIn(q, l, d, p, ReadsAt(q, d, p, j))]
    BY <2>1 DEF OutputAt
  <2> HIDE DEF j
  <2> QED
    BY <2>2, <2>3, <2>4, <2>5
<1>6. ordered = whole
  <2> HIDE DEF whole
  <2> QED
    BY <1>3, <1>4, <1>5, SameSequence
<1> QED
  BY <1>6 DEF ordered, outs

\* After its steps, a direction holds the final rows of its state index.
LEMMA FinalRowsReached ==
  ASSUME NEW q, Runs(q), NEW l, NEW d, IsIn(q, l, d)
  PROVE  HiddenAt(q, l, d, StepsOf(q)) = [p \in RowsOf(q) |-> FinalIn(q, p)[StateIndexOf(q, l, d)]]
<1> DEFINE T == StepsOf(q)
           i == StateIndexOf(q, l, d)
<1>1. T \in Nat \ {0} /\ Size(q) \in Nat /\ d \in {1, 2} /\ IsNet(q)
  BY ShapeOfRun DEF IsIn, Runs, IsNet
<1>2. RowsAt(q, d, T) = Size(q)
  <2>1. T + 1 - T = 1 /\ T # 0
    BY <1>1
  <2>2. Wide(q, 1) = Size(q)
    BY ShapeOfRun
  <2> HIDE DEF T
  <2> QED
    BY <2>1, <2>2 DEF RowsAt, T
<1>3. ASSUME NEW p \in RowsOf(q)
      PROVE  ReadIn(q, l, d, p, ReadsAt(q, d, p, T)) = FinalIn(q, p)[i]
  <2> DEFINE row == StartsIn(q, p)[i]
             xs == InputsIn(q, p, l)
  <2>1. OwnSteps(q, p) \in 1 .. T
    BY ShapeOfRun
  <2>2. ReadsAt(q, d, p, T) = OwnSteps(q, p)
    BY <1>1, <2>1 DEF ReadsAt
  <2>3. l \in 1 .. q.layers + 1 /\ i \in 1 .. q.layers * q.directions
    BY StartInRow
  <2>4. IsSequence(xs) /\ Len(xs) = OwnSteps(q, p)
    BY <2>3, RowFacts
  <2>5. ReadIn(q, l, d, p, OwnSteps(q, p)) = AfterReading(row, l, d, xs)
    <3> HIDE DEF xs, row
    <3>1. ReadTo(row, l, d, xs, Len(xs)) = AfterReading(row, l, d, xs)
      BY <2>4, ReadToAll
    <3> QED
      BY <2>4, <3>1 DEF ReadIn, row, xs
  <2>6. LayerOfIndex(q, i) = l /\ DirectionOfIndex(q, i) = d
    BY <1>1, IndexRange DEF IsIn
  <2>7. FinalIn(q, p)[i] =
          AfterReading(row, LayerOfIndex(q, i), DirectionOfIndex(q, i),
                       LayerInputs(q, StartsIn(q, p), FedIn(q, p))[LayerOfIndex(q, i)])
    <3> HIDE DEF i
    <3> QED
      BY <1>1, <2>3, FinalIsReading DEF FinalIn
  <2> QED
    BY <2>2, <2>5, <2>6, <2>7 DEF InputsIn
<1> QED
  BY <1>2, <1>3 DEF HiddenAt, RowsOf

\* The directions side by side are the next layer's inputs.
LEMMA LayerDone ==
  ASSUME NEW q, Runs(q), NEW l \in 1 .. q.layers, NEW t \in 1 .. StepsOf(q),
         NEW p \in 1 .. Wide(q, t)
  PROVE  [parts |-> [d \in 1 .. q.directions |-> DirectionsTo(q, l, q.directions)[d][t][p]],
          dropped |-> q.dropout /\ l < q.layers] = DataOf(q, l + 1)[t][p]
<1> DEFINE xs == InputsIn(q, p, l)
           start == StartsIn(q, p)
           upper == InputsIn(q, p, l + 1)
           dropped == q.dropout /\ l < q.layers
<1>1. /\ IsNet(q) /\ p \in RowsOf(q) /\ OwnSteps(q, p) >= t
      /\ q.layers \in Nat /\ l \in 1 .. q.layers + 1
  BY StepRows DEF Runs, IsNet
<1>2. OwnSteps(q, p) \in 1 .. StepsOf(q)
  BY <1>1, ShapeOfRun
<1>3. IsSequence(xs) /\ Len(xs) = OwnSteps(q, p)
  BY <1>1, RowFacts
<1>4. DOMAIN xs = 1 .. OwnSteps(q, p) /\ t \in 1 .. OwnSteps(q, p)
  <2>1. DOMAIN xs = 1 .. Len(xs)
    <3> HIDE DEF xs
    <3> QED
      BY <1>3, SequenceIsSeq
  <2>2. StepsOf(q) \in Nat
    BY ShapeOfRun
  <2> QED
    BY <1>1, <1>2, <1>3, <2>1, <2>2
<1>5. upper = LayerOf(q, start, l, xs)
  BY <1>1, LayerInputsDef DEF InputsIn
<1> HIDE DEF xs, start, upper, dropped
<1>6. upper[t] =
        [parts |-> [d \in 1 .. q.directions |->
           ReadTo(start[StateIndexOf(q, l, d)], l, d, xs, IF d = 1 THEN t ELSE Len(xs) - t + 1)],
         dropped |-> dropped]
  BY <1>4, <1>5 DEF LayerOf, dropped
<1>7. ASSUME NEW d \in 1 .. q.directions
      PROVE  DirectionsTo(q, l, q.directions)[d][t][p] =
               ReadTo(start[StateIndexOf(q, l, d)], l, d, xs, IF d = 1 THEN t ELSE Len(xs) - t + 1)
  <2>1. DirectionsTo(q, l, q.directions)[d] = DirectionOf(q, l, d)
    BY DEF DirectionsTo
  <2>2. DirectionOf(q, l, d)[t][p] = ReadIn(q, l, d, p, IF d = 1 THEN t ELSE OwnSteps(q, p) - t + 1)
    BY DEF DirectionOf
  <2> QED
    BY <1>3, <2>1, <2>2 DEF ReadIn, xs, start
<1>8. DataOf(q, l + 1)[t][p] = upper[t]
  BY DEF DataOf, upper
<1>9. [d \in 1 .. q.directions |-> DirectionsTo(q, l, q.directions)[d][t][p]] =
        [d \in 1 .. q.directions |->
           ReadTo(start[StateIndexOf(q, l, d)], l, d, xs, IF d = 1 THEN t ELSE Len(xs) - t + 1)]
  BY <1>7
<1> QED
  BY <1>6, <1>8, <1>9 DEF dropped

-----------------------------------------------------------------------------
(* Layouts.                                                                *)

IsMatrix(m, a, b) == m = [i \in 1 .. a |-> [j \in 1 .. b |-> m[i][j]]]

LEMMA Transposed ==
  ASSUME NEW a \in Nat \ {0}, NEW b \in Nat \ {0}, NEW m, IsMatrix(m, a, b)
  PROVE  /\ Transpose(m) = [j \in 1 .. b |-> [i \in 1 .. a |-> m[i][j]]]
         /\ IsMatrix(Transpose(m), b, a)
         /\ Transpose(Transpose(m)) = m
<1>1. /\ DOMAIN m = 1 .. a /\ 1 \in 1 .. a /\ 1 \in 1 .. b
      /\ \A i \in 1 .. a : m[i] = [j \in 1 .. b |-> m[i][j]]
  BY DEF IsMatrix
<1>2. DOMAIN m[1] = 1 .. b
  <2>1. m[1] = [j \in 1 .. b |-> m[1][j]]
    BY <1>1
  <2> QED
    BY <2>1
<1> DEFINE n == Transpose(m)
<1>3. n = [j \in 1 .. b |-> [i \in 1 .. a |-> m[i][j]]]
  BY <1>1, <1>2 DEF Transpose
<1> HIDE DEF n
<1>4. /\ DOMAIN n = 1 .. b
      /\ \A j \in 1 .. b : n[j] = [i \in 1 .. a |-> m[i][j]]
  BY <1>3
<1>5. \A j \in 1 .. b : \A i \in 1 .. a : n[j][i] = m[i][j]
  BY <1>4
<1>6. IsMatrix(n, b, a)
  BY <1>3, <1>5 DEF IsMatrix
<1>7. DOMAIN n[1] = 1 .. a
  <2>1. n[1] = [i \in 1 .. a |-> m[i][1]]
    BY <1>1, <1>4
  <2> QED
    BY <2>1
<1>8. Transpose(n) = [i \in 1 .. a |-> [j \in 1 .. b |-> n[j][i]]]
  BY <1>4, <1>7 DEF Transpose
<1>9. [i \in 1 .. a |-> [j \in 1 .. b |-> n[j][i]]] = [i \in 1 .. a |-> [j \in 1 .. b |-> m[i][j]]]
  BY <1>5
<1>10. Transpose(n) = m
  BY <1>8, <1>9 DEF IsMatrix
<1> QED
  BY <1>3, <1>6, <1>10 DEF n

\* The data of a layer is a table of steps.
LEMMA DataIsTable ==
  ASSUME NEW q, Runs(q), NEW l
  PROVE  /\ IsTable(DataOf(q, l)) /\ Len(DataOf(q, l)) = StepsOf(q)
         /\ \A t \in 1 .. StepsOf(q) :
              Len(DataOf(q, l)[t]) = Wide(q, t) /\ DOMAIN DataOf(q, l)[t] = 1 .. Wide(q, t)
         /\ q.form # "packed" => IsMatrix(DataOf(q, l), StepsOf(q), Size(q))
<1>1. StepsOf(q) \in Nat \ {0} /\ Size(q) \in Nat \ {0}
  BY ShapeOfRun
<1>2. IsSequence(DataOf(q, l)) /\ Len(DataOf(q, l)) = StepsOf(q)
  BY <1>1 DEF DataOf, IsSequence
<1>3. ASSUME NEW t \in 1 .. StepsOf(q)
      PROVE  /\ IsSequence(DataOf(q, l)[t]) /\ Len(DataOf(q, l)[t]) = Wide(q, t)
             /\ DOMAIN DataOf(q, l)[t] = 1 .. Wide(q, t)
  <2>1. DataOf(q, l)[t] = [p \in 1 .. Wide(q, t) |-> InputsIn(q, p, l)[t]]
    BY DEF DataOf
  <2>2. Wide(q, t) \in 1 .. Size(q)
    BY ShapeOfRun
  <2>3. Wide(q, t) \in Nat
    BY <1>1, <2>2
  <2> QED
    BY <2>1, <2>3 DEF IsSequence
<1>4. IsTable(DataOf(q, l))
  BY <1>2, <1>3 DEF IsTable
<1>5. ASSUME q.form # "packed"
      PROVE  IsMatrix(DataOf(q, l), StepsOf(q), Size(q))
  <2>1. \A t \in 1 .. StepsOf(q) : Wide(q, t) = Size(q)
    BY <1>5, ShapeOfDense
  <2>2. DataOf(q, l) = [t \in 1 .. StepsOf(q) |-> [p \in 1 .. Size(q) |-> InputsIn(q, p, l)[t]]]
    BY <2>1 DEF DataOf
  <2>3. \A t \in 1 .. StepsOf(q) : \A p \in 1 .. Size(q) : DataOf(q, l)[t][p] = InputsIn(q, p, l)[t]
    BY <2>2
  <2> QED
    BY <2>2, <2>3 DEF IsMatrix
<1> QED
  BY <1>2, <1>3, <1>4, <1>5

\* A sequence's inputs, row by row.
LEMMA FirstData ==
  ASSUME NEW q, Runs(q)
  PROVE  DataOf(q, 1) =
           [t \in 1 .. StepsOf(q) |-> [p \in 1 .. Wide(q, t) |-> X(SequenceIn(q, p), t)]]
<1>1. ASSUME NEW t \in 1 .. StepsOf(q), NEW p \in 1 .. Wide(q, t)
      PROVE  InputsIn(q, p, 1)[t] = X(SequenceIn(q, p), t)
  <2>1. p \in RowsOf(q) /\ OwnSteps(q, p) >= t /\ q.layers \in Nat
    BY StepRows DEF Runs, IsNet
  <2>2. OwnSteps(q, p) \in Nat /\ t \in 1 .. OwnSteps(q, p)
    <3>1. OwnSteps(q, p) \in 1 .. StepsOf(q) /\ StepsOf(q) \in Nat
      BY <2>1, ShapeOfRun
    <3> QED
      BY <2>1, <3>1
  <2>3. InputsIn(q, p, 1) = FedIn(q, p)
    BY <2>1, LayerInputsDef DEF InputsIn
  <2>4. FedIn(q, p)[t] = X(SequenceIn(q, p), t)
    BY <2>2 DEF FedIn, X
  <2> QED
    BY <2>3, <2>4
<1> QED
  BY <1>1 DEF DataOf

-----------------------------------------------------------------------------
(* What is prepared.                                                       *)

\* The model's operators of the call in progress.
LEMMA OfTheCall ==
  ASSUME NEW q, request = q
  PROVE  /\ Batch = Size(q) /\ StateCount = q.layers * q.directions
         /\ \A p : SortedAt(p) = SequenceIn(q, p)
         /\ BatchSizes = [t \in 1 .. StepsOf(q) |-> Wide(q, t)]
  BY DEF r, Batch, Size, StateCount, SortedAt, SequenceIn, BatchSizes, StepsOf, OwnSteps, Wide, RowsOf

LEMMA PackedSplits ==
  ASSUME NEW q, request = q, Runs(q), NEW l
  PROVE  Split(FlattenSeq(DataOf(q, l)), BatchSizes) = DataOf(q, l)
<1> DEFINE m == DataOf(q, l)
           sizes == BatchSizes
<1>1. StepsOf(q) \in Nat \ {0}
  BY ShapeOfRun
<1>2. IsTable(m) /\ Len(m) = StepsOf(q) /\ \A t \in 1 .. StepsOf(q) : Len(m[t]) = Wide(q, t)
  BY DataIsTable
<1>3. sizes = [t \in 1 .. StepsOf(q) |-> Wide(q, t)]
  BY OfTheCall
<1> HIDE DEF m, sizes
<1>4. IsSequence(sizes) /\ Len(sizes) = Len(m)
  BY <1>1, <1>2, <1>3 DEF IsSequence
<1>5. \A t \in 1 .. Len(m) : sizes[t] = Len(m[t])
  BY <1>2, <1>3
<1>6. Len(m) > 0
  BY <1>1, <1>2
<1>7. Split(FlattenSeq(m), sizes) = m
  BY <1>2, <1>4, <1>5, <1>6, SplitOfFlat
<1> QED
  BY <1>7 DEF m, sizes

LEMMA InputPrepared ==
  ASSUME NEW q, request = q, Runs(q)
  PROVE  PreparedInput = DataOf(q, 1)
<1> DEFINE T == StepsOf(q)
           m == DataOf(q, 1)
<1>1. T \in Nat \ {0} /\ Size(q) \in Nat \ {0} /\ q.form \in {"packed", "dense", "unbatched"}
  BY ShapeOfRun DEF Runs, IsForm
<1>2. m = [t \in 1 .. T |-> [p \in 1 .. Wide(q, t) |-> X(SequenceIn(q, p), t)]]
  BY FirstData
<1>3. CASE q.form = "packed"
  <2>1. Packed = FlattenSeq(m)
    <3>1. /\ BatchSizes = [t \in 1 .. T |-> Wide(q, t)]
          /\ \A p : SortedAt(p) = SequenceIn(q, p)
      BY OfTheCall
    <3>2. [t \in DOMAIN BatchSizes |-> [p \in 1 .. BatchSizes[t] |-> X(SortedAt(p), t)]] = m
      <4> HIDE DEF m, T
      <4>1. DOMAIN BatchSizes = 1 .. T
        BY <3>1
      <4>2. \A t \in 1 .. T : BatchSizes[t] = Wide(q, t)
        BY <3>1
      <4> QED
        BY <1>2, <3>1, <4>1, <4>2
    <3> QED
      BY <3>2 DEF Packed
  <2>2. PreparedInput = Split(Packed, BatchSizes)
    BY <1>3 DEF PreparedInput, r
  <2> QED
    BY <2>1, <2>2, PackedSplits
<1>4. CASE q.form # "packed"
  <2>1. /\ \A p \in RowsOf(q) : SequenceIn(q, p) = p
        /\ \A t \in 1 .. T : Wide(q, t) = Size(q)
        /\ T = q.lengths[1]
    BY <1>4, ShapeOfDense
  <2>2. m = [t \in 1 .. T |-> [p \in 1 .. Size(q) |-> X(p, t)]]
    BY <1>2, <2>1 DEF RowsOf
  <2>3. IsMatrix(m, T, Size(q))
    BY <1>4, DataIsTable
  <2> HIDE DEF m
  <2>4. Transpose(Transpose(m)) = m /\ IsMatrix(Transpose(m), Size(q), T)
        /\ Transpose(m) = [j \in 1 .. Size(q) |-> [i \in 1 .. T |-> m[i][j]]]
    <3> HIDE DEF T
    <3> QED
      BY <1>1, <2>3, Transposed
  <2>5. CASE q.form = "dense"
    <3>1. [t \in 1 .. r.lengths[1] |-> [s \in 1 .. Batch |-> X(s, t)]] = m
      BY <2>1, <2>2, OfTheCall DEF r
    <3>2. Dense = IF q.batchFirst THEN Transpose(m) ELSE m
      BY <3>1 DEF Dense, r
    <3>3. PreparedInput = IF q.batchFirst THEN Transpose(Dense) ELSE Dense
      BY <2>5 DEF PreparedInput, r
    <3>4. PreparedInput = m
      BY <2>4, <3>2, <3>3
    <3> QED
      BY <3>4 DEF m
  <2>6. CASE q.form = "unbatched"
    <3>1. Size(q) = 1
      BY <2>6 DEF Runs, IsForm
    <3>2. Unbatched = [t \in 1 .. T |-> X(1, t)]
      BY <2>1 DEF Unbatched, r
    <3>3. m = [t \in 1 .. T |-> <<Unbatched[t]>>]
      <4>1. \A t \in 1 .. T : [p \in 1 .. 1 |-> X(p, t)] = <<X(1, t)>>
        OBVIOUS
      <4>2. \A t \in 1 .. T : Unbatched[t] = X(1, t)
        BY <3>2
      <4> QED
        BY <2>2, <3>1, <4>1, <4>2
    <3>4. DOMAIN Unbatched = 1 .. T
      BY <3>2
    <3>5. Transpose(<<Unbatched>>) = m
      <4>1. DOMAIN <<Unbatched>> = 1 .. 1 /\ <<Unbatched>>[1] = Unbatched
        OBVIOUS
      <4>2. Transpose(<<Unbatched>>) = [j \in 1 .. T |-> [i \in 1 .. 1 |-> <<Unbatched>>[i][j]]]
        BY <3>4, <4>1 DEF Transpose
      <4>3. \A j \in 1 .. T : [i \in 1 .. 1 |-> <<Unbatched>>[i][j]] = <<Unbatched[j]>>
        BY <4>1
      <4> QED
        BY <3>3, <4>2, <4>3
    <3>6. PreparedInput = IF q.batchFirst THEN Transpose(<<Unbatched>>)
                          ELSE [t \in DOMAIN Unbatched |-> <<Unbatched[t]>>]
      BY <2>6 DEF PreparedInput, r
    <3>7. PreparedInput = m
      BY <3>3, <3>4, <3>5, <3>6
    <3> QED
      BY <3>7 DEF m
  <2> QED
    BY <1>1, <1>4, <2>5, <2>6 DEF m
<1> QED
  BY <1>3, <1>4

\* The states, put in the order of the rows.
LEMMA StatePrepared ==
  ASSUME NoneIsNoSequence, NEW q, request = q, Runs(q), NEW part
  PROVE  PreparedState(part) = StateOf(q, part)
<1> DEFINE n == q.layers * q.directions
           passed == [i \in 1 .. n |-> [s \in 1 .. Size(q) |-> Given(part, s, i)]]
<1>1. PreparedState(part) = IF q.form = "packed" THEN Permuted(passed, q.sorted) ELSE passed
  <2>1. Batch = Size(q) /\ StateCount = n
    BY OfTheCall
  <2>2. [i \in 1 .. StateCount |-> [s \in 1 .. Batch |-> Given(part, s, i)]] = passed
    BY <2>1
  <2> HIDE DEF passed
  <2> QED
    BY <2>2 DEF PreparedState, r
<1>2. n \in Nat /\ \A p \in RowsOf(q) : SequenceIn(q, p) \in RowsOf(q)
  BY DEF Runs, IsNet, IsBatch
<1>3. \A s, i : Given(part, s, i) = Row(part, IF q.given THEN <<i, s>> ELSE Zero)
  BY DEF Given, r
<1>4. StateOf(q, part) =
        [i \in 1 .. n |-> [p \in RowsOf(q) |-> Given(part, SequenceIn(q, p), i)]]
  BY <1>3 DEF StateOf
<1>5. CASE q.sorted = None
  <2>1. \A p \in RowsOf(q) : SequenceIn(q, p) = p
    BY <1>5 DEF SequenceIn, OrderOf, RowsOf, Runs, IsBatch
  <2>2. PreparedState(part) = passed
    BY <1>1, <1>5 DEF Permuted
  <2> QED
    BY <1>4, <2>1, <2>2 DEF RowsOf
<1>6. CASE q.sorted # None
  <2>1. q.form = "packed" /\ DOMAIN q.sorted = RowsOf(q) /\ \A p : SequenceIn(q, p) = q.sorted[p]
    BY <1>6 DEF Runs, IsForm, SequenceIn, OrderOf
  <2>2. passed # None /\ DOMAIN passed = 1 .. n
    BY <1>2 DEF NoneIsNoSequence
  <2>3. \A i \in 1 .. n : \A s \in RowsOf(q) : passed[i][s] = Given(part, s, i)
    BY DEF RowsOf
  <2> HIDE DEF passed, n
  <2>4. PreparedState(part) = [i \in 1 .. n |-> [p \in RowsOf(q) |-> passed[i][q.sorted[p]]]]
    BY <1>1, <1>6, <2>1, <2>2 DEF Permuted
  <2>5. \A i \in 1 .. n : \A p \in RowsOf(q) : passed[i][q.sorted[p]] = Given(part, SequenceIn(q, p), i)
    BY <1>2, <2>1, <2>3
  <2> QED
    BY <1>4, <2>4, <2>5
<1> QED
  BY <1>5, <1>6

-----------------------------------------------------------------------------
(* The invariant: where the call is, and what the reference gives there.   *)

Looping == phase \in {"layer", "steps", "finish"}

\* How many directions of all the layers are done.
DoneOf(q) ==
  IF phase = "finish" THEN layer * q.directions ELSE (layer - 1) * q.directions + (direction - 1)

PlaceInv ==
  /\ phase \in {"idle", "called", "layer", "steps", "finish", "returned"}
  /\ phase = "idle" <=> request = None
  /\ phase # "idle" => request \in Calls
  /\ ~Looping => /\ layer = 0 /\ direction = 0
                 /\ directionOutputs = <<>> /\ finalHidden = <<>>
  /\ Looping =>
       /\ Runs(request)
       /\ layer \in 1 .. request.layers
       /\ direction \in 1 .. request.directions + 1
       /\ phase = "steps" => direction <= request.directions
       /\ phase = "finish" => layer = request.layers /\ direction = 1

DataInv ==
  Looping =>
    /\ state = [h |-> StateOf(request, "h"),
                c |-> IF request.lstm THEN StateOf(request, "c") ELSE None]
    /\ data = DataOf(request, IF phase = "finish" THEN layer + 1 ELSE layer)
    /\ directionOutputs = DirectionsTo(request, layer, direction - 1)
    /\ finalHidden = FinalsTo(request, DoneOf(request))
    /\ finalCell = FinalCellsTo(request, DoneOf(request))

RowsInv ==
  phase = "steps" =>
    /\ at \in 0 .. StepsOf(request)
    /\ hidden = HiddenAt(request, layer, direction, at)
    /\ cell = CellsOf(request, hidden)
    /\ outputs = OutputsTo(request, layer, direction, at)

\* The row a sequence is in, and the results in the caller's order and layout.
RowOfSequence(q, s) == CHOOSE p \in RowsOf(q) : SequenceIn(q, p) = s
FinalsBack(q) ==
  [i \in 1 .. q.layers * q.directions |->
     [s \in RowsOf(q) |-> FinalIn(q, RowOfSequence(q, s))[i]]]
FinalCellsBack(q) ==
  [i \in 1 .. q.layers * q.directions |->
     [s \in RowsOf(q) |-> CellOf(FinalIn(q, RowOfSequence(q, s))[i])]]
WithoutBatch(q, rows) ==
  IF q.form = "unbatched" THEN [i \in DOMAIN rows |-> rows[i][1]] ELSE rows
LaidOut(q, m) ==
  CASE q.form = "packed" -> FlattenSeq(m)
    [] q.form = "unbatched" -> [t \in DOMAIN m |-> m[t][1]]
    [] q.form = "dense" -> IF q.batchFirst THEN Transpose(m) ELSE m

ResultInv ==
  Returned =>
    /\ Runs(request)
    /\ result.output = LaidOut(request, DataOf(request, request.layers + 1))
    /\ result.h = WithoutBatch(request, FinalsBack(request))
    /\ result.c = IF request.lstm THEN WithoutBatch(request, FinalCellsBack(request)) ELSE None

SequenceInv == PlaceInv /\ DataInv /\ RowsInv /\ ResultInv

LEMMA SequenceInvInit == SequenceInit => SequenceInv
<1> SUFFICES ASSUME SequenceInit PROVE SequenceInv
  OBVIOUS
<1>1. phase = "idle" /\ ~Looping /\ ~Returned
  BY DEF SequenceInit, Looping, Returned
<1> QED
  BY <1>1 DEF SequenceInit, SequenceInv, PlaceInv, DataInv, RowsInv, ResultInv

\* A step outside of a run.
LEMMA OutsideKeeps ==
  ASSUME SequenceInv, ~Looping', ~(Returned'),
         phase' \in {"idle", "called", "returned"},
         phase' = "idle" <=> request' = None, phase' # "idle" => request' \in Calls,
         layer' = 0, direction' = 0, directionOutputs' = <<>>, finalHidden' = <<>>
  PROVE  SequenceInv'
<1>1. phase' # "steps"
  OBVIOUS
<1> QED
  BY <1>1 DEF SequenceInv, PlaceInv, DataInv, RowsInv, ResultInv

LEMMA NoneIsNoCall == None \notin Calls
  BY SequenceRecurrentAssumption

LEMMA BeginKeeps ==
  ASSUME SequenceInv, Begin
  PROVE  SequenceInv'
<1>1. /\ phase' = "called" /\ request' \in Calls
      /\ layer' = layer /\ direction' = direction
      /\ directionOutputs' = directionOutputs /\ finalHidden' = finalHidden
      /\ phase = "idle"
  BY DEF Begin
<1>2. ~Looping /\ ~Looping' /\ ~(Returned')
  BY <1>1 DEF Looping, Returned
<1>3. layer = 0 /\ direction = 0 /\ directionOutputs = <<>> /\ finalHidden = <<>>
  BY <1>2 DEF SequenceInv, PlaceInv
<1>4. request' # None
  BY <1>1, NoneIsNoCall
<1> QED
  BY <1>1, <1>2, <1>3, <1>4, OutsideKeeps

LEMMA TurnedAwayKeeps ==
  ASSUME SequenceInv, Delegate \/ Reject
  PROVE  SequenceInv'
<1>1. /\ phase = "called" /\ phase' = "returned" /\ request' = request
      /\ layer' = 0 /\ direction' = 0 /\ directionOutputs' = <<>> /\ finalHidden' = <<>>
      /\ result' \in {[by |-> "torch"], [by |-> "raised"]}
  BY DEF Delegate, Reject, Answer
<1>2. ~Looping' /\ ~(Returned')
  BY <1>1 DEF Looping, Returned
<1>3. request \in Calls /\ request' # None
  BY <1>1, NoneIsNoCall DEF SequenceInv, PlaceInv
<1> QED
  BY <1>1, <1>2, <1>3, OutsideKeeps

LEMMA TakenKeeps ==
  ASSUME SequenceInv, CallerTakesResult
  PROVE  SequenceInv'
<1>1. /\ phase = "returned" /\ phase' = "idle" /\ request' = None
      /\ layer' = layer /\ direction' = direction
      /\ directionOutputs' = directionOutputs /\ finalHidden' = finalHidden
  BY DEF CallerTakesResult
<1>2. ~Looping /\ ~Looping' /\ ~(Returned')
  BY <1>1 DEF Looping, Returned
<1>3. layer = 0 /\ direction = 0 /\ directionOutputs = <<>> /\ finalHidden = <<>>
  BY <1>2 DEF SequenceInv, PlaceInv
<1> QED
  BY <1>1, <1>2, <1>3, OutsideKeeps

\* Nothing is done before the first direction.
LEMMA NothingDone ==
  ASSUME NEW q, NEW l
  PROVE  /\ DirectionsTo(q, l, 0) = <<>> /\ FinalsTo(q, 0) = <<>>
         /\ FinalCellsTo(q, 0) = IF q.lstm THEN <<>> ELSE None
<1>1. \A s : IsSequence(s) /\ Len(s) = 0 => s = <<>>
  BY EmptyIsEmpty
<1>2. IsSequence(DirectionsTo(q, l, 0)) /\ Len(DirectionsTo(q, l, 0)) = 0
  BY DEF DirectionsTo, IsSequence
<1>3. IsSequence(FinalsTo(q, 0)) /\ Len(FinalsTo(q, 0)) = 0
  BY DEF FinalsTo, IsSequence
<1>4. q.lstm => IsSequence(FinalCellsTo(q, 0)) /\ Len(FinalCellsTo(q, 0)) = 0
  BY DEF FinalCellsTo, IsSequence
<1>5. ~q.lstm => FinalCellsTo(q, 0) = None
  BY DEF FinalCellsTo
<1> QED
  BY <1>1, <1>2, <1>3, <1>4, <1>5

LEMMA PrepareKeeps ==
  ASSUME SequenceInv, NoneIsNoSequence, Prepare
  PROVE  SequenceInv'
<1>1. PICK q : request = q
  OBVIOUS
<1>2. /\ phase = "called" /\ phase' = "layer" /\ data' = PreparedInput
      /\ layer' = 1 /\ direction' = 1 /\ request' = q
      /\ state' = [h |-> PreparedState("h"), c |-> IF q.lstm THEN PreparedState("c") ELSE None]
      /\ finalCell' = IF q.lstm THEN <<>> ELSE None
      /\ directionOutputs' = directionOutputs /\ finalHidden' = finalHidden
      /\ ~Rejected
  BY <1>1 DEF Prepare, r
<1>3. /\ q \in Calls /\ directionOutputs = <<>> /\ finalHidden = <<>>
  BY <1>1, <1>2 DEF SequenceInv, PlaceInv, Looping
<1>4. IsNet(q) /\ IsBatch(q) /\ IsForm(q) /\ q # None
  BY <1>3, CallIsWellFormed
<1>5. Runs(q)
  <2>1. 1 \in RowsOf(q) /\ SequenceIn(q, 1) \in RowsOf(q) /\ q.lengths[SequenceIn(q, 1)] \in Nat
    BY <1>4 DEF IsBatch, RowsOf
  <2>2. q.lengths[SequenceIn(q, 1)] > 0
    <3>1. CASE q.form = "packed"
      BY <1>4, <2>1, <3>1 DEF IsForm
    <3>2. CASE q.form # "packed"
      <4>1. q.lengths[SequenceIn(q, 1)] = q.lengths[1]
        BY <1>4, <2>1, <3>2 DEF IsForm
      <4>2. q.lengths[1] # 0
        BY <1>1, <1>2, <3>2 DEF Rejected, r
      <4> QED
        BY <2>1, <4>1, <4>2
    <3> QED
      BY <3>1, <3>2
  <2> QED
    BY <1>4, <2>2 DEF Runs, StepsOf, OwnSteps
<1>6. /\ data' = DataOf(q, 1)
      /\ state' = [h |-> StateOf(q, "h"), c |-> IF q.lstm THEN StateOf(q, "c") ELSE None]
  <2>1. PreparedInput = DataOf(q, 1)
    BY <1>1, <1>5, InputPrepared
  <2>2. PreparedState("h") = StateOf(q, "h")
    BY <1>1, <1>5, StatePrepared
  <2>3. PreparedState("c") = StateOf(q, "c")
    BY <1>1, <1>5, StatePrepared
  <2> QED
    BY <1>2, <2>1, <2>2, <2>3
<1>7. 1 \in 1 .. q.layers /\ 1 \in 1 .. q.directions + 1
  BY <1>4 DEF IsNet
<1>8. PlaceInv'
  BY <1>2, <1>3, <1>4, <1>5, <1>7 DEF PlaceInv, Looping
<1>9. DataInv'
  <2>1. DoneOf(q)' = 0
    BY <1>2, <1>4 DEF DoneOf, IsNet
  <2>2. directionOutputs' = DirectionsTo(q, 1, 1 - 1) /\ finalHidden' = FinalsTo(q, 0)
        /\ finalCell' = FinalCellsTo(q, 0)
    BY <1>2, <1>3, NothingDone
  <2> QED
    BY <1>2, <1>6, <2>1, <2>2 DEF DataInv
<1> QED
  BY <1>2, <1>8, <1>9 DEF SequenceInv, RowsInv, ResultInv, Returned

-----------------------------------------------------------------------------
(* The loops.                                                              *)

\* What the invariant says in the middle of a call.
LEMMA InACall ==
  ASSUME SequenceInv, phase \in {"layer", "steps"}, NEW q, request = q
  PROVE  /\ q \in Calls /\ Runs(q) /\ q.lstm \in BOOLEAN /\ q # None
         /\ layer \in 1 .. q.layers /\ direction \in 1 .. q.directions + 1
         /\ (phase = "steps" => IsIn(q, layer, direction))
         /\ state = [h |-> StateOf(q, "h"), c |-> IF q.lstm THEN StateOf(q, "c") ELSE None]
         /\ data = DataOf(q, layer)
         /\ directionOutputs = DirectionsTo(q, layer, direction - 1)
         /\ finalHidden = FinalsTo(q, (layer - 1) * q.directions + (direction - 1))
         /\ finalCell = FinalCellsTo(q, (layer - 1) * q.directions + (direction - 1))
         /\ Len(data) = StepsOf(q)
<1>1. Looping /\ phase # "finish" /\ phase # "idle"
  BY DEF Looping
<1>2. /\ q \in Calls /\ Runs(q)
      /\ layer \in 1 .. q.layers /\ direction \in 1 .. q.directions + 1
      /\ phase = "steps" => direction <= q.directions
  BY <1>1 DEF SequenceInv, PlaceInv
<1>3. q.lstm \in BOOLEAN /\ q # None /\ IsNet(q)
  BY <1>2, CallIsWellFormed
<1>4. phase = "steps" => IsIn(q, layer, direction)
  BY <1>2, <1>3 DEF IsIn, IsNet
<1>5. DoneOf(q) = (layer - 1) * q.directions + (direction - 1)
  BY <1>1 DEF DoneOf
<1>6. /\ state = [h |-> StateOf(q, "h"), c |-> IF q.lstm THEN StateOf(q, "c") ELSE None]
      /\ data = DataOf(q, layer)
      /\ directionOutputs = DirectionsTo(q, layer, direction - 1)
      /\ finalHidden = FinalsTo(q, DoneOf(q))
      /\ finalCell = FinalCellsTo(q, DoneOf(q))
  BY <1>1 DEF SequenceInv, DataInv
<1>7. Len(data) = StepsOf(q)
  BY <1>2, <1>6, DataIsTable
<1> QED
  BY <1>2, <1>3, <1>4, <1>5, <1>6, <1>7

\* The initial rows of the running direction, and their cells.
LEMMA InitialsAre ==
  ASSUME NoneIsNoSequence, NEW q, request = q, Runs(q), q.lstm \in BOOLEAN,
         IsIn(q, layer, direction),
         state = [h |-> StateOf(q, "h"), c |-> IF q.lstm THEN StateOf(q, "c") ELSE None]
  PROVE  /\ InitialHidden = StateOf(q, "h")[StateIndexOf(q, layer, direction)]
         /\ IsSequence(InitialHidden) /\ Len(InitialHidden) = Size(q)
         /\ InitialCell = CellsOf(q, InitialHidden)
         /\ \A p \in RowsOf(q) :
              InitialHidden[p] = StartsIn(q, p)[StateIndexOf(q, layer, direction)]
<1> DEFINE i == StateIndexOf(q, layer, direction)
<1>1. /\ i \in 1 .. q.layers * q.directions /\ Size(q) \in Nat \ {0}
      /\ q.layers * q.directions \in Nat
  <2>1. Size(q) \in Nat \ {0}
    BY ShapeOfRun
  <2>2. i \in 1 .. q.layers * q.directions
    BY IndexRange DEF IsIn, Runs
  <2>3. q.layers * q.directions \in Nat
    BY DEF Runs, IsNet
  <2> QED
    BY <2>1, <2>2, <2>3
<1>2. InitialHidden = StateOf(q, "h")[i]
  BY DEF InitialHidden, StateIndex, r
<1> HIDE DEF i
<1>3. /\ IsSequence(InitialHidden) /\ Len(InitialHidden) = Size(q)
      /\ \A p \in RowsOf(q) : InitialHidden[p] = StartsIn(q, p)[i]
      /\ StateOf(q, "c")[i] = [p \in RowsOf(q) |-> CellOf(InitialHidden[p])]
  BY <1>1, <1>2, InitialRows
<1>4. InitialCell = CellsOf(q, InitialHidden)
  <2>1. CASE q.lstm
    <3>1. StateOf(q, "c") # None
      <4>1. DOMAIN StateOf(q, "c") = 1 .. q.layers * q.directions
        BY DEF StateOf
      <4> QED
        BY <1>1, <4>1 DEF NoneIsNoSequence
    <3>2. InitialCell = StateOf(q, "c")[i]
      BY <2>1, <3>1 DEF InitialCell, StateIndex, r, i
    <3>3. DOMAIN InitialHidden = RowsOf(q)
      BY <1>3, SequenceIsSeq DEF RowsOf
    <3> QED
      BY <1>3, <2>1, <3>2, <3>3 DEF CellsOf
  <2>2. CASE ~q.lstm
    BY <2>2 DEF InitialCell, CellsOf
  <2> QED
    BY <2>1, <2>2
<1> QED
  BY <1>2, <1>3, <1>4 DEF i

LEMMA BeginDirectionKeeps ==
  ASSUME SequenceInv, NoneIsNoSequence, BeginDirection
  PROVE  SequenceInv'
<1>1. PICK q : request = q
  OBVIOUS
<1>2. /\ phase = "layer" /\ Len(directionOutputs) < q.directions
      /\ phase' = "steps" /\ at' = 0 /\ outputs' = <<>>
      /\ hidden' = Take(InitialHidden, RowsAtStart)
      /\ cell' = Take(InitialCell, RowsAtStart)
      /\ request' = q /\ data' = data /\ layer' = layer /\ direction' = direction
      /\ state' = state /\ directionOutputs' = directionOutputs
      /\ finalHidden' = finalHidden /\ finalCell' = finalCell
  BY <1>1 DEF BeginDirection, r
<1>3. /\ q \in Calls /\ Runs(q) /\ q.lstm \in BOOLEAN /\ q # None
      /\ layer \in 1 .. q.layers /\ direction \in 1 .. q.directions + 1
      /\ state = [h |-> StateOf(q, "h"), c |-> IF q.lstm THEN StateOf(q, "c") ELSE None]
      /\ data = DataOf(q, layer)
      /\ directionOutputs = DirectionsTo(q, layer, direction - 1)
      /\ finalHidden = FinalsTo(q, (layer - 1) * q.directions + (direction - 1))
      /\ finalCell = FinalCellsTo(q, (layer - 1) * q.directions + (direction - 1))
  BY <1>1, <1>2, InACall
<1>4. direction <= q.directions /\ IsIn(q, layer, direction) /\ direction \in {1, 2}
  <2>1. q.directions \in {1, 2}
    BY <1>3 DEF Runs, IsNet
  <2>2. Len(directionOutputs) = direction - 1
    <3>1. direction - 1 \in Nat
      BY <1>3, <2>1
    <3> QED
      BY <1>3, <3>1 DEF DirectionsTo
  <2> QED
    BY <1>2, <1>3, <2>1, <2>2 DEF IsIn
<1>5. /\ StepsOf(q) \in Nat \ {0} /\ Size(q) \in Nat \ {0} /\ 0 \in 0 .. StepsOf(q)
  <2>1. StepsOf(q) \in Nat \ {0} /\ Size(q) \in Nat \ {0}
    BY <1>3, ShapeOfRun
  <2> QED
    BY <2>1
<1>6. /\ IsSequence(InitialHidden) /\ Len(InitialHidden) = Size(q)
      /\ InitialCell = CellsOf(q, InitialHidden)
      /\ \A p \in RowsOf(q) :
           InitialHidden[p] = StartsIn(q, p)[StateIndexOf(q, layer, direction)]
  BY <1>1, <1>3, <1>4, InitialsAre
<1> DEFINE n == RowsAt(q, direction, 0)
           start == InitialHidden
           some == Take(start, n)
           rows == HiddenAt(q, layer, direction, 0)
<1>7. RowsAtStart = n /\ n \in 0 .. Size(q)
  BY <1>1, <1>4, <1>5, OfTheCall DEF RowsAtStart, RowsAt, r
<1>8. /\ IsSequence(rows) /\ Len(rows) = n
      /\ \A p \in 1 .. n : rows[p] = ReadIn(q, layer, direction, p, ReadsAt(q, direction, p, 0))
  <2>1. Runs(q)
    BY <1>3
  <2>2. direction \in {1, 2}
    BY <1>4
  <2>3. 0 \in 0 .. StepsOf(q)
    BY <1>5
  <2>4. ASSUME NEW k \in 0 .. StepsOf(q)
        PROVE  /\ IsSequence(HiddenAt(q, layer, direction, k))
               /\ Len(HiddenAt(q, layer, direction, k)) = RowsAt(q, direction, k)
               /\ \A p \in 1 .. RowsAt(q, direction, k) :
                    HiddenAt(q, layer, direction, k)[p] =
                      ReadIn(q, layer, direction, p, ReadsAt(q, direction, p, k))
    BY <2>1, <2>2, HiddenTable
  <2> QED
    BY <2>3, <2>4
<1>9. ASSUME NEW p \in 1 .. n
      PROVE  ReadIn(q, layer, direction, p, ReadsAt(q, direction, p, 0)) = start[p]
  <2>1. p \in RowsOf(q)
    BY <1>5, <1>7 DEF RowsOf
  <2>2. ReadsAt(q, direction, p, 0) = 0
    <3>1. OwnSteps(q, p) \in 1 .. StepsOf(q)
      BY <1>3, <2>1, ShapeOfRun
    <3>2. CASE direction = 1
      BY <1>5, <3>1, <3>2 DEF ReadsAt
    <3>3. CASE direction = 2
      <4>1. q.form # "packed"
        BY <3>3 DEF RowsAt
      <4>2. OwnSteps(q, p) = StepsOf(q)
        BY <1>3, <2>1, <4>1, ShapeOfDense
      <4> QED
        BY <1>5, <3>3, <4>2 DEF ReadsAt
    <3> QED
      BY <1>4, <3>2, <3>3
  <2>3. ReadIn(q, layer, direction, p, 0) = StartsIn(q, p)[StateIndexOf(q, layer, direction)]
    <3> DEFINE row == StartsIn(q, p)[StateIndexOf(q, layer, direction)]
               xs == InputsIn(q, p, layer)
    <3>1. IsRow(row) /\ layer \in 1 .. q.layers + 1
      BY <1>3, <1>4, <2>1, StartInRow
    <3>2. IsSequence(xs)
      BY <1>3, <2>1, <3>1, RowFacts
    <3> HIDE DEF row, xs
    <3>3. ReadTo(row, layer, direction, xs, 0) = row
      BY <3>1, <3>2, ReadToNone
    <3> QED
      BY <3>3 DEF ReadIn, row, xs
  <2> QED
    BY <1>6, <2>1, <2>2, <2>3
<1> HIDE DEF n, start, rows
<1>10. n \in 0 .. Len(start)
  BY <1>6, <1>7 DEF start
<1>11. IsSequence(start)
  BY <1>6 DEF start
<1>12. IsSequence(some) /\ Len(some) = n /\ \A p \in 1 .. n : some[p] = start[p]
  BY <1>10, <1>11, TakeRows
<1> HIDE DEF some
<1>13. some = rows
  <2>1. \A p \in 1 .. Len(some) : some[p] = rows[p]
    BY <1>8, <1>9, <1>12
  <2> QED
    BY <1>8, <1>12, <2>1, SameSequence
<1>14. hidden' = rows
  BY <1>2, <1>7, <1>13 DEF some, start
<1>15. cell' = CellsOf(q, rows)
  <2>1. Take(CellsOf(q, start), n) = CellsOf(q, Take(start, n))
    BY <1>3, <1>10, <1>11, CellsTaken
  <2> QED
    BY <1>2, <1>6, <1>7, <1>13, <2>1 DEF some, start
<1>16. outputs' = OutputsTo(q, layer, direction, 0)
  <2>1. IsSequence(OutputsTo(q, layer, direction, 0)) /\ Len(OutputsTo(q, layer, direction, 0)) = 0
    BY DEF OutputsTo, IsSequence
  <2> QED
    BY <1>2, <2>1, EmptyIsEmpty
<1>17. RowsInv'
  BY <1>2, <1>5, <1>14, <1>15, <1>16 DEF RowsInv, rows
<1>18. PlaceInv'
  BY <1>2, <1>3, <1>4 DEF PlaceInv, Looping
<1>19. DataInv'
  <2>1. DoneOf(q)' = (layer - 1) * q.directions + (direction - 1)
    BY <1>2 DEF DoneOf
  <2> QED
    BY <1>2, <1>3, <2>1 DEF DataInv
<1> QED
  BY <1>2, <1>17, <1>18, <1>19 DEF SequenceInv, ResultInv, Returned

\* A sequence that is one longer than another.
LEMMA AppendReaches ==
  ASSUME NEW old, IsSequence(old), NEW longer, IsSequence(longer), Len(longer) = Len(old) + 1,
         \A j \in 1 .. Len(old) : longer[j] = old[j],
         NEW x, longer[Len(old) + 1] = x
  PROVE  Append(old, x) = longer
<1>1. /\ IsSequence(Append(old, x)) /\ Len(Append(old, x)) = Len(old) + 1
      /\ \A i \in 1 .. Len(old) : Append(old, x)[i] = old[i]
      /\ Append(old, x)[Len(old) + 1] = x
  BY AppendSequence
<1>2. ASSUME NEW j \in 1 .. Len(old) + 1
      PROVE  Append(old, x)[j] = longer[j]
  <2>1. Len(old) \in Nat
    BY DEF IsSequence
  <2>2. j \in 1 .. Len(old) \/ j = Len(old) + 1
    BY <2>1
  <2> QED
    BY <1>1, <2>2
<1> QED
  BY <1>1, <1>2, SameSequence

\* A step adds its output.
LEMMA OutputsGrow ==
  ASSUME NEW q, NEW l, NEW d, NEW k \in Nat
  PROVE  Append(OutputsTo(q, l, d, k), OutputAt(q, l, d, k + 1)) = OutputsTo(q, l, d, k + 1)
<1> DEFINE old == OutputsTo(q, l, d, k)
           longer == OutputsTo(q, l, d, k + 1)
<1>1. IsSequence(old) /\ Len(old) = k /\ \A j \in 1 .. k : old[j] = OutputAt(q, l, d, j)
  BY DEF OutputsTo, IsSequence
<1>2. IsSequence(longer) /\ Len(longer) = k + 1
      /\ \A j \in 1 .. k + 1 : longer[j] = OutputAt(q, l, d, j)
  BY DEF OutputsTo, IsSequence
<1> HIDE DEF old, longer
<1>3. Append(old, OutputAt(q, l, d, k + 1)) = longer
  BY <1>1, <1>2, AppendReaches
<1> QED
  BY <1>3 DEF old, longer

\* What the invariant says when a step of a direction is taken.
LEMMA InAStep ==
  ASSUME SequenceInv, phase = "steps", NEW q, request = q
  PROVE  /\ Runs(q) /\ q.lstm \in BOOLEAN /\ IsIn(q, layer, direction) /\ direction \in {1, 2}
         /\ data = DataOf(q, layer) /\ Steps = StepsOf(q)
         /\ at \in 0 .. StepsOf(q)
         /\ (at < Steps => at \in 0 .. StepsOf(q) - 1)
         /\ hidden = HiddenAt(q, layer, direction, at)
         /\ cell = CellsOf(q, hidden)
         /\ outputs = OutputsTo(q, layer, direction, at)
         /\ IsSequence(hidden) /\ Len(hidden) = RowsAt(q, direction, at)
<1>1. /\ Runs(q) /\ q.lstm \in BOOLEAN /\ IsIn(q, layer, direction)
      /\ data = DataOf(q, layer) /\ Len(data) = StepsOf(q)
  BY InACall
<1>2. direction \in {1, 2}
  BY <1>1 DEF IsIn, Runs, IsNet
<1>3. /\ at \in 0 .. StepsOf(q)
      /\ hidden = HiddenAt(q, layer, direction, at)
      /\ cell = CellsOf(q, hidden)
      /\ outputs = OutputsTo(q, layer, direction, at)
  BY DEF SequenceInv, RowsInv
<1>4. Steps = StepsOf(q) /\ StepsOf(q) \in Nat
  BY <1>1, ShapeOfRun DEF Steps
<1>5. at < Steps => at \in 0 .. StepsOf(q) - 1
  BY <1>3, <1>4
<1>6. IsSequence(HiddenAt(q, layer, direction, at))
      /\ Len(HiddenAt(q, layer, direction, at)) = RowsAt(q, direction, at)
  BY <1>1, <1>2, <1>3, HiddenTable
<1> QED
  BY <1>1, <1>2, <1>3, <1>4, <1>5, <1>6

\* A step that leaves its rows and puts its output out.
LEMMA StepTakenKeeps ==
  ASSUME SequenceInv, phase = "steps", at < Steps, at' = at + 1, UNCHANGED Loop,
         NEW q, request = q,
         hidden' = HiddenAt(q, layer, direction, at + 1),
         cell' = CellsOf(q, HiddenAt(q, layer, direction, at + 1)),
         outputs' = Append(outputs, OutputAt(q, layer, direction, at + 1))
  PROVE  SequenceInv'
<1>1. /\ at \in 0 .. StepsOf(q) - 1 /\ StepsOf(q) \in Nat
      /\ outputs = OutputsTo(q, layer, direction, at)
  BY InAStep, ShapeOfRun
<1>2. /\ request' = request /\ phase' = phase /\ data' = data /\ layer' = layer
      /\ direction' = direction /\ state' = state /\ directionOutputs' = directionOutputs
      /\ finalHidden' = finalHidden /\ finalCell' = finalCell
  BY DEF Loop
<1>3. at' \in 0 .. StepsOf(q)
  BY <1>1
<1>4. outputs' = OutputsTo(q, layer, direction, at')
  <2>1. at \in Nat
    BY <1>1
  <2> QED
    BY <1>1, <2>1, OutputsGrow
<1>5. RowsInv'
  BY <1>2, <1>3, <1>4 DEF RowsInv
<1>6. PlaceInv'
  BY <1>2 DEF SequenceInv, PlaceInv, Looping
<1>7. DataInv'
  BY <1>2 DEF SequenceInv, DataInv, Looping, DoneOf
<1> QED
  BY <1>2, <1>5, <1>6, <1>7 DEF SequenceInv, ResultInv, Returned

LEMMA DenseStepKeeps ==
  ASSUME SequenceInv, NoneIsNoSequence, DenseStep
  PROVE  SequenceInv'
<1>1. PICK q : request = q
  OBVIOUS
<1>2. /\ phase = "steps" /\ q.form # "packed" /\ at < Steps /\ at' = at + 1 /\ UNCHANGED Loop
      /\ hidden' = NextHidden(data[IF direction = 1 THEN at + 1 ELSE Steps - at], hidden, cell)
      /\ cell' = NextCell(data[IF direction = 1 THEN at + 1 ELSE Steps - at], hidden, cell)
      /\ outputs' = Append(outputs, hidden')
  BY <1>1 DEF DenseStep, r
<1>3. /\ Runs(q) /\ q.lstm \in BOOLEAN /\ IsIn(q, layer, direction) /\ direction \in {1, 2}
      /\ data = DataOf(q, layer) /\ Steps = StepsOf(q)
      /\ at \in 0 .. StepsOf(q) - 1 /\ at \in Nat /\ StepsOf(q) \in Nat
      /\ hidden = HiddenAt(q, layer, direction, at)
      /\ cell = CellsOf(q, hidden)
  BY <1>1, <1>2, InAStep, ShapeOfRun
<1>4. (IF direction = 1 THEN at + 1 ELSE Steps - at) = StepAt(q, direction, at + 1)
  BY <1>3 DEF StepAt
<1>5. /\ HiddenAt(q, layer, direction, at) = ActiveAt(q, layer, direction, at)
      /\ HiddenAt(q, layer, direction, at + 1) = OutputAt(q, layer, direction, at + 1)
  BY <1>2, <1>3, DenseHidden
<1> DEFINE xs == DataOf(q, layer)[StepAt(q, direction, at + 1)]
           hs == ActiveAt(q, layer, direction, at)
           next == OutputAt(q, layer, direction, at + 1)
<1>6. NextHidden(xs, hs, CellsOf(q, hs)) = next /\ NextCell(xs, hs, CellsOf(q, hs)) = CellsOf(q, next)
  BY <1>3, StepRuns
<1>7. hidden = hs /\ cell = CellsOf(q, hs)
      /\ data[IF direction = 1 THEN at + 1 ELSE Steps - at] = xs
  BY <1>3, <1>4, <1>5
<1> HIDE DEF xs, hs, next
<1>8. hidden' = next /\ cell' = CellsOf(q, next) /\ outputs' = Append(outputs, next)
  BY <1>2, <1>6, <1>7
<1>9. /\ hidden' = HiddenAt(q, layer, direction, at + 1)
      /\ cell' = CellsOf(q, HiddenAt(q, layer, direction, at + 1))
      /\ outputs' = Append(outputs, OutputAt(q, layer, direction, at + 1))
  BY <1>5, <1>8 DEF next
<1> QED
  BY <1>1, <1>2, <1>9, StepTakenKeeps

LEMMA PackedForwardStepKeeps ==
  ASSUME SequenceInv, NoneIsNoSequence, PackedForwardStep
  PROVE  SequenceInv'
<1>1. PICK q : request = q
  OBVIOUS
<1> DEFINE xs == DataOf(q, layer)[StepAt(q, direction, at + 1)]
           hs == ActiveAt(q, layer, direction, at)
           next == OutputAt(q, layer, direction, at + 1)
           n == Wide(q, at + 1)
           rows == HiddenAt(q, layer, direction, at)
           after == HiddenAt(q, layer, direction, at + 1)
<1>2. /\ phase = "steps" /\ direction = 1 /\ at < Steps /\ at' = at + 1 /\ UNCHANGED Loop
      /\ hidden' = NextHidden(data[at + 1], Take(hidden, Len(data[at + 1])), Take(cell, Len(data[at + 1])))
                     \o Drop(hidden, Len(data[at + 1]))
      /\ cell' = WithEnded(NextCell(data[at + 1], Take(hidden, Len(data[at + 1])), Take(cell, Len(data[at + 1]))))
      /\ outputs' = Append(outputs, NextHidden(data[at + 1], Take(hidden, Len(data[at + 1])), Take(cell, Len(data[at + 1]))))
  BY <1>1 DEF PackedForwardStep, r
<1>3. /\ Runs(q) /\ q.lstm \in BOOLEAN /\ IsIn(q, layer, direction) /\ direction \in {1, 2}
      /\ data = DataOf(q, layer) /\ Steps = StepsOf(q)
      /\ at \in 0 .. StepsOf(q) - 1 /\ at \in Nat /\ StepsOf(q) \in Nat
      /\ hidden = rows /\ cell = CellsOf(q, rows) /\ IsSequence(rows)
  BY <1>1, <1>2, InAStep, ShapeOfRun
<1>4. StepAt(q, direction, at + 1) = at + 1
  BY <1>2 DEF StepAt
<1>5. data[at + 1] = xs
  BY <1>3, <1>4
<1>6. IsSequence(next) /\ Len(next) = n /\ Len(xs) = n
  BY <1>3, <1>4, StepTables
<1>7. Take(rows, n) = hs /\ next \o Drop(rows, n) = after /\ n \in 0 .. Len(rows)
  BY <1>2, <1>3, ForwardHidden
<1>8. NextHidden(xs, hs, CellsOf(q, hs)) = next /\ NextCell(xs, hs, CellsOf(q, hs)) = CellsOf(q, next)
  BY <1>3, StepRuns
<1> HIDE DEF xs, hs, next, n, rows, after
<1>9. Take(CellsOf(q, rows), n) = CellsOf(q, hs)
  BY <1>3, <1>7, CellsTaken
<1>10. NextHidden(data[at + 1], Take(hidden, Len(data[at + 1])), Take(cell, Len(data[at + 1]))) = next
  BY <1>3, <1>5, <1>6, <1>7, <1>8, <1>9
<1>11. NextCell(data[at + 1], Take(hidden, Len(data[at + 1])), Take(cell, Len(data[at + 1]))) = CellsOf(q, next)
  BY <1>3, <1>5, <1>6, <1>7, <1>8, <1>9
<1>12. hidden' = after /\ outputs' = Append(outputs, next)
  BY <1>2, <1>3, <1>5, <1>6, <1>7, <1>10
<1>13. cell' = CellsOf(q, after)
  <2>1. CASE q.lstm
    <3>1. /\ CellsOf(q, rows) # None
          /\ Len(CellsOf(q, next)) = n
      BY <1>3, <1>6, <2>1, CellTable
    <3>2. Len(next) <= Len(rows)
      BY <1>3, <1>6, <1>7 DEF IsSequence
    <3>3. CellsOf(q, next) \o Drop(CellsOf(q, rows), Len(next)) =
            CellsOf(q, next \o Drop(rows, Len(next)))
      BY <1>3, <1>6, <2>1, <3>2, CellsKept
    <3>4. cell' = CellsOf(q, next) \o Drop(CellsOf(q, rows), n)
      BY <1>2, <1>3, <1>11, <3>1 DEF WithEnded
    <3> QED
      BY <1>6, <1>7, <3>3, <3>4
  <2>2. CASE ~q.lstm
    <3>1. CellsOf(q, rows) = None /\ CellsOf(q, after) = None
      BY <2>2, NoCells
    <3> QED
      BY <1>2, <1>3, <3>1 DEF WithEnded
  <2> QED
    BY <1>3, <2>1, <2>2
<1>14. /\ hidden' = HiddenAt(q, layer, direction, at + 1)
       /\ cell' = CellsOf(q, HiddenAt(q, layer, direction, at + 1))
       /\ outputs' = Append(outputs, OutputAt(q, layer, direction, at + 1))
  BY <1>12, <1>13 DEF after, next
<1> QED
  BY <1>1, <1>2, <1>14, StepTakenKeeps

LEMMA PackedReverseStepKeeps ==
  ASSUME SequenceInv, NoneIsNoSequence, PackedReverseStep
  PROVE  SequenceInv'
<1>1. PICK q : request = q
  OBVIOUS
<1> DEFINE xs == DataOf(q, layer)[StepAt(q, direction, at + 1)]
           hs == ActiveAt(q, layer, direction, at)
           next == OutputAt(q, layer, direction, at + 1)
           n == Wide(q, StepsOf(q) - at)
           rows == HiddenAt(q, layer, direction, at)
           after == HiddenAt(q, layer, direction, at + 1)
           start == StateOf(q, "h")[StateIndexOf(q, layer, direction)]
           entered == hidden \o Entering(InitialHidden, Len(hidden), Len(data[Steps - at]))
           enteredCells == Join(cell, Entering(InitialCell, Len(hidden), Len(data[Steps - at])))
<1>2. /\ phase = "steps" /\ direction = 2 /\ at < Steps /\ at' = at + 1 /\ UNCHANGED Loop
      /\ q.form = "packed"
      /\ hidden' = NextHidden(data[Steps - at], entered, enteredCells)
      /\ cell' = NextCell(data[Steps - at], entered, enteredCells)
      /\ outputs' = Append(outputs, hidden')
  BY <1>1 DEF PackedReverseStep, r
<1>3. /\ Runs(q) /\ q.lstm \in BOOLEAN /\ IsIn(q, layer, direction) /\ direction \in {1, 2}
      /\ data = DataOf(q, layer) /\ Steps = StepsOf(q)
      /\ at \in 0 .. StepsOf(q) - 1 /\ at \in Nat /\ StepsOf(q) \in Nat
      /\ hidden = rows /\ cell = CellsOf(q, rows) /\ IsSequence(rows)
  BY <1>1, <1>2, InAStep, ShapeOfRun
<1>4. InitialHidden = start /\ IsSequence(start) /\ InitialCell = CellsOf(q, start)
  <2>1. state = [h |-> StateOf(q, "h"), c |-> IF q.lstm THEN StateOf(q, "c") ELSE None]
    BY <1>1, <1>2, InACall
  <2> QED
    BY <1>1, <1>3, <2>1, InitialsAre
<1>5. StepAt(q, direction, at + 1) = StepsOf(q) - at
  BY <1>2, <1>3 DEF StepAt
<1>6. data[Steps - at] = xs
  BY <1>3, <1>5
<1>7. Len(xs) = n
  BY <1>3, <1>5, StepTables
<1>8. /\ Len(rows) <= n /\ n <= Len(start) /\ n \in Nat
      /\ rows \o Entering(start, Len(rows), n) = hs
      /\ after = next
  BY <1>2, <1>3, BackwardHidden
<1>9. NextHidden(xs, hs, CellsOf(q, hs)) = next /\ NextCell(xs, hs, CellsOf(q, hs)) = CellsOf(q, next)
  BY <1>3, StepRuns
<1> HIDE DEF xs, hs, next, n, rows, after, start
<1>10. Join(CellsOf(q, rows), Entering(CellsOf(q, start), Len(rows), n)) = CellsOf(q, hs)
  <2>1. Join(CellsOf(q, rows), Entering(CellsOf(q, start), Len(rows), n)) =
          CellsOf(q, rows \o Entering(start, Len(rows), n))
    <3>1. q.lstm \in BOOLEAN
      BY <1>3
    <3>2. IsSequence(rows)
      BY <1>3
    <3>3. IsSequence(start)
      BY <1>4
    <3>4. n \in Nat
      BY <1>8
    <3>5. Len(rows) <= n
      BY <1>8
    <3>6. n <= Len(start)
      BY <1>8
    <3> QED
      BY <3>1, <3>2, <3>3, <3>4, <3>5, <3>6, CellsEnter
  <2> QED
    BY <1>8, <2>1
<1>11. entered = hs
  BY <1>3, <1>4, <1>6, <1>7, <1>8
<1>12. enteredCells = CellsOf(q, hs)
  BY <1>3, <1>4, <1>6, <1>7, <1>10
<1> HIDE DEF entered, enteredCells
<1>13. hidden' = next /\ cell' = CellsOf(q, next) /\ outputs' = Append(outputs, next)
  BY <1>2, <1>6, <1>9, <1>11, <1>12
<1>14. /\ hidden' = HiddenAt(q, layer, direction, at + 1)
       /\ cell' = CellsOf(q, HiddenAt(q, layer, direction, at + 1))
       /\ outputs' = Append(outputs, OutputAt(q, layer, direction, at + 1))
  BY <1>8, <1>13 DEF after, next
<1> QED
  BY <1>1, <1>2, <1>14, StepTakenKeeps

\* A direction adds its outputs, and its state index its final rows.
LEMMA DirectionsGrow ==
  ASSUME NEW q, NEW l, NEW n \in Nat
  PROVE  Append(DirectionsTo(q, l, n), DirectionOf(q, l, n + 1)) = DirectionsTo(q, l, n + 1)
<1> DEFINE old == DirectionsTo(q, l, n)
           longer == DirectionsTo(q, l, n + 1)
<1>1. IsSequence(old) /\ Len(old) = n /\ \A j \in 1 .. n : old[j] = DirectionOf(q, l, j)
  BY DEF DirectionsTo, IsSequence
<1>2. IsSequence(longer) /\ Len(longer) = n + 1
      /\ \A j \in 1 .. n + 1 : longer[j] = DirectionOf(q, l, j)
  BY DEF DirectionsTo, IsSequence
<1> HIDE DEF old, longer
<1>3. Append(old, DirectionOf(q, l, n + 1)) = longer
  BY <1>1, <1>2, AppendReaches
<1> QED
  BY <1>3 DEF old, longer

FinalTable(q, i) == [p \in RowsOf(q) |-> FinalIn(q, p)[i]]

LEMMA FinalsGrow ==
  ASSUME NEW q, NEW n \in Nat
  PROVE  Append(FinalsTo(q, n), FinalTable(q, n + 1)) = FinalsTo(q, n + 1)
<1> DEFINE old == FinalsTo(q, n)
           longer == FinalsTo(q, n + 1)
<1>1. IsSequence(old) /\ Len(old) = n /\ \A i \in 1 .. n : old[i] = FinalTable(q, i)
  BY DEF FinalsTo, FinalTable, IsSequence
<1>2. IsSequence(longer) /\ Len(longer) = n + 1
      /\ \A i \in 1 .. n + 1 : longer[i] = FinalTable(q, i)
  BY DEF FinalsTo, FinalTable, IsSequence
<1> HIDE DEF old, longer
<1>3. Append(old, FinalTable(q, n + 1)) = longer
  BY <1>1, <1>2, AppendReaches
<1> QED
  BY <1>3 DEF old, longer

LEMMA FinalCellsGrow ==
  ASSUME NEW q, q.lstm, NEW n \in Nat
  PROVE  Append(FinalCellsTo(q, n), CellsOf(q, FinalTable(q, n + 1))) = FinalCellsTo(q, n + 1)
<1> DEFINE old == FinalCellsTo(q, n)
           longer == FinalCellsTo(q, n + 1)
           row(i) == [p \in RowsOf(q) |-> CellOf(FinalIn(q, p)[i])]
<1>1. IsSequence(old) /\ Len(old) = n /\ \A i \in 1 .. n : old[i] = row(i)
  BY DEF FinalCellsTo, IsSequence
<1>2. IsSequence(longer) /\ Len(longer) = n + 1
      /\ \A i \in 1 .. n + 1 : longer[i] = row(i)
  BY DEF FinalCellsTo, IsSequence
<1>3. CellsOf(q, FinalTable(q, n + 1)) = row(n + 1)
  BY DEF CellsOf, FinalTable
<1> HIDE DEF old, longer, row
<1>4. Append(old, row(n + 1)) = longer
  BY <1>1, <1>2, AppendReaches
<1> QED
  BY <1>3, <1>4 DEF old, longer

LEMMA FinishDirectionKeeps ==
  ASSUME SequenceInv, NoneIsNoSequence, FinishDirection
  PROVE  SequenceInv'
<1>1. PICK q : request = q
  OBVIOUS
<1>2. /\ phase = "steps" /\ at = Steps /\ phase' = "layer"
      /\ directionOutputs' = Append(directionOutputs, InOrder)
      /\ finalHidden' = Append(finalHidden, hidden)
      /\ finalCell' = IF finalCell = None THEN None ELSE Append(finalCell, cell)
      /\ direction' = direction + 1
      /\ request' = q /\ data' = data /\ layer' = layer /\ state' = state
  BY <1>1 DEF FinishDirection
<1>3. /\ q \in Calls /\ Runs(q) /\ q.lstm \in BOOLEAN /\ q # None
      /\ layer \in 1 .. q.layers /\ direction \in 1 .. q.directions + 1
      /\ IsIn(q, layer, direction)
      /\ state = [h |-> StateOf(q, "h"), c |-> IF q.lstm THEN StateOf(q, "c") ELSE None]
      /\ data = DataOf(q, layer)
      /\ directionOutputs = DirectionsTo(q, layer, direction - 1)
      /\ finalHidden = FinalsTo(q, (layer - 1) * q.directions + (direction - 1))
      /\ finalCell = FinalCellsTo(q, (layer - 1) * q.directions + (direction - 1))
  BY <1>1, <1>2, InACall
<1>4. /\ direction \in {1, 2} /\ at = StepsOf(q)
      /\ hidden = HiddenAt(q, layer, direction, StepsOf(q))
      /\ cell = CellsOf(q, hidden)
      /\ outputs = OutputsTo(q, layer, direction, StepsOf(q))
  BY <1>1, <1>2, InAStep
<1> DEFINE n == (layer - 1) * q.directions + (direction - 1)
<1>5. n \in Nat /\ n + 1 = StateIndexOf(q, layer, direction) /\ direction - 1 \in Nat
      /\ direction - 1 + 1 = direction
      /\ n + 1 = (layer - 1) * q.directions + (direction + 1 - 1)
  <2>1. q.directions \in Nat /\ layer - 1 \in Nat /\ direction - 1 \in Nat
    BY <1>3 DEF IsIn, Runs, IsNet
  <2>2. (layer - 1) * q.directions \in Nat
    BY <2>1
  <2> QED
    BY <1>4, <2>1, <2>2 DEF StateIndexOf
<1>6. directionOutputs' = DirectionsTo(q, layer, direction)
  <2>1. InOrder = DirectionOf(q, layer, direction)
    BY <1>3, <1>4, DirectionDone DEF InOrder
  <2>2. Append(DirectionsTo(q, layer, direction - 1), DirectionOf(q, layer, direction - 1 + 1)) =
          DirectionsTo(q, layer, direction - 1 + 1)
    BY <1>5, DirectionsGrow
  <2> QED
    BY <1>2, <1>3, <1>5, <2>1, <2>2
<1>7. hidden = FinalTable(q, n + 1)
  <2>1. HiddenAt(q, layer, direction, StepsOf(q)) =
          [p \in RowsOf(q) |-> FinalIn(q, p)[StateIndexOf(q, layer, direction)]]
    BY <1>3, FinalRowsReached
  <2> QED
    BY <1>4, <1>5, <2>1 DEF FinalTable
<1> HIDE DEF n
<1>8. finalHidden' = FinalsTo(q, n + 1)
  <2>1. Append(FinalsTo(q, n), FinalTable(q, n + 1)) = FinalsTo(q, n + 1)
    BY <1>5, FinalsGrow
  <2> QED
    BY <1>2, <1>3, <1>7, <2>1 DEF n
<1>9. finalCell' = FinalCellsTo(q, n + 1)
  <2>1. CASE q.lstm
    <3>1. Append(FinalCellsTo(q, n), CellsOf(q, FinalTable(q, n + 1))) = FinalCellsTo(q, n + 1)
      BY <1>5, <2>1, FinalCellsGrow
    <3>2. DOMAIN FinalCellsTo(q, n) = 1 .. n
      BY <2>1 DEF FinalCellsTo
    <3>3. finalCell # None
      BY <1>3, <1>5, <3>2 DEF NoneIsNoSequence, n
    <3> QED
      BY <1>2, <1>3, <1>4, <1>7, <3>1, <3>3 DEF n
  <2>2. CASE ~q.lstm
    BY <1>2, <1>3, <2>2 DEF FinalCellsTo
  <2> QED
    BY <1>3, <2>1, <2>2
<1>10. direction' \in 1 .. q.directions + 1 /\ direction' - 1 = direction
  <2>1. q.directions \in Nat /\ direction \in 1 .. q.directions
    BY <1>3 DEF IsIn, Runs, IsNet
  <2> QED
    BY <1>2, <2>1
<1>11. PlaceInv'
  BY <1>2, <1>3, <1>10 DEF PlaceInv, Looping
<1>12. DataInv'
  <2>1. DoneOf(q)' = n + 1
    BY <1>2, <1>5 DEF DoneOf
  <2>2. /\ state' = [h |-> StateOf(q, "h"), c |-> IF q.lstm THEN StateOf(q, "c") ELSE None]
        /\ data' = DataOf(q, layer')
        /\ directionOutputs' = DirectionsTo(q, layer', direction' - 1)
    BY <1>2, <1>3, <1>6, <1>10
  <2> QED
    BY <1>2, <1>8, <1>9, <2>1, <2>2 DEF DataInv
<1> QED
  BY <1>2, <1>11, <1>12 DEF SequenceInv, RowsInv, ResultInv, Returned

LEMMA FinishLayerKeeps ==
  ASSUME SequenceInv, NoneIsNoSequence, FinishLayer
  PROVE  SequenceInv'
<1>1. PICK q : request = q
  OBVIOUS
<1>2. /\ phase = "layer" /\ Len(directionOutputs) = q.directions
      /\ data' = [s \in 1 .. Steps |-> [p \in DOMAIN data[s] |->
                    Concatenated(q.dropout /\ layer < q.layers, s, p)]]
      /\ directionOutputs' = <<>> /\ direction' = 1
      /\ IF layer < q.layers THEN phase' = "layer" /\ layer' = layer + 1
         ELSE phase' = "finish" /\ layer' = layer
      /\ request' = q /\ state' = state /\ finalHidden' = finalHidden /\ finalCell' = finalCell
  BY <1>1 DEF FinishLayer, r
<1>3. /\ q \in Calls /\ Runs(q) /\ q # None
      /\ layer \in 1 .. q.layers /\ direction \in 1 .. q.directions + 1
      /\ state = [h |-> StateOf(q, "h"), c |-> IF q.lstm THEN StateOf(q, "c") ELSE None]
      /\ data = DataOf(q, layer) /\ Steps = StepsOf(q)
      /\ directionOutputs = DirectionsTo(q, layer, direction - 1)
      /\ finalHidden = FinalsTo(q, (layer - 1) * q.directions + (direction - 1))
      /\ finalCell = FinalCellsTo(q, (layer - 1) * q.directions + (direction - 1))
  BY <1>1, <1>2, InACall DEF Steps
<1>4. direction - 1 = q.directions /\ q.directions \in Nat \ {0} /\ q.layers \in Nat \ {0}
  <2>1. q.directions \in Nat \ {0} /\ direction - 1 \in Nat /\ q.layers \in Nat \ {0}
    BY <1>3 DEF Runs, IsNet
  <2>2. Len(directionOutputs) = direction - 1
    BY <1>3, <2>1 DEF DirectionsTo
  <2> QED
    BY <1>2, <2>1, <2>2
<1>5. data' = DataOf(q, layer + 1)
  <2>1. ASSUME NEW s \in 1 .. StepsOf(q), NEW p \in 1 .. Wide(q, s)
        PROVE  Concatenated(q.dropout /\ layer < q.layers, s, p) = DataOf(q, layer + 1)[s][p]
    <3>1. [parts |-> [d \in 1 .. q.directions |-> DirectionsTo(q, layer, q.directions)[d][s][p]],
           dropped |-> q.dropout /\ layer < q.layers] = DataOf(q, layer + 1)[s][p]
      BY <1>3, LayerDone
    <3> QED
      BY <1>1, <1>3, <1>4, <3>1 DEF Concatenated, r
  <2>2. /\ \A s \in 1 .. StepsOf(q) : DOMAIN data[s] = 1 .. Wide(q, s)
    BY <1>3, DataIsTable
  <2>3. DataOf(q, layer + 1) =
          [s \in 1 .. StepsOf(q) |-> [p \in 1 .. Wide(q, s) |-> DataOf(q, layer + 1)[s][p]]]
    BY DEF DataOf
  <2>4. ASSUME NEW s \in 1 .. StepsOf(q)
        PROVE  [p \in DOMAIN data[s] |-> Concatenated(q.dropout /\ layer < q.layers, s, p)] =
                 [p \in 1 .. Wide(q, s) |-> DataOf(q, layer + 1)[s][p]]
    BY <2>1, <2>2
  <2> QED
    BY <1>2, <1>3, <2>3, <2>4
<1>6. (layer - 1) * q.directions + (direction - 1) = layer * q.directions
  BY <1>3, <1>4
<1>7. directionOutputs' = DirectionsTo(q, layer', direction' - 1)
  <2>1. direction' - 1 = 0
    BY <1>2
  <2>2. DirectionsTo(q, layer', 0) = <<>>
    BY NothingDone
  <2> QED
    BY <1>2, <2>1, <2>2
<1>8. CASE layer < q.layers
  <2>1. phase' = "layer" /\ layer' = layer + 1 /\ layer + 1 \in 1 .. q.layers
    BY <1>2, <1>3, <1>4, <1>8
  <2>2. PlaceInv'
    BY <1>2, <1>3, <1>4, <2>1 DEF PlaceInv, Looping
  <2>3. DoneOf(q)' = layer * q.directions
    <3>1. layer' - 1 = layer /\ direction' - 1 = 0
      BY <1>2, <1>3, <1>4, <2>1
    <3>2. layer * q.directions \in Nat
      BY <1>3, <1>4
    <3>3. DoneOf(q)' = (layer' - 1) * q.directions + (direction' - 1)
      BY <2>1 DEF DoneOf
    <3> QED
      BY <3>1, <3>2, <3>3
  <2>4. DataInv'
    BY <1>2, <1>3, <1>5, <1>6, <1>7, <2>1, <2>3 DEF DataInv
  <2> QED
    BY <2>1, <2>2, <2>4 DEF SequenceInv, RowsInv, ResultInv, Returned
<1>9. CASE ~(layer < q.layers)
  <2>1. phase' = "finish" /\ layer' = layer /\ layer = q.layers
    BY <1>2, <1>3, <1>4, <1>9
  <2>2. PlaceInv'
    BY <1>2, <1>3, <1>4, <2>1 DEF PlaceInv, Looping
  <2>3. DoneOf(q)' = layer * q.directions
    BY <1>2, <2>1 DEF DoneOf
  <2>4. DataInv'
    BY <1>2, <1>3, <1>5, <1>6, <1>7, <2>1, <2>3 DEF DataInv
  <2> QED
    BY <2>1, <2>2, <2>4 DEF SequenceInv, RowsInv, ResultInv, Returned
<1> QED
  BY <1>8, <1>9

\* Rows back in the caller's order.
LEMMA RowOfIsRow ==
  ASSUME NEW q, Runs(q), NEW s \in RowsOf(q)
  PROVE  RowOfSequence(q, s) \in RowsOf(q) /\ SequenceIn(q, RowOfSequence(q, s)) = s
<1>1. \E p \in RowsOf(q) : SequenceIn(q, p) = s
  BY DEF Runs, IsBatch
<1> QED
  BY <1>1 DEF RowOfSequence

LEMMA RowOfIsOnlyOne ==
  ASSUME NEW q, Runs(q), NEW p \in RowsOf(q)
  PROVE  RowOfSequence(q, SequenceIn(q, p)) = p
<1> DEFINE o == RowOfSequence(q, SequenceIn(q, p))
<1>1. SequenceIn(q, p) \in RowsOf(q)
  BY DEF Runs, IsBatch
<1>2. o \in RowsOf(q) /\ SequenceIn(q, o) = SequenceIn(q, p)
  BY <1>1, RowOfIsRow
<1>3. o \in Nat /\ p \in Nat
  BY <1>2 DEF RowsOf
<1> HIDE DEF o
<1>4. ~(o < p) /\ ~(p < o)
  BY <1>2 DEF Runs, IsBatch
<1>5. o = p
  BY <1>3, <1>4
<1> QED
  BY <1>5 DEF o

InCallersOrder(q, rows, n) ==
  [i \in 1 .. n |-> [s \in RowsOf(q) |-> rows[i][RowOfSequence(q, s)]]]

LEMMA Unsorted ==
  ASSUME NoneIsNoSequence, NEW q, request = q, Runs(q), NEW n \in Nat, NEW rows,
         IsMatrix(rows, n, Size(q))
  PROVE  Permuted(rows, UnsortedIndices) = InCallersOrder(q, rows, n)
<1>1. DOMAIN rows = 1 .. n /\ rows = [i \in 1 .. n |-> [p \in RowsOf(q) |-> rows[i][p]]]
  BY DEF IsMatrix, RowsOf
<1>2. rows # None
  BY <1>1 DEF NoneIsNoSequence
<1>3. Batch = Size(q)
  BY OfTheCall
<1>4. CASE q.sorted = None
  <2>1. Permuted(rows, UnsortedIndices) = rows
    BY <1>4 DEF UnsortedIndices, Permuted, r
  <2>2. ASSUME NEW s \in RowsOf(q)
        PROVE  RowOfSequence(q, s) = s
    <3>1. SequenceIn(q, s) = s
      BY <1>4 DEF SequenceIn, OrderOf, Runs, IsBatch
    <3> QED
      BY <3>1, RowOfIsOnlyOne
  <2> QED
    BY <1>1, <2>1, <2>2 DEF InCallersOrder
<1>5. CASE q.sorted # None
  <2>1. UnsortedIndices = [s \in RowsOf(q) |-> RowOfSequence(q, s)]
    <3>1. UnsortedIndices = [s \in RowsOf(q) |-> CHOOSE p \in RowsOf(q) : q.sorted[p] = s]
      BY <1>3, <1>5 DEF UnsortedIndices, r, RowsOf
    <3>2. \A p : q.sorted[p] = SequenceIn(q, p)
      BY <1>5 DEF SequenceIn, OrderOf
    <3> QED
      BY <3>1, <3>2 DEF RowOfSequence
  <2>2. UnsortedIndices # None
    <3>1. DOMAIN UnsortedIndices = 1 .. Size(q) /\ Size(q) \in Nat
      BY <2>1, ShapeOfRun DEF RowsOf
    <3> QED
      BY <3>1 DEF NoneIsNoSequence
  <2>3. Permuted(rows, UnsortedIndices) =
          [i \in 1 .. n |-> [s \in RowsOf(q) |-> rows[i][UnsortedIndices[s]]]]
    BY <1>1, <1>2, <2>1, <2>2 DEF Permuted
  <2> QED
    BY <2>1, <2>3 DEF InCallersOrder
<1> QED
  BY <1>4, <1>5

LEMMA SqueezedRows ==
  ASSUME NoneIsNoSequence, NEW q, request = q, NEW n \in Nat, NEW rows, DOMAIN rows = 1 .. n
  PROVE  Squeezed(rows) = WithoutBatch(q, rows)
<1>1. rows # None
  BY DEF NoneIsNoSequence
<1> QED
  BY <1>1 DEF Squeezed, WithoutBatch, r

LEMMA FinalsUnsorted ==
  ASSUME NoneIsNoSequence, NEW q, request = q, Runs(q), q.lstm \in BOOLEAN
  PROVE  /\ Squeezed(Permuted(FinalsTo(q, q.layers * q.directions), UnsortedIndices)) =
              WithoutBatch(q, FinalsBack(q))
         /\ Squeezed(Permuted(FinalCellsTo(q, q.layers * q.directions), UnsortedIndices)) =
              IF q.lstm THEN WithoutBatch(q, FinalCellsBack(q)) ELSE None
<1> DEFINE n == q.layers * q.directions
           rows == FinalsTo(q, n)
           cells == FinalCellsTo(q, n)
<1>1. n \in Nat
  BY DEF Runs, IsNet
<1>2. IsMatrix(rows, n, Size(q))
  BY DEF FinalsTo, IsMatrix, RowsOf
<1>6. \A i \in 1 .. n : \A p \in RowsOf(q) : rows[i][p] = FinalIn(q, p)[i]
  BY DEF FinalsTo
<1>3. Squeezed(Permuted(rows, UnsortedIndices)) = WithoutBatch(q, FinalsBack(q))
  <2> HIDE DEF rows, n
  <2>1. Permuted(rows, UnsortedIndices) = InCallersOrder(q, rows, n)
    BY <1>1, <1>2, Unsorted
  <2>2. Permuted(rows, UnsortedIndices) = FinalsBack(q)
    <3>1. \A i \in 1 .. n : \A s \in RowsOf(q) :
            rows[i][RowOfSequence(q, s)] = FinalIn(q, RowOfSequence(q, s))[i]
      BY <1>6, RowOfIsRow
    <3>2. FinalsBack(q) = [i \in 1 .. n |-> [s \in RowsOf(q) |-> FinalIn(q, RowOfSequence(q, s))[i]]]
      BY DEF FinalsBack, n
    <3> QED
      BY <2>1, <3>1, <3>2 DEF InCallersOrder
  <2>3. DOMAIN FinalsBack(q) = 1 .. n
    BY DEF FinalsBack, n
  <2> QED
    BY <1>1, <2>2, <2>3, SqueezedRows
<1>4. CASE q.lstm
  <2>1. IsMatrix(cells, n, Size(q))
    BY <1>4 DEF FinalCellsTo, IsMatrix, RowsOf
  <2>6. \A i \in 1 .. n : \A p \in RowsOf(q) : cells[i][p] = CellOf(FinalIn(q, p)[i])
    BY <1>4 DEF FinalCellsTo
  <2> HIDE DEF cells, n, rows
  <2>2. Permuted(cells, UnsortedIndices) = InCallersOrder(q, cells, n)
    BY <1>1, <2>1, Unsorted
  <2>3. Permuted(cells, UnsortedIndices) = FinalCellsBack(q)
    <3>1. \A i \in 1 .. n : \A s \in RowsOf(q) :
            cells[i][RowOfSequence(q, s)] = CellOf(FinalIn(q, RowOfSequence(q, s))[i])
      BY <2>6, RowOfIsRow
    <3>2. FinalCellsBack(q) =
            [i \in 1 .. n |-> [s \in RowsOf(q) |-> CellOf(FinalIn(q, RowOfSequence(q, s))[i])]]
      BY DEF FinalCellsBack, n
    <3> QED
      BY <2>2, <3>1, <3>2 DEF InCallersOrder
  <2>4. DOMAIN FinalCellsBack(q) = 1 .. n
    BY DEF FinalCellsBack, n
  <2>5. Squeezed(Permuted(cells, UnsortedIndices)) = WithoutBatch(q, FinalCellsBack(q))
    BY <1>1, <2>3, <2>4, SqueezedRows
  <2> QED
    BY <1>3, <1>4, <2>5 DEF cells, rows, n
<1>5. CASE ~q.lstm
  <2>1. cells = None
    BY <1>5 DEF FinalCellsTo
  <2>2. Squeezed(Permuted(cells, UnsortedIndices)) = None
    BY <2>1 DEF Squeezed, Permuted
  <2> QED
    BY <1>3, <1>5, <2>2
<1> QED
  BY <1>4, <1>5

LEMMA FinishKeeps ==
  ASSUME SequenceInv, NoneIsNoSequence, Finish
  PROVE  SequenceInv'
<1>1. PICK q : request = q
  OBVIOUS
<1>2. /\ phase = "finish" /\ phase' = "returned" /\ request' = q
      /\ layer' = 0 /\ direction' = 0 /\ directionOutputs' = <<>> /\ finalHidden' = <<>>
      /\ result' = [by |-> "fallback",
           output |->
             CASE q.form = "packed" -> FlattenSeq(data)
               [] q.form = "unbatched" -> Squeezed(data)
               [] q.form = "dense" -> IF q.batchFirst THEN Transpose(data) ELSE data,
           h |-> Squeezed(Permuted(finalHidden, UnsortedIndices)),
           c |-> Squeezed(Permuted(finalCell, UnsortedIndices))]
  BY <1>1 DEF Finish, Answer, r
<1>3. Looping
  BY <1>2 DEF Looping
<1>4. /\ q \in Calls /\ Runs(q) /\ layer = q.layers
      /\ data = DataOf(q, q.layers + 1)
      /\ finalHidden = FinalsTo(q, q.layers * q.directions)
      /\ finalCell = FinalCellsTo(q, q.layers * q.directions)
  BY <1>1, <1>2, <1>3 DEF SequenceInv, PlaceInv, DataInv, DoneOf
<1>5. q.lstm \in BOOLEAN /\ q # None /\ IsForm(q)
  BY <1>4, CallIsWellFormed
<1>6. result'.output = LaidOut(q, DataOf(q, q.layers + 1))
  <2>1. DOMAIN data = 1 .. StepsOf(q) /\ StepsOf(q) \in Nat
    BY <1>4, ShapeOfRun DEF DataOf
  <2>2. Squeezed(data) = WithoutBatch(q, data)
    BY <1>1, <2>1, SqueezedRows
  <2>3. q.form \in {"packed", "dense", "unbatched"}
    BY <1>5 DEF IsForm
  <2> QED
    BY <1>2, <1>4, <2>2, <2>3 DEF LaidOut, WithoutBatch
<1>7. /\ result'.h = WithoutBatch(q, FinalsBack(q))
      /\ result'.c = IF q.lstm THEN WithoutBatch(q, FinalCellsBack(q)) ELSE None
  <2>1. /\ result'.h = Squeezed(Permuted(finalHidden, UnsortedIndices))
        /\ result'.c = Squeezed(Permuted(finalCell, UnsortedIndices))
    BY <1>2
  <2> QED
    BY <1>1, <1>4, <1>5, <2>1, FinalsUnsorted
<1>8. PlaceInv'
  BY <1>2, <1>4, <1>5 DEF PlaceInv, Looping
<1>9. DataInv' /\ RowsInv'
  BY <1>2 DEF DataInv, RowsInv, Looping
<1>10. ResultInv'
  BY <1>2, <1>4, <1>6, <1>7 DEF ResultInv
<1> QED
  BY <1>8, <1>9, <1>10 DEF SequenceInv

-----------------------------------------------------------------------------
(* The invariant holds in every state.                                     *)

LEMMA SequenceInvNext ==
  ASSUME SequenceInv, NoneIsNoSequence, [SequenceNext]_sequenceVars
  PROVE  SequenceInv'
<1>1. CASE UNCHANGED sequenceVars
  BY <1>1 DEF sequenceVars, SequenceInv, PlaceInv, DataInv, RowsInv, ResultInv, Looping, Returned, DoneOf
<1>2. CASE SequenceNext
  BY <1>2, BeginKeeps, TurnedAwayKeeps, PrepareKeeps, BeginDirectionKeeps, DenseStepKeeps, PackedForwardStepKeeps,
     PackedReverseStepKeeps, FinishDirectionKeeps, FinishLayerKeeps, FinishKeeps, TakenKeeps DEF SequenceNext
<1> QED
  BY <1>1, <1>2

LEMMA SequenceInvariance ==
  ASSUME NoneIsNoSequence
  PROVE  SequenceSpec => []SequenceInv
<1>1. SequenceInit => SequenceInv
  BY SequenceInvInit
<1>2. SequenceInv /\ [SequenceNext]_sequenceVars => SequenceInv'
  BY SequenceInvNext
<1> QED
  BY <1>1, <1>2, PTL DEF SequenceSpec

-----------------------------------------------------------------------------
(* What the invariant says of the properties.                              *)

LEMMA TypesFollow == SequenceInv => SequenceTypeOK
<1> SUFFICES ASSUME SequenceInv PROVE SequenceTypeOK
  OBVIOUS
<1>1. PICK q : request = q
  OBVIOUS
<1>2. /\ phase \in {"idle", "called", "layer", "steps", "finish", "returned"}
      /\ phase = "idle" <=> request = None
      /\ phase # "idle" => q \in Calls
  BY <1>1 DEF SequenceInv, PlaceInv
<1>3. phase # "idle" => layer \in 0 .. q.layers /\ direction \in 0 .. q.directions + 1
  <2>1. CASE ~Looping /\ phase # "idle"
    <3>1. layer = 0 /\ direction = 0
      BY <2>1 DEF SequenceInv, PlaceInv
    <3>2. q.layers \in Nat /\ q.directions \in Nat
      BY <1>2, <2>1, CallIsWellFormed DEF IsNet
    <3> QED
      BY <3>1, <3>2
  <2>2. CASE Looping
    <3>1. layer \in 1 .. q.layers /\ direction \in 1 .. q.directions + 1
      BY <1>1, <2>2 DEF SequenceInv, PlaceInv
    <3> QED
      BY <3>1
  <2> QED
    BY <2>1, <2>2
<1>4. ASSUME phase = "steps"
      PROVE  /\ at \in 0 .. Steps /\ Len(outputs) = at
             /\ cell # None => Len(cell) = Len(hidden)
             /\ \A s \in DOMAIN outputs :
                  Len(outputs[s]) = Len(data[IF direction = 1 THEN s ELSE Steps + 1 - s])
  <2>1. /\ Runs(q) /\ q.lstm \in BOOLEAN /\ IsIn(q, layer, direction) /\ direction \in {1, 2}
        /\ data = DataOf(q, layer) /\ Steps = StepsOf(q)
        /\ at \in 0 .. StepsOf(q) /\ StepsOf(q) \in Nat
        /\ cell = CellsOf(q, hidden)
        /\ outputs = OutputsTo(q, layer, direction, at)
        /\ IsSequence(hidden)
    BY <1>1, <1>4, InAStep, ShapeOfRun
  <2>2. Len(outputs) = at /\ DOMAIN outputs = 1 .. at
    BY <2>1 DEF OutputsTo
  <2>3. cell # None => Len(cell) = Len(hidden)
    <3>1. Len(hidden) \in Nat /\ DOMAIN hidden = 1 .. Len(hidden)
      BY <2>1, SequenceIsSeq DEF IsSequence
    <3>2. CASE q.lstm
      <4>1. cell = [p \in 1 .. Len(hidden) |-> CellOf(hidden[p])]
        BY <2>1, <3>1, <3>2 DEF CellsOf
      <4> QED
        BY <3>1, <4>1
    <3>3. CASE ~q.lstm
      BY <2>1, <3>3, NoCells
    <3> QED
      BY <2>1, <3>2, <3>3
  <2>4. ASSUME NEW s \in 1 .. at
        PROVE  Len(outputs[s]) = Len(data[IF direction = 1 THEN s ELSE Steps + 1 - s])
    <3>1. s - 1 \in 0 .. StepsOf(q) - 1 /\ s - 1 + 1 = s
      BY <2>1
    <3>2. /\ Len(OutputAt(q, layer, direction, s)) = Wide(q, StepAt(q, direction, s))
          /\ Len(DataOf(q, layer)[StepAt(q, direction, s)]) = Wide(q, StepAt(q, direction, s))
      BY <2>1, <3>1, StepTables
    <3>3. outputs[s] = OutputAt(q, layer, direction, s)
      BY <2>1 DEF OutputsTo
    <3>4. StepAt(q, direction, s) = IF direction = 1 THEN s ELSE Steps + 1 - s
      BY <2>1 DEF StepAt
    <3> QED
      BY <2>1, <3>2, <3>3, <3>4
  <2> QED
    BY <2>1, <2>2, <2>3, <2>4
<1> QED
  BY <1>1, <1>2, <1>3, <1>4 DEF SequenceTypeOK, r

\* The reference's sequence is that of its row.
LEMMA SequenceOfRow ==
  ASSUME NEW q, request = q, Runs(q), NEW s \in RowsOf(q)
  PROVE  LET p == RowOfSequence(q, s)
         IN  /\ p \in RowsOf(q) /\ StartOf(s) = StartsIn(q, p) /\ Alone(s) = FedIn(q, p)
<1> DEFINE p == RowOfSequence(q, s)
<1>1. p \in RowsOf(q) /\ SequenceIn(q, p) = s
  BY RowOfIsRow
<1> HIDE DEF p
<1>2. StartOf(s) = StartsIn(q, p)
  BY <1>1, OfTheCall DEF StartOf, StartsIn, Given, r
<1>3. Alone(s) = FedIn(q, p)
  BY <1>1 DEF Alone, FedIn, OwnSteps, X, r
<1> QED
  BY <1>1, <1>2, <1>3 DEF p

\* What the caller finds as a sequence's output is in the sequence's row.
LEMMA OutputFound ==
  ASSUME NEW q, request = q, Runs(q), NEW l,
         result.output = LaidOut(q, DataOf(q, l)), q.batchFirst \in BOOLEAN,
         NEW s \in RowsOf(q), NEW t \in 1 .. OwnSteps(q, RowOfSequence(q, s))
  PROVE  /\ OutputOf(s, t) = DataOf(q, l)[t][RowOfSequence(q, s)]
         /\ t \in 1 .. StepsOf(q) /\ RowOfSequence(q, s) \in 1 .. Wide(q, t)
<1> DEFINE m == DataOf(q, l)
           p == RowOfSequence(q, s)
<1>1. p \in RowsOf(q) /\ SequenceIn(q, p) = s
  BY RowOfIsRow
<1> HIDE DEF p
<1>2. OwnSteps(q, p) \in 1 .. StepsOf(q) /\ StepsOf(q) \in Nat \ {0} /\ Size(q) \in Nat \ {0}
  BY <1>1, ShapeOfRun
<1>3. t \in 1 .. StepsOf(q)
  BY <1>2 DEF p
<1>4. p \in 1 .. Wide(q, t)
  <2>1. OwnSteps(q, p) >= t
    BY <1>2 DEF p
  <2> QED
    BY <1>1, <1>3, <2>1, InStep
<1>5. q.form \in {"packed", "dense", "unbatched"} /\ (q.form = "unbatched" => Size(q) = 1)
  BY DEF Runs, IsForm
<1>6. q.form # "packed" => p = s /\ IsMatrix(m, StepsOf(q), Size(q))
  <2>1. ASSUME q.form # "packed" PROVE p = s
    BY <1>1, <2>1, ShapeOfDense
  <2> QED
    BY <2>1, DataIsTable
<1>7. CASE q.form = "packed"
  <2>1. OutputOf(s, t) = Split(result.output, BatchSizes)[t][CHOOSE o \in 1 .. Batch : SortedAt(o) = s]
    BY <1>7 DEF OutputOf, r
  <2>2. (CHOOSE o \in 1 .. Batch : SortedAt(o) = s) = p
    <3>1. Batch = Size(q) /\ \A o : SortedAt(o) = SequenceIn(q, o)
      BY OfTheCall
    <3> QED
      BY <3>1 DEF p, RowOfSequence, RowsOf
  <2>3. result.output = FlattenSeq(m)
    BY <1>7 DEF LaidOut
  <2>4. Split(FlattenSeq(m), BatchSizes) = m
    BY PackedSplits
  <2> QED
    BY <1>3, <1>4, <2>1, <2>2, <2>3, <2>4 DEF p
<1>8. CASE q.form = "unbatched"
  <2>1. s = 1 /\ p = 1
    BY <1>5, <1>6, <1>8 DEF RowsOf
  <2>2. DOMAIN m = 1 .. StepsOf(q)
    BY DEF DataOf
  <2>3. OutputOf(s, t) = m[t][1]
    BY <1>3, <1>8, <2>2 DEF OutputOf, LaidOut, r
  <2> QED
    BY <1>3, <1>4, <2>1, <2>3 DEF p
<1>9. CASE q.form = "dense"
  <2>1. CASE q.batchFirst
    <3>1. result.output = Transpose(m)
      BY <1>9, <2>1 DEF LaidOut
    <3> HIDE DEF m
    <3>2. Transpose(m) = [j \in 1 .. Size(q) |-> [i \in 1 .. StepsOf(q) |-> m[i][j]]]
      BY <1>2, <1>6, <1>9, Transposed
    <3>3. OutputOf(s, t) = result.output[s][t]
      BY <1>9, <2>1 DEF OutputOf, r
    <3>4. Transpose(m)[s] = [i \in 1 .. StepsOf(q) |-> m[i][s]]
      BY <3>2 DEF RowsOf
    <3>5. OutputOf(s, t) = m[t][s]
      BY <1>3, <3>1, <3>3, <3>4
    <3> QED
      BY <1>3, <1>4, <1>6, <1>9, <3>5 DEF p, m
  <2>2. CASE ~q.batchFirst
    <3>1. OutputOf(s, t) = m[t][s]
      BY <1>9, <2>2 DEF OutputOf, LaidOut, r
    <3> QED
      BY <1>3, <1>4, <1>6, <1>9, <3>1 DEF p
  <2> QED
    BY <2>1, <2>2
<1> QED
  BY <1>5, <1>7, <1>8, <1>9

LEMMA OutputsFollow ==
  ASSUME SequenceInv
  PROVE  OutputsAreAlone
<1> SUFFICES ASSUME Returned PROVE OutputsAreAlone
  BY DEF OutputsAreAlone
<1>1. PICK q : request = q
  OBVIOUS
<1>2. Runs(q) /\ result.output = LaidOut(q, DataOf(q, q.layers + 1))
  BY <1>1 DEF SequenceInv, ResultInv
<1>3. q.batchFirst \in BOOLEAN
  <2>1. q \in Calls
    BY <1>1 DEF SequenceInv, PlaceInv, Returned
  <2> QED
    BY <2>1, CallIsWellFormed
<1>4. ASSUME NEW s \in RowsOf(q), NEW t \in DOMAIN ReferenceOutput(q, StartOf(s), Alone(s))
      PROVE  OutputOf(s, t) = ReferenceOutput(q, StartOf(s), Alone(s))[t]
  <2> DEFINE p == RowOfSequence(q, s)
  <2>1. p \in RowsOf(q) /\ StartOf(s) = StartsIn(q, p) /\ Alone(s) = FedIn(q, p)
    BY <1>1, <1>2, SequenceOfRow
  <2>2. ReferenceOutput(q, StartOf(s), Alone(s)) = InputsIn(q, p, q.layers + 1)
    BY <2>1 DEF ReferenceOutput, InputsIn
  <2>3. q.layers + 1 \in 1 .. q.layers + 1
    BY <1>2 DEF Runs, IsNet
  <2> HIDE DEF p
  <2>4. IsSequence(InputsIn(q, p, q.layers + 1)) /\ Len(InputsIn(q, p, q.layers + 1)) = OwnSteps(q, p)
    BY <1>2, <2>1, <2>3, RowFacts
  <2>5. t \in 1 .. OwnSteps(q, p)
    BY <2>2, <2>4, SequenceIsSeq
  <2>6. /\ OutputOf(s, t) = DataOf(q, q.layers + 1)[t][p]
        /\ t \in 1 .. StepsOf(q) /\ p \in 1 .. Wide(q, t)
    BY <1>1, <1>2, <1>3, <2>5, OutputFound DEF p
  <2>7. DataOf(q, q.layers + 1)[t][p] = InputsIn(q, p, q.layers + 1)[t]
    BY <2>6 DEF DataOf
  <2> QED
    BY <2>2, <2>6, <2>7
<1>5. 1 .. Batch = RowsOf(q)
  BY <1>1, OfTheCall DEF RowsOf
<1> QED
  BY <1>1, <1>4, <1>5 DEF OutputsAreAlone, r

LEMMA StatesFollow ==
  ASSUME SequenceInv, NoneIsNoSequence
  PROVE  StatesAreAlone
<1> SUFFICES ASSUME Returned PROVE StatesAreAlone
  BY DEF StatesAreAlone
<1>1. PICK q : request = q
  OBVIOUS
<1>2. /\ Runs(q)
      /\ result.h = WithoutBatch(q, FinalsBack(q))
      /\ result.c = IF q.lstm THEN WithoutBatch(q, FinalCellsBack(q)) ELSE None
  BY <1>1 DEF SequenceInv, ResultInv
<1> DEFINE n == q.layers * q.directions
<1>3. n \in Nat
  BY <1>2 DEF Runs, IsNet
<1>4. /\ DOMAIN WithoutBatch(q, FinalCellsBack(q)) = 1 .. n
  BY DEF WithoutBatch, FinalCellsBack
<1>5. result.c = None <=> ~q.lstm
  <2>1. WithoutBatch(q, FinalCellsBack(q)) # None
    BY <1>3, <1>4 DEF NoneIsNoSequence
  <2> QED
    BY <1>2, <2>1
<1>6. ASSUME NEW s \in RowsOf(q), NEW i \in DOMAIN ReferenceFinal(q, StartOf(s), Alone(s))
      PROVE  /\ FinalOf(result.h, s, i) = ReferenceFinal(q, StartOf(s), Alone(s))[i]
             /\ q.lstm => FinalOf(result.c, s, i) = CellOf(ReferenceFinal(q, StartOf(s), Alone(s))[i])
  <2> DEFINE p == RowOfSequence(q, s)
  <2>1. p \in RowsOf(q) /\ StartOf(s) = StartsIn(q, p) /\ Alone(s) = FedIn(q, p)
    BY <1>1, <1>2, SequenceOfRow
  <2>2. ReferenceFinal(q, StartOf(s), Alone(s)) = FinalIn(q, p)
    BY <2>1 DEF FinalIn
  <2>3. i \in 1 .. n
    <3>1. IsNet(q)
      BY <1>2 DEF Runs
    <3>2. FinalIn(q, p) = [o \in 1 .. n |-> FinalIn(q, p)[o]]
      BY <3>1, FinalIsReading DEF FinalIn
    <3>3. DOMAIN FinalIn(q, p) = 1 .. n
      BY <3>2
    <3> QED
      BY <2>2, <3>3
  <2>4. FinalsBack(q)[i][s] = FinalIn(q, p)[i] /\ FinalCellsBack(q)[i][s] = CellOf(FinalIn(q, p)[i])
    BY <2>3 DEF FinalsBack, FinalCellsBack
  <2>5. DOMAIN FinalsBack(q) = 1 .. n /\ DOMAIN FinalCellsBack(q) = 1 .. n
    BY DEF FinalsBack, FinalCellsBack
  <2>6. ASSUME NEW rows, DOMAIN rows = 1 .. n
        PROVE  FinalOf(WithoutBatch(q, rows), s, i) = rows[i][s]
    <3>1. CASE q.form = "unbatched"
      <4>1. s = 1
        BY <1>2, <3>1 DEF Runs, IsForm, RowsOf
      <4> QED
        BY <1>1, <2>3, <2>6, <3>1, <4>1 DEF FinalOf, WithoutBatch, r
    <3>2. CASE q.form # "unbatched"
      BY <1>1, <3>2 DEF FinalOf, WithoutBatch, r
    <3> QED
      BY <3>1, <3>2
  <2>7. FinalOf(result.h, s, i) = FinalsBack(q)[i][s]
    BY <1>2, <2>5, <2>6
  <2>8. q.lstm => FinalOf(result.c, s, i) = FinalCellsBack(q)[i][s]
    BY <1>2, <2>5, <2>6
  <2> QED
    BY <2>2, <2>4, <2>7, <2>8
<1>7. 1 .. Batch = RowsOf(q)
  BY <1>1, OfTheCall DEF RowsOf
<1> QED
  BY <1>1, <1>5, <1>6, <1>7 DEF StatesAreAlone, r

-----------------------------------------------------------------------------
(* The theorems.  None stands for "no tensor": they assume of it that it   *)
(* is none, that is, that its domain is not that of a sequence.            *)

\* The loops of every call keep their bounds, over dense, batch-first,
\* unbatched and packed batches of any number of sequences, steps and layers,
\* in one direction or two, and a step puts out as many rows as it has read.
THEOREM SequenceTypeCorrect ==
  ASSUME NoneIsNoSequence
  PROVE  SequenceSpec => []SequenceTypeOK
<1>1. SequenceSpec => []SequenceInv
  BY SequenceInvariance
<1>2. SequenceInv => SequenceTypeOK
  BY TypesFollow
<1> QED
  BY <1>1, <1>2, PTL

\* What a call returns for a sequence at a time is what the reference computes
\* for that sequence run alone, whatever batch, order, layout and direction
\* the call ran it in: the rows that a packed batch ends, lets in and puts
\* back in the caller's order are each sequence's own.
THEOREM OutputsAreThoseAlone ==
  ASSUME NoneIsNoSequence
  PROVE  SequenceSpec => []OutputsAreAlone
<1>1. SequenceSpec => []SequenceInv
  BY SequenceInvariance
<1>2. SequenceInv => OutputsAreAlone
  BY OutputsFollow
<1> QED
  BY <1>1, <1>2, PTL

\* The states a call returns, of every layer and direction, are those its
\* sequences end in alone, in the caller's order, with cells exactly for LSTM.
THEOREM StatesAreThoseAlone ==
  ASSUME NoneIsNoSequence
  PROVE  SequenceSpec => []StatesAreAlone
<1>1. SequenceSpec => []SequenceInv
  BY SequenceInvariance
<1>2. SequenceInv => StatesAreAlone
  BY StatesFollow
<1> QED
  BY <1>1, <1>2, PTL
=============================================================================
