---------------------------- MODULE CallTreeProofs ----------------------------
(***************************************************************************)
(* Theorems about the call tree, for every value of the constants.         *)
(*                                                                         *)
(* Part I is about EvmCallTree alone: the shape of its state; the gas      *)
(* pool, what its exhaustion means for the answer and for Redis, and that  *)
(* the call tree implements GasPool; the frames, how deep they nest, what  *)
(* a static frame passes on, whose storage is written, how far they        *)
(* overdraw the pool before the answer, and that SELFDESTRUCT, which moves *)
(* balance, adds none where its doubles are exact.                         *)
(*                                                                         *)
(* Part II is about CallAgreement, the call tree beside the reference's.   *)
(* Its steps are EvmCallTree's; evm.lua's storage and balances are the     *)
(* reference's; the trees part only where the list says; and as long as    *)
(* they have one shape, return data, transient storage and logs are what   *)
(* the reference would show.  Its second half rests on one lemma,          *)
(* StepsInStep: a step of both sides either is in Lockstep, which lists    *)
(* what the two stacks, the tables and the reference's state can do        *)
(* together, or is one of the differences.  Each invariant then has one    *)
(* step per form of Lockstep.                                              *)
(***************************************************************************)
EXTENDS CallAgreement, SequenceTheorems, FiniteSetTheorems, TLAPS

------------------------------------------------------------------------------
(***************************************************************************)
(*                       Part I: EvmCallTree                               *)
(***************************************************************************)

(***************************************************************************)
(* Doubles: a number within MaxExact is its own.                           *)
(***************************************************************************)
LEMMA SpacingFacts ==
  ASSUME NEW v \in 0 .. MaxLong - 1
  PROVE  /\ Spacing(v) \in Spacings
         /\ v <= MaxExact => Spacing(v) = 1
<1>1. MaxExact \in Nat /\ MaxExact >= 2 /\ v \in Int /\ v <= 1024 * MaxExact
  BY ExactAssumption DEF MaxLong
<1> DEFINE Fits(u) == v <= u * MaxExact
<1>2. \E u \in Spacings : Fits(u) /\ \A w \in Spacings : Fits(w) => u <= w
  <2>1. Fits(1024)
    BY <1>1
  <2> HIDE DEF Fits
  <2> QED  BY <2>1 DEF Spacings
<1>3. v <= MaxExact => \A u \in Spacings : (Fits(u) /\ \A w \in Spacings : Fits(w) => u <= w) => u = 1
  BY <1>1 DEF Spacings
<1>4. /\ Spacing(v) \in Spacings
      /\ Fits(Spacing(v)) /\ \A w \in Spacings : Fits(w) => Spacing(v) <= w
  BY <1>2 DEF Spacing
<1> QED  BY <1>3, <1>4

LEMMA NearestFacts ==
  ASSUME NEW v \in 0 .. MaxLong - 1
  PROVE  /\ Nearest(v) \in Int
         /\ v <= MaxExact => Nearest(v) = v
<1>1. Spacing(v) \in Spacings /\ (v <= MaxExact => Spacing(v) = 1)
  BY SpacingFacts
<1>2. v \in Nat
  BY ExactAssumption DEF MaxLong
<1>3. Nearest(v) \in Int
  BY <1>1, <1>2 DEF Nearest, Spacings
<1>4. v \div 1 = v /\ v % 1 = 0
  BY <1>2
<1>5. v <= MaxExact => Nearest(v) = v
  BY <1>1, <1>2, <1>4 DEF Nearest
<1> QED  BY <1>3, <1>5

LEMMA DoubleFacts ==
  ASSUME NEW v \in Int
  PROVE  /\ Double(v) \in Int
         /\ v \in 0 .. MaxExact => Double(v) = v
<1>1. MaxExact \in Nat /\ MaxExact >= 2 /\ MaxLong \in Nat /\ MaxLong > MaxExact
  BY ExactAssumption DEF MaxLong
<1>2. CASE v >= MaxLong \/ v <= -MaxLong
  BY <1>1, <1>2 DEF Double
<1>3. CASE v \in 0 .. MaxLong - 1
  <2>1. Double(v) = Nearest(v)
    BY <1>1, <1>3 DEF Double
  <2> QED  BY <1>3, <2>1, NearestFacts
<1>4. CASE v \in -MaxLong + 1 .. -1
  <2>1. Double(v) = -Nearest(-v)
    BY <1>1, <1>4 DEF Double
  <2>2. -v \in 0 .. MaxLong - 1
    BY <1>1, <1>4
  <2>3. Nearest(-v) \in Int
    BY <2>2, NearestFacts
  <2> QED  BY <1>4, <2>1, <2>3
<1> QED  BY <1>1, <1>2, <1>3, <1>4

LEMMA FormatsInt ==
  ASSUME NEW v \in Int
  PROVE  Formats(v) \subseteq Int
<1>1. MaxLong \in Nat
  BY ExactAssumption DEF MaxLong
<1> QED  BY <1>1 DEF Formats

(***************************************************************************)
(* The four shapes in which an action changes the frames: the innermost    *)
(* one is updated, one is opened on top of it, it is closed and the one    *)
(* below goes on, or a top-level frame is opened.                          *)
(***************************************************************************)

\* What FramesOK says of one frame.
LEMMA FrameAt ==
  ASSUME NEW fs, FramesOK(fs), NEW i \in 1 .. Len(fs)
  PROVE  /\ fs[i] \in Frame
         /\ fs[i].depth = i - 1
         /\ i = 1 => fs[i].kind = "TOP"
         /\ i > 1 => fs[i].kind # "TOP"
         /\ i < Len(fs) => fs[i].status = "run"
<1>1. fs[i] \in Frame
  BY ElementOfSeq DEF FramesOK
<1> QED  BY <1>1 DEF FramesOK

\* A sequence that agrees with well-formed frames below its last element is well formed
\* when that element has the depth and the kind of its place.
LEMMA SameBelow ==
  ASSUME NEW fs, FramesOK(fs),
         NEW gs \in Seq(Frame),
         NEW m \in Nat, Len(gs) = m + 1, m <= Len(fs),
         \A i \in 1 .. m : gs[i] = fs[i] /\ fs[i].status = "run",
         gs[m + 1].depth = m,
         m = 0 => gs[m + 1].kind = "TOP",
         m > 0 => gs[m + 1].kind # "TOP"
  PROVE  FramesOK(gs)
<1>1. Len(fs) \in Nat
  BY LenProperties DEF FramesOK
<1>2. ASSUME NEW i \in 1 .. Len(gs)
      PROVE  /\ gs[i].depth = i - 1
             /\ i = 1 => gs[i].kind = "TOP"
             /\ i > 1 => gs[i].kind # "TOP"
             /\ i < Len(gs) => gs[i].status = "run"
  <2>1. CASE i = m + 1
    BY <2>1
  <2>2. CASE i # m + 1
    <3>1. i \in 1 .. m /\ i \in 1 .. Len(fs)
      BY <2>2, <1>1
    <3> QED  BY <3>1, FrameAt
  <2> QED  BY <2>1, <2>2
<1> QED  BY <1>2 DEF FramesOK

\* Updating the innermost frame.
LEMMA UpdateTop ==
  ASSUME NEW fs, FramesOK(fs), fs # <<>>,
         NEW f \in Frame,
         f.depth = fs[Len(fs)].depth, f.kind = fs[Len(fs)].kind
  PROVE  LET gs == [fs EXCEPT ![Len(fs)] = f]
         IN  /\ FramesOK(gs)
             /\ Len(gs) = Len(fs)
             /\ gs[Len(fs)] = f
             /\ \A i \in 1 .. Len(fs) - 1 : gs[i] = fs[i]
<1> DEFINE gs == [fs EXCEPT ![Len(fs)] = f]
           m == Len(fs) - 1
<1>1. fs \in Seq(Frame) /\ m \in Nat /\ Len(fs) = m + 1
  BY EmptySeq, LenProperties DEF FramesOK
<1> HIDE DEF m
<1>2. Len(fs) \in 1 .. Len(fs)
  BY <1>1
<1>3. /\ gs \in Seq(Frame)
      /\ Len(gs) = Len(fs)
      /\ \A i \in 1 .. Len(fs) : gs[i] = IF i = Len(fs) THEN f ELSE fs[i]
  BY <1>1, <1>2, ExceptSeq
<1> HIDE DEF gs
<1>4. gs[m + 1] = f /\ \A i \in 1 .. m : gs[i] = fs[i] /\ fs[i].status = "run"
  <2>1. gs[m + 1] = f
    BY <1>1, <1>3
  <2>2. ASSUME NEW i \in 1 .. m
        PROVE  gs[i] = fs[i] /\ fs[i].status = "run"
    <3>1. i \in 1 .. Len(fs) /\ i < Len(fs) /\ i # Len(fs)
      BY <1>1
    <3> QED  BY <3>1, <1>3, FrameAt
  <2> QED  BY <2>1, <2>2
<1>5. /\ fs[m + 1].depth = m
      /\ m = 0 => fs[m + 1].kind = "TOP"
      /\ m > 0 => fs[m + 1].kind # "TOP"
  BY <1>1, FrameAt
<1>6. FramesOK(gs)
  BY <1>1, <1>3, <1>4, <1>5, SameBelow
<1> QED  BY <1>1, <1>3, <1>4, <1>6 DEF gs

\* Opening a nested frame above a running one.
LEMMA OpenFrame ==
  ASSUME NEW fs, FramesOK(fs), fs # <<>>, fs[Len(fs)].status = "run",
         NEW f \in Frame,
         f.depth = fs[Len(fs)].depth + 1, f.kind # "TOP"
  PROVE  LET gs == Append(fs, f)
         IN  /\ FramesOK(gs)
             /\ Len(gs) = Len(fs) + 1
             /\ gs[Len(fs) + 1] = f
             /\ \A i \in 1 .. Len(fs) : gs[i] = fs[i]
<1> DEFINE gs == Append(fs, f)
<1>1. fs \in Seq(Frame) /\ Len(fs) \in Nat /\ Len(fs) > 0
  BY EmptySeq, LenProperties DEF FramesOK
<1>2. /\ gs \in Seq(Frame)
      /\ Len(gs) = Len(fs) + 1
      /\ gs[Len(fs) + 1] = f
      /\ \A i \in 1 .. Len(fs) : gs[i] = fs[i]
  BY <1>1, AppendProperties
<1> HIDE DEF gs
<1>3. fs[Len(fs)].depth = Len(fs) - 1
  BY <1>1, FrameAt
<1>4. \A i \in 1 .. Len(fs) : fs[i].status = "run"
  BY <1>1, FrameAt
<1>5. f.depth = Len(fs)
  BY <1>1, <1>3
<1>6. FramesOK(gs)
  BY <1>1, <1>2, <1>4, <1>5, SameBelow
<1> QED  BY <1>2, <1>6 DEF gs

\* A positive natural number is 1 or more.
LEMMA OneOrMore ==
  ASSUME NEW n \in Nat, n > 0
  PROVE  n = 1 \/ n >= 2
  BY SMT

\* Closing the innermost frame and updating the one below it.
LEMMA CloseFrame ==
  ASSUME NEW fs, FramesOK(fs), fs # <<>>, fs[Len(fs)].kind # "TOP",
         NEW f \in Frame,
         f.depth = fs[Len(fs) - 1].depth, f.kind = fs[Len(fs) - 1].kind
  PROVE  LET gs == [SubSeq(fs, 1, Len(fs) - 1) EXCEPT ![Len(fs) - 1] = f]
         IN  /\ FramesOK(gs)
             /\ Len(gs) = Len(fs) - 1
             /\ gs[Len(fs) - 1] = f
             /\ \A i \in 1 .. Len(fs) - 2 : gs[i] = fs[i]
<1> DEFINE m == Len(fs) - 2
           sub == SubSeq(fs, 1, Len(fs) - 1)
           gs == [sub EXCEPT ![Len(fs) - 1] = f]
<1>1. fs \in Seq(Frame) /\ Len(fs) \in Nat /\ Len(fs) > 0
  BY EmptySeq, LenProperties DEF FramesOK
<1>2. m \in Nat /\ Len(fs) = m + 2 /\ Len(fs) - 1 = m + 1
  <2>1. Len(fs) = 1 => fs[Len(fs)].kind = "TOP"
    BY <1>1, FrameAt
  <2>2. Len(fs) = 1 \/ Len(fs) >= 2
    BY <1>1, OneOrMore
  <2>3. Len(fs) >= 2
    BY <2>1, <2>2
  <2> QED  BY <1>1, <2>3
<1> HIDE DEF m
<1>3. sub \in Seq(Frame) /\ Len(sub) = m + 1 /\ \A i \in 1 .. m + 1 : sub[i] = fs[i]
  <2>1. \A i \in 1 .. m + 1 : fs[i] \in Frame
    BY <1>1, <1>2, ElementOfSeq
  <2> QED  BY <1>2, <2>1, SubSeqProperties
<1> HIDE DEF sub
<1>4. m + 1 \in 1 .. Len(sub)
  BY <1>2, <1>3
<1>5. /\ gs \in Seq(Frame)
      /\ Len(gs) = m + 1
      /\ \A i \in 1 .. m + 1 : gs[i] = IF i = m + 1 THEN f ELSE sub[i]
  BY <1>2, <1>3, <1>4, ExceptSeq
<1> HIDE DEF gs
<1>6. \A i \in 1 .. m + 1 : fs[i].status = "run"
  <2>1. \A i \in 1 .. m + 1 : i \in 1 .. Len(fs) - 1
    BY <1>2
  <2> QED  BY <1>1, <2>1 DEF FramesOK
<1>7. gs[m + 1] = f /\ \A i \in 1 .. m : gs[i] = fs[i]
  BY <1>2, <1>3, <1>5
<1>8. /\ fs[m + 1].depth = m
      /\ m = 0 => fs[m + 1].kind = "TOP"
      /\ m > 0 => fs[m + 1].kind # "TOP"
  BY <1>2, FrameAt
<1>9. f.depth = fs[m + 1].depth /\ f.kind = fs[m + 1].kind
  BY <1>2
<1>10. FramesOK(gs)
  BY <1>1, <1>2, <1>5, <1>6, <1>7, <1>8, <1>9, SameBelow
<1>11. Len(fs) - 2 = m
  BY <1>2
<1> QED  BY <1>2, <1>5, <1>7, <1>10, <1>11 DEF gs, sub

------------------------------------------------------------------------------
(***************************************************************************)
(* Type correctness.                                                       *)
(***************************************************************************)

\* The innermost frame of a call in progress.
LEMMA TopFacts ==
  ASSUME TypeOK, ~Idle
  PROVE  /\ Len(frames) \in Nat
         /\ Len(frames) >= 1
         /\ Top \in Frame
         /\ Top.depth = Len(frames) - 1
         /\ Len(frames) = 1 => Top.kind = "TOP"
         /\ Len(frames) > 1 => Top.kind # "TOP"
         /\ Len(frames) = 1 \/ Len(frames) >= 2
<1>1. frames # <<>> /\ FramesOK(frames)
  BY DEF Idle, TypeOK
<1>2. Len(frames) \in Nat /\ Len(frames) >= 1
  BY <1>1, EmptySeq, LenProperties DEF FramesOK
<1>3. Len(frames) \in 1 .. Len(frames)
  BY <1>2
<1> QED  BY <1>1, <1>2, <1>3, FrameAt DEF Top

\* The frame below a nested one.
LEMMA BelowFacts ==
  ASSUME TypeOK, ~Idle, Top.kind # "TOP"
  PROVE  /\ Len(frames) >= 2
         /\ Below \in Frame
         /\ Below.status = "run"
         /\ Below.depth = Len(frames) - 2
<1>0. Len(frames) \in Nat
  BY TopFacts
<1>1. Len(frames) >= 2
  BY TopFacts
<1>2. Len(frames) - 1 \in 1 .. Len(frames) /\ Len(frames) - 1 < Len(frames)
  BY <1>0, <1>1
<1>3. FramesOK(frames)
  BY DEF TypeOK
<1>4. /\ frames[Len(frames) - 1] \in Frame
      /\ frames[Len(frames) - 1].depth = Len(frames) - 1 - 1
      /\ frames[Len(frames) - 1].status = "run"
  BY <1>2, <1>3, FrameAt
<1> QED  BY <1>0, <1>1, <1>4 DEF Below

\* A charge, whether the pool covers it or not, is an integer of the opcode's class.
LEMMA ChargeFacts ==
  ASSUME TypeOK, NEW op \in Ops, Charge(op)
  PROVE  /\ ~Idle
         /\ Top.status = "run"
         /\ gasUsed' \in Int
         /\ gasUsed' <= GasCap
         /\ OnlyPlainRefills /\ op # "plain" => gasUsed' >= gasUsed
<1>0. /\ ~Idle /\ Top.status = "run" /\ gasUsed \in Int
      /\ GasCap \in Nat /\ Bottomless \in Int /\ Bottomless <= GasCap
  BY GasAssumption DEF Charge, HasOpcode, Running, TypeOK, Bottomless
<1>1. CASE gasUsed # Bottomless /\ \E c \in OpCosts[op] : gasUsed' = gasUsed + c /\ gasUsed' <= GasCap
  <2>1. PICK c \in OpCosts[op] : gasUsed' = gasUsed + c /\ gasUsed' <= GasCap
    BY <1>1
  <2>2. c \in Int /\ (OnlyPlainRefills /\ op # "plain" => c \in Nat)
    BY GasAssumption DEF OnlyPlainRefills
  <2> QED  BY <1>0, <2>1, <2>2
<1>2. CASE (gasUsed = Bottomless \/ op \in InfiniteOps) /\ gasUsed' = Bottomless
  <2>1. OnlyPlainRefills /\ op # "plain" => gasUsed = Bottomless
    BY <1>2 DEF OnlyPlainRefills
  <2> QED  BY <1>0, <1>2, <2>1
<1> QED  BY <1>1, <1>2 DEF Charge

\* An update of the innermost frame that keeps what identifies it.
LEMMA SetTopOK ==
  ASSUME TypeOK, ~Idle, UNCHANGED nonce,
         NEW f \in Frame, SetTop(f),
         f.depth = Top.depth, f.kind = Top.kind, f.addr = Top.addr, f.salt = Top.salt
  PROVE  /\ FramesOK(frames')
         /\ CreationsNamed(frames', nonce')
         /\ Len(frames') = Len(frames)
         /\ frames'[Len(frames)] = f
         /\ \A i \in 1 .. Len(frames) - 1 : frames'[i] = frames[i]
<1>1. /\ FramesOK(frames')
      /\ Len(frames') = Len(frames)
      /\ frames'[Len(frames)] = f
      /\ \A i \in 1 .. Len(frames) - 1 : frames'[i] = frames[i]
  <2>1. FramesOK(frames) /\ frames # <<>>
    BY DEF TypeOK, Idle
  <2>2. f.depth = frames[Len(frames)].depth /\ f.kind = frames[Len(frames)].kind
    BY DEF Top
  <2> DEFINE gs == [frames EXCEPT ![Len(frames)] = f]
  <2>3. /\ FramesOK(gs)
        /\ Len(gs) = Len(frames)
        /\ gs[Len(frames)] = f
        /\ \A i \in 1 .. Len(frames) - 1 : gs[i] = frames[i]
    BY <2>1, <2>2, UpdateTop
  <2>4. frames' = gs
    BY DEF SetTop
  <2> HIDE DEF gs
  <2> QED  BY <2>3, <2>4
<1>2. ASSUME NEW i \in 1 .. Len(frames)
      PROVE  /\ frames'[i].kind = frames[i].kind
             /\ frames'[i].addr = frames[i].addr
             /\ frames'[i].salt = frames[i].salt
  BY <1>1, TopFacts DEF Top
<1>3. CreationsNamed(frames', nonce')
  <2> SUFFICES ASSUME NEW i \in 2 .. Len(frames)
               PROVE  /\ frames'[i].kind \in CreateKinds => frames'[i - 1].addr \in Creators
                      /\ frames'[i].kind = "CREATE" => nonce + i - 1 <= MaxNonce
                      /\ frames'[i].kind = "CREATE2" => frames'[i].salt \in Salts
    BY <1>1 DEF CreationsNamed
  <2>1. i \in 1 .. Len(frames) /\ i - 1 \in 1 .. Len(frames)
    BY TopFacts
  <2> QED  BY <2>1, <1>2 DEF CreationsNamed, TypeOK
<1> QED  BY <1>1, <1>3

\* A frame opened above the innermost one.
LEMMA AppendOK ==
  ASSUME TypeOK, ~Idle, Top.status = "run", UNCHANGED nonce,
         NEW f \in Frame, frames' = Append(frames, f),
         f.depth = Top.depth + 1, f.kind # "TOP",
         f.kind \in CreateKinds => Top.addr \in Creators,
         f.kind = "CREATE" => nonce + Len(frames) <= MaxNonce,
         f.kind = "CREATE2" => f.salt \in Salts
  PROVE  /\ FramesOK(frames')
         /\ CreationsNamed(frames', nonce')
         /\ Len(frames') = Len(frames) + 1
         /\ frames'[Len(frames) + 1] = f
         /\ \A i \in 1 .. Len(frames) : frames'[i] = frames[i]
<1>1. /\ FramesOK(frames')
      /\ Len(frames') = Len(frames) + 1
      /\ frames'[Len(frames) + 1] = f
      /\ \A i \in 1 .. Len(frames) : frames'[i] = frames[i]
  <2> DEFINE gs == Append(frames, f)
  <2>1. FramesOK(frames) /\ frames # <<>>
    BY DEF TypeOK, Idle
  <2>2. /\ FramesOK(gs)
        /\ Len(gs) = Len(frames) + 1
        /\ gs[Len(frames) + 1] = f
        /\ \A i \in 1 .. Len(frames) : gs[i] = frames[i]
    BY <2>1, OpenFrame DEF Top
  <2>3. frames' = gs
    OBVIOUS
  <2> HIDE DEF gs
  <2> QED  BY <2>2, <2>3
<1>2. CreationsNamed(frames', nonce')
  <2> SUFFICES ASSUME NEW i \in 2 .. Len(frames) + 1
               PROVE  /\ frames'[i].kind \in CreateKinds => frames'[i - 1].addr \in Creators
                      /\ frames'[i].kind = "CREATE" => nonce + i - 1 <= MaxNonce
                      /\ frames'[i].kind = "CREATE2" => frames'[i].salt \in Salts
    BY <1>1 DEF CreationsNamed
  <2>1. Len(frames) \in Nat /\ Len(frames) >= 1 /\ nonce \in Int
    BY TopFacts DEF TypeOK
  <2>2. CASE i = Len(frames) + 1
    <3>1. frames'[i] = f /\ frames'[i - 1] = Top
      BY <2>1, <2>2, <1>1 DEF Top
    <3> QED  BY <3>1, <2>1, <2>2
  <2>3. CASE i # Len(frames) + 1
    <3>1. i \in 2 .. Len(frames) /\ frames'[i] = frames[i] /\ frames'[i - 1] = frames[i - 1]
      BY <2>1, <2>3, <1>1
    <3> QED  BY <3>1 DEF CreationsNamed, TypeOK
  <2> QED  BY <2>2, <2>3
<1> QED  BY <1>1, <1>2

\* The innermost frame closed; the one below keeps what identifies it.
LEMMA ResumeOK ==
  ASSUME TypeOK, ~Idle, Top.kind # "TOP",
         nonce' = nonce \/ (nonce' = nonce + 1 /\ Top.kind = "CREATE"),
         NEW f \in Frame, Resume(f),
         f.depth = Below.depth, f.kind = Below.kind, f.addr = Below.addr, f.salt = Below.salt
  PROVE  /\ FramesOK(frames')
         /\ CreationsNamed(frames', nonce')
         /\ Len(frames') = Len(frames) - 1
         /\ frames'[Len(frames) - 1] = f
         /\ \A i \in 1 .. Len(frames) - 2 : frames'[i] = frames[i]
<1>1. /\ FramesOK(frames')
      /\ Len(frames') = Len(frames) - 1
      /\ frames'[Len(frames) - 1] = f
      /\ \A i \in 1 .. Len(frames) - 2 : frames'[i] = frames[i]
  <2> DEFINE gs == [SubSeq(frames, 1, Len(frames) - 1) EXCEPT ![Len(frames) - 1] = f]
  <2>1. FramesOK(frames) /\ frames # <<>>
    BY DEF TypeOK, Idle
  <2>2. /\ FramesOK(gs)
        /\ Len(gs) = Len(frames) - 1
        /\ gs[Len(frames) - 1] = f
        /\ \A i \in 1 .. Len(frames) - 2 : gs[i] = frames[i]
    BY <2>1, CloseFrame DEF Top, Below
  <2>3. frames' = gs
    BY DEF Resume
  <2> HIDE DEF gs
  <2> QED  BY <2>2, <2>3
<1>2. ASSUME NEW i \in 1 .. Len(frames) - 1
      PROVE  /\ frames'[i].kind = frames[i].kind
             /\ frames'[i].addr = frames[i].addr
             /\ frames'[i].salt = frames[i].salt
  <2>1. Len(frames) \in Nat /\ Len(frames) >= 2
    BY TopFacts, BelowFacts
  <2>2. CASE i = Len(frames) - 1
    BY <2>2, <1>1 DEF Below
  <2>3. CASE i # Len(frames) - 1
    BY <2>1, <2>3, <1>1
  <2> QED  BY <2>2, <2>3
<1>3. CreationsNamed(frames', nonce')
  <2> SUFFICES ASSUME NEW i \in 2 .. Len(frames) - 1
               PROVE  /\ frames'[i].kind \in CreateKinds => frames'[i - 1].addr \in Creators
                      /\ frames'[i].kind = "CREATE" => nonce' + i - 1 <= MaxNonce
                      /\ frames'[i].kind = "CREATE2" => frames'[i].salt \in Salts
    BY <1>1 DEF CreationsNamed
  <2>1. /\ i \in 2 .. Len(frames)
        /\ i \in 1 .. Len(frames) - 1
        /\ i - 1 \in 1 .. Len(frames) - 1
        /\ i <= Len(frames) - 1
    BY TopFacts
  <2>2. frames'[i].kind = "CREATE" => nonce' + i - 1 <= MaxNonce
    <3> HAVE frames'[i].kind = "CREATE"
    <3>1. nonce + i - 1 <= MaxNonce /\ nonce \in Int /\ MaxNonce \in Int
      <4>1. frames[i].kind = "CREATE" /\ CreationsNamed(frames, nonce) /\ nonce \in 0 .. MaxNonce
        BY <1>2, <2>1 DEF TypeOK
      <4> QED  BY <4>1, <2>1, SeedAssumption DEF CreationsNamed
    <3>2. CASE nonce' = nonce
      BY <3>1, <3>2
    <3>3. CASE nonce' = nonce + 1 /\ Top.kind = "CREATE"
      <4>1. nonce + Len(frames) - 1 <= MaxNonce
        BY <3>3, BelowFacts, TopFacts DEF CreationsNamed, TypeOK, Top
      <4> QED  BY <4>1, <3>1, <3>3, <2>1, TopFacts
    <3> QED  BY <3>2, <3>3
  <2> QED  BY <2>1, <2>2, <1>2 DEF CreationsNamed, TypeOK
<1> QED  BY <1>1, <1>3

\* The initial state, between calls.
LEMMA InitTypeOK == Init => TypeOK
<1> SUFFICES ASSUME Init PROVE TypeOK
  OBVIOUS
<1>1. FramesOK(frames) /\ CreationsNamed(frames, nonce)
  BY EmptySeq DEF Init, FramesOK, CreationsNamed
<1>2. nonce \in 0 .. MaxNonce
  BY SeedAssumption DEF Init
<1> QED  BY <1>1, <1>2, DataAssumption DEF Init, TypeOK, CodeVals

\* An action that updates the innermost frame and writes at most to Redis keys.
LEMMA UpdateTypeOK ==
  ASSUME TypeOK, ~Idle,
         NEW f \in Frame, SetTop(f),
         f.depth = Top.depth, f.kind = Top.kind, f.addr = Top.addr, f.salt = Top.salt,
         gasUsed' \in Int, UNCHANGED <<reply, nonce>>,
         storage' \in [Addrs -> [Slots -> Words]],
         code' \in [Addrs -> CodeVals],
         balance' \in [Addrs -> Int]
  PROVE  TypeOK'
<1>1. FramesOK(frames') /\ CreationsNamed(frames', nonce')
  BY SetTopOK
<1> QED  BY <1>1 DEF TypeOK

\* The innermost frame after it halted, or after its buffer or its flag was set.
TopEdits(st, d, fl) ==
  {[Top EXCEPT !.status = st],
   [Top EXCEPT !.status = st, !.rdata = d],
   [Top EXCEPT !.rdata = d, !.flag = fl],
   [Top EXCEPT !.flag = fl]}

LEMMA EditedTop ==
  ASSUME TypeOK, ~Idle, NEW st \in Statuses, NEW d \in Data, NEW fl \in Flags,
         NEW f \in TopEdits(st, d, fl)
  PROVE  /\ f \in Frame
         /\ f.depth = Top.depth /\ f.kind = Top.kind /\ f.addr = Top.addr /\ f.salt = Top.salt
<1>1. Top \in Frame
  BY TopFacts
<1> QED  BY <1>1 DEF Frame, TopEdits

\* An action that only edits the innermost frame.
LEMMA EditTypeOK ==
  ASSUME TypeOK, ~Idle, gasUsed' \in Int, UNCHANGED <<reply, world>>,
         NEW st \in Statuses, NEW d \in Data, NEW fl \in Flags,
         NEW f \in TopEdits(st, d, fl), SetTop(f)
  PROVE  TypeOK'
<1>1. /\ f \in Frame
      /\ f.depth = Top.depth /\ f.kind = Top.kind /\ f.addr = Top.addr /\ f.salt = Top.salt
  BY EditedTop
<1>2. /\ UNCHANGED <<reply, nonce>>
      /\ storage' \in [Addrs -> [Slots -> Words]]
      /\ code' \in [Addrs -> CodeVals]
      /\ balance' \in [Addrs -> Int]
  BY DEF world, TypeOK
<1> QED  BY <1>1, <1>2, UpdateTypeOK

\* A halt with or without output.
LEMMA HaltTypeOK ==
  ASSUME TypeOK, ~Idle, gasUsed' \in Int, UNCHANGED <<reply, world>>,
         NEW st \in Statuses, NEW d \in Data,
         Halt(st) \/ HaltWith(st, d)
  PROVE  TypeOK'
<1>1. PICK f \in TopEdits(st, d, "none") : SetTop(f)
  BY DEF Halt, HaltWith, TopEdits
<1>2. "none" \in Flags
  BY DEF Flags
<1> QED  BY <1>1, <1>2, EditTypeOK

\* A call or creation that ends before a nested frame runs.
LEMMA FlagTypeOK ==
  ASSUME TypeOK, ~Idle, gasUsed' \in Int, UNCHANGED <<reply, world>>,
         NEW d \in Data, NEW fl \in Flags,
         \/ SetTop([Top EXCEPT !.rdata = d, !.flag = fl])
         \/ SetTop([Top EXCEPT !.flag = fl])
  PROVE  TypeOK'
<1>1. PICK f \in TopEdits("run", d, fl) : SetTop(f)
  BY DEF TopEdits
<1>2. "run" \in Statuses
  BY DEF Statuses
<1> QED  BY <1>1, <1>2, EditTypeOK

\* The opcodes that touch one frame.
LEMMA LocalTypeOK ==
  ASSUME TypeOK,
         \/ Plain \/ Stop \/ BadJump \/ UnknownOpcode
         \/ \E s \in Slots, w \in Words : SStore(s, w)
         \/ \E d \in Data : Return(d) \/ Revert(d)
         \/ \E op \in {"INVALID", "plain"} : Abort(op)
         \/ \E op \in Ops : OutOfGas(op)
         \/ Hang
         \/ \E b \in Addrs : SelfDestruct(b)
  PROVE  TypeOK'
<1>0. /\ {"plain", "SSTORE", "STOP", "badjump", "RETURN", "REVERT", "INVALID", "SELFDESTRUCT"}
           \subseteq Ops
      /\ {"stopped", "returned", "reverted", "failed", "stuck"} \subseteq Statuses
      /\ Empty \in Data
  BY DEF Ops, HaltOps, Statuses, Data
<1>1. CASE Plain
  <2>1. ~Idle /\ gasUsed' \in Int
    BY <1>0, <1>1, ChargeFacts DEF Plain
  <2> QED  BY <2>1, <1>1 DEF Plain, TypeOK, world
<1>2. CASE Stop \/ BadJump
  <2>1. ~Idle /\ gasUsed' \in Int
    BY <1>0, <1>2, ChargeFacts DEF Stop, BadJump
  <2>2. UNCHANGED <<reply, world>> /\ Halt("stopped")
    BY <1>2 DEF Stop, BadJump
  <2> QED  BY <1>0, <2>1, <2>2, HaltTypeOK
<1>3. CASE UnknownOpcode
  <2>1. ~Idle /\ gasUsed' \in Int /\ UNCHANGED <<reply, world>> /\ Halt("failed")
    BY <1>3 DEF UnknownOpcode, Running, TypeOK
  <2> QED  BY <1>0, <2>1, HaltTypeOK
<1>4. ASSUME NEW s \in Slots, NEW w \in Words, SStore(s, w)
      PROVE  TypeOK'
  <2>1. ~Idle /\ gasUsed' \in Int
    BY <1>0, <1>4, ChargeFacts DEF SStore
  <2>2. Top.addr \in Addrs
    BY <2>1, TopFacts DEF Frame
  <2>3. storage' \in [Addrs -> [Slots -> Words]]
    BY <1>4, <2>2 DEF SStore, TypeOK
  <2> QED  BY <1>4, <2>1, <2>3 DEF SStore, TypeOK
<1>5. ASSUME NEW d \in Data, Return(d) \/ Revert(d)
      PROVE  TypeOK'
  <2>1. ~Idle /\ gasUsed' \in Int
    BY <1>0, <1>5, ChargeFacts DEF Return, Revert
  <2>2. /\ UNCHANGED <<reply, world>>
        /\ HaltWith("returned", d) \/ HaltWith("reverted", d)
    BY <1>5 DEF Return, Revert
  <2> QED  BY <1>0, <2>1, <2>2, HaltTypeOK
<1>6. ASSUME NEW op \in {"INVALID", "plain"}, Abort(op)
      PROVE  TypeOK'
  <2>1. ~Idle /\ gasUsed' \in Int
    BY <1>0, <1>6, ChargeFacts DEF Abort
  <2>2. UNCHANGED <<reply, world>> /\ Halt("failed")
    BY <1>6 DEF Abort
  <2> QED  BY <1>0, <2>1, <2>2, HaltTypeOK
<1>7. ASSUME NEW op \in Ops, OutOfGas(op)
      PROVE  TypeOK'
  <2>1. PICK c \in OpCosts[op] : gasUsed' = gasUsed + c
    BY <1>7 DEF OutOfGas
  <2>2. c \in Int
    BY GasAssumption
  <2>3. gasUsed' \in Int
    BY <2>1, <2>2 DEF TypeOK
  <2>4. ~Idle /\ UNCHANGED <<reply, world>> /\ Halt("failed")
    BY <1>7 DEF OutOfGas, HasOpcode, Running
  <2> QED  BY <1>0, <2>3, <2>4, HaltTypeOK
<1>8. ASSUME NEW b \in Addrs, SelfDestruct(b)
      PROVE  TypeOK'
  <2>1. ~Idle /\ gasUsed' \in Int
    BY <1>0, <1>8, ChargeFacts DEF SelfDestruct
  <2>2. Top.addr \in Addrs
    BY <2>1, TopFacts DEF Frame
  <2>3. balance' \in [Addrs -> Int]
    <3>1. balance \in [Addrs -> Int] /\ balance[b] \in Int /\ balance[Top.addr] \in Int
      BY <2>2 DEF TypeOK
    <3> DEFINE sum == Double(Double(balance[b]) + Double(balance[Top.addr]))
    <3>2. Formats(sum) \subseteq Int
      BY <3>1, DoubleFacts, FormatsInt
    <3>3. \/ \E n \in Formats(sum) : balance' = [[balance EXCEPT ![b] = n] EXCEPT ![Top.addr] = 0]
          \/ balance' = balance
      BY <1>8 DEF SelfDestruct
    <3> HIDE DEF sum
    <3> QED  BY <2>2, <3>1, <3>2, <3>3
  <2>4. code' \in [Addrs -> CodeVals]
    BY <1>8, <2>2 DEF SelfDestruct, TypeOK, CodeVals
  <2>5. PICK f \in TopEdits("stopped", Empty, "none") : SetTop(f)
    BY <1>8 DEF SelfDestruct, Halt, TopEdits
  <2>6. "none" \in Flags
    BY DEF Flags
  <2>7. /\ f \in Frame
        /\ f.depth = Top.depth /\ f.kind = Top.kind /\ f.addr = Top.addr /\ f.salt = Top.salt
    BY <1>0, <2>1, <2>6, EditedTop
  <2>8. UNCHANGED <<reply, nonce>> /\ storage' \in [Addrs -> [Slots -> Words]]
    BY <1>8 DEF SelfDestruct, TypeOK
  <2> QED  BY <2>1, <2>3, <2>4, <2>5, <2>7, <2>8, UpdateTypeOK
<1>9. CASE Hang
  <2>1. ~Idle /\ gasUsed' \in Int
    BY <1>0, <1>9, ChargeFacts DEF Hang, HasOpcode, Running, TypeOK
  <2>2. UNCHANGED <<reply, world>> /\ Halt("stuck")
    BY <1>9 DEF Hang
  <2> QED  BY <1>0, <2>1, <2>2, HaltTypeOK
<1> QED  BY <1>1, <1>2, <1>3, <1>4, <1>5, <1>6, <1>7, <1>8, <1>9

\* The code a call runs, and whom it can be charged to.
LEMMA CodeFacts ==
  ASSUME TypeOK, NEW a \in Addrs
  PROVE  /\ LookupCode(a) \in CodeVals
         /\ LookupCode(a) # NoCode => LookupCode(a) \in Data
         /\ (IF Installed[a] = NoCode THEN Empty ELSE Installed[a]) \in Data
<1>1. Installed[a] \in CodeVals /\ code[a] \in CodeVals
  BY DataAssumption DEF TypeOK
<1> QED  BY <1>1 DEF LookupCode, CodeVals, Data

\* A fresh frame.
LEMMA FreshFacts ==
  ASSUME NEW addr \in Addrs, NEW kind \in {"TOP"} \cup CallKinds \cup CreateKinds,
         NEW depth \in Nat, NEW static \in BOOLEAN, NEW bytes \in Data,
         NEW salt \in Salts \cup {0}
  PROVE  LET f == Fresh(addr, kind, depth, static, bytes, salt)
         IN  /\ f \in Frame
             /\ f.addr = addr /\ f.kind = kind /\ f.depth = depth /\ f.static = static
             /\ f.salt = salt /\ f.status = "run"
BY DEF Fresh, Frame, Data, Flags, Statuses

\* A nested frame.
LEMMA OpenTypeOK ==
  ASSUME TypeOK, ~Idle, Top.status = "run", gasUsed' \in Int, UNCHANGED <<reply, world>>,
         NEW f \in Frame, frames' = Append(frames, f),
         f.depth = Top.depth + 1, f.kind # "TOP",
         f.kind \in CreateKinds => Top.addr \in Creators,
         f.kind = "CREATE" => nonce + Len(frames) <= MaxNonce,
         f.kind = "CREATE2" => f.salt \in Salts
  PROVE  TypeOK'
<1>1. UNCHANGED nonce
  BY DEF world
<1>2. FramesOK(frames') /\ CreationsNamed(frames', nonce')
  BY <1>1, AppendOK
<1> QED  BY <1>2 DEF TypeOK, world

\* The CALL and CREATE families.
LEMMA CallTypeOK ==
  ASSUME TypeOK,
         \/ CallTooDeep \/ CreateFails
         \/ \E to \in Addrs : CallNoCode(to) \/ CallHostFails(to)
         \/ \E kind \in CallKinds, to \in Addrs : Call(kind, to)
         \/ \E init \in Data : Create("CREATE", init, 0)
         \/ \E init \in Data, salt \in Salts : Create("CREATE2", init, salt)
  PROVE  TypeOK'
<1>0. {"call", "create"} \subseteq Ops /\ Empty \in Data /\ {"0", "1"} \subseteq Flags
  BY DEF Ops, Data, Flags
<1>1. CASE CallTooDeep \/ CreateFails
  <2>1. ~Idle /\ gasUsed' \in Int
    BY <1>0, <1>1, ChargeFacts DEF CallTooDeep, CreateFails
  <2>2. /\ UNCHANGED <<reply, world>>
        /\ \/ SetTop([Top EXCEPT !.rdata = Empty, !.flag = "0"])
           \/ SetTop([Top EXCEPT !.flag = "0"])
    BY <1>1 DEF CallTooDeep, CreateFails, Push
  <2> QED  BY <1>0, <2>1, <2>2, FlagTypeOK
<1>2. ASSUME NEW to \in Addrs, CallNoCode(to) \/ CallHostFails(to)
      PROVE  TypeOK'
  <2>1. ~Idle /\ gasUsed' \in Int
    BY <1>0, <1>2, ChargeFacts DEF CallNoCode, CallHostFails
  <2>2. PICK fl \in {"0", "1"} : /\ UNCHANGED <<reply, world>>
                                 /\ SetTop([Top EXCEPT !.rdata = Empty, !.flag = fl])
    BY <1>2 DEF CallNoCode, CallHostFails
  <2> QED  BY <1>0, <2>1, <2>2, FlagTypeOK
<1>3. ASSUME NEW kind \in CallKinds, NEW to \in Addrs, Call(kind, to)
      PROVE  TypeOK'
  <2>1. ~Idle /\ Top.status = "run" /\ gasUsed' \in Int
    BY <1>0, <1>3, ChargeFacts DEF Call
  <2>2. Top \in Frame
    BY <2>1, TopFacts
  <2> DEFINE exec   == ExecAddress(kind, to)
             depth  == Top.depth + 1
             static == Top.static \/ kind = "STATICCALL"
             f      == Fresh(exec, kind, depth, static, LookupCode(to), 0)
  <2>3. /\ exec \in Addrs
        /\ depth \in Nat
        /\ static \in BOOLEAN
        /\ LookupCode(to) \in Data
        /\ kind \in {"TOP"} \cup CallKinds \cup CreateKinds
        /\ 0 \in Salts \cup {0}
    BY <1>3, <2>2, CodeFacts DEF ExecAddress, Frame, Call
  <2>4. frames' = Append(frames, f) /\ UNCHANGED <<reply, world>>
    BY <1>3 DEF Call
  <2>5. depth = Top.depth + 1
    OBVIOUS
  <2> HIDE DEF exec, depth, static
  <2>6. f \in Frame /\ f.depth = Top.depth + 1 /\ f.kind = kind
    BY <2>3, <2>5, FreshFacts
  <2> HIDE DEF f
  <2>7. f.kind # "TOP" /\ f.kind \notin CreateKinds /\ f.kind # "CREATE" /\ f.kind # "CREATE2"
    BY <2>6 DEF CallKinds, CreateKinds
  <2> QED  BY <2>1, <2>4, <2>6, <2>7, OpenTypeOK
<1>4. ASSUME NEW kind \in CreateKinds, NEW init \in Data, NEW salt \in Salts \cup {0},
             kind = "CREATE2" => salt \in Salts,
             Create(kind, init, salt)
      PROVE  TypeOK'
  <2>1. ~Idle /\ Top.status = "run" /\ gasUsed' \in Int
    BY <1>0, <1>4, ChargeFacts DEF Create
  <2>2. Top \in Frame
    BY <2>1, TopFacts
  <2> DEFINE st     == IF kind = "CREATE2" THEN salt ELSE 0
             depth  == Top.depth + 1
             static == FALSE
             f      == Fresh(Top.addr, kind, depth, static, init, st)
  <2>3. /\ Top.addr \in Addrs
        /\ depth \in Nat
        /\ static \in BOOLEAN
        /\ kind \in {"TOP"} \cup CallKinds \cup CreateKinds
        /\ st \in Salts \cup {0}
    BY <1>4, <2>2 DEF Frame
  <2>4. frames' = Append(frames, f) /\ UNCHANGED <<reply, world>>
    BY <1>4 DEF Create
  <2>5. kind = "CREATE2" => st \in Salts
    BY <1>4
  <2>6. depth = Top.depth + 1
    OBVIOUS
  <2> HIDE DEF st, depth, static
  <2>7. f \in Frame /\ f.depth = Top.depth + 1 /\ f.kind = kind /\ f.salt = st
    BY <2>3, <2>6, FreshFacts
  <2> HIDE DEF f
  <2>8. /\ f.kind # "TOP"
        /\ f.kind \in CreateKinds => Top.addr \in Creators
        /\ f.kind = "CREATE" => nonce + Len(frames) <= MaxNonce
        /\ f.kind = "CREATE2" => f.salt \in Salts
    BY <1>4, <2>5, <2>7 DEF Create, CreateBound, CreateKinds
  <2> QED  BY <2>1, <2>4, <2>7, <2>8, OpenTypeOK
<1>5. ASSUME NEW init \in Data, Create("CREATE", init, 0)
      PROVE  TypeOK'
  BY <1>5, <1>4 DEF CreateKinds
<1>6. ASSUME NEW init \in Data, NEW salt \in Salts, Create("CREATE2", init, salt)
      PROVE  TypeOK'
  BY <1>6, <1>4 DEF CreateKinds
<1> QED  BY <1>1, <1>2, <1>3, <1>5, <1>6

\* A nested frame left: the frame below is the innermost one again.
LEMMA ResumeTypeOK ==
  ASSUME TypeOK, ~Idle, Top.kind # "TOP",
         nonce' = nonce \/ (nonce' = nonce + 1 /\ Top.kind = "CREATE"),
         nonce' \in 0 .. MaxNonce,
         code' \in [Addrs -> CodeVals],
         UNCHANGED <<gasUsed, reply, storage, balance>>,
         NEW d \in Data, NEW fl \in Flags,
         \/ Resume([Below EXCEPT !.rdata = d, !.flag = fl])
         \/ Resume([Below EXCEPT !.flag = fl])
  PROVE  TypeOK'
<1>1. Below \in Frame
  BY BelowFacts
<1>2. PICK f \in {[Below EXCEPT !.rdata = d, !.flag = fl], [Below EXCEPT !.flag = fl]} :
        Resume(f)
  OBVIOUS
<1>3. /\ f \in Frame
      /\ f.depth = Below.depth /\ f.kind = Below.kind
      /\ f.addr = Below.addr /\ f.salt = Below.salt
  BY <1>1, <1>2 DEF Frame
<1>4. FramesOK(frames') /\ CreationsNamed(frames', nonce')
  BY <1>2, <1>3, ResumeOK
<1> QED  BY <1>4 DEF TypeOK

\* A creation that ends well has a name within the bound for the account it deploys.
LEMMA NewAddressFacts ==
  ASSUME TypeOK, ~Idle, Top.kind \in CreateKinds
  PROVE  /\ NewAddress \in Addrs
         /\ Top.kind = "CREATE" => nonce + 1 \in 0 .. MaxNonce
<1>1. Len(frames) \in Nat /\ Len(frames) >= 2
  BY TopFacts, BelowFacts DEF CreateKinds
<1>2. Len(frames) \in 2 .. Len(frames)
  BY <1>1
<1>3. /\ Below.addr \in Creators
      /\ Top.kind = "CREATE" => nonce + Len(frames) - 1 <= MaxNonce
      /\ Top.kind = "CREATE2" => Top.salt \in Salts
  BY <1>2 DEF TypeOK, CreationsNamed, Top, Below
<1>4. nonce \in Nat /\ MaxNonce \in Nat
  BY SeedAssumption DEF TypeOK
<1>5. CASE Top.kind = "CREATE"
  <2>1. nonce + Len(frames) - 1 <= MaxNonce
    BY <1>3, <1>5
  <2>2. nonce + 1 \in 1 .. MaxNonce
    BY <2>1, <1>1, <1>4
  <2>3. <<Below.addr, nonce + 1>> \in Creators \X Seeds
    BY <2>2, <1>3 DEF Seeds
  <2>4. NewAddress = Derive[<<Below.addr, nonce + 1>>]
    BY <1>5 DEF NewAddress
  <2> QED  BY <2>2, <2>3, <2>4, SeedAssumption
<1>6. CASE Top.kind # "CREATE"
  <2>1. Top.salt \in Salts
    BY <1>3, <1>6 DEF CreateKinds
  <2>2. <<Below.addr, Top.salt>> \in Creators \X Seeds
    BY <2>1, <1>3 DEF Seeds
  <2>3. NewAddress = Derive[<<Below.addr, Top.salt>>]
    BY <1>6 DEF NewAddress
  <2> QED  BY <1>6, <2>2, <2>3, SeedAssumption
<1> QED  BY <1>5, <1>6

\* The steps after EVM.execute left the innermost frame.
LEMMA UnwindTypeOK == ASSUME TypeOK, Unwind PROVE TypeOK'
<1>0. {"0", "1"} \subseteq Flags /\ "TOP" \notin CallKinds \cup CreateKinds
  BY DEF Flags, CallKinds, CreateKinds
<1>1. ~Idle /\ Top \in Frame
  BY TopFacts DEF Unwind, ReturnToCaller, ReturnToCreator, CreationFailed, Answer, Halted
<1>2. Top.rdata \in Data /\ Data \subseteq CodeVals
  BY <1>1 DEF Frame, CodeVals
<1>3. CASE ReturnToCaller
  <2> DEFINE fl == IF Succeeded THEN "1" ELSE "0"
             d  == Top.rdata
  <2>1. fl \in Flags /\ d \in Data
    BY <1>0, <1>2
  <2>2. Resume([Below EXCEPT !.rdata = d, !.flag = fl])
    BY <1>3 DEF ReturnToCaller
  <2>3. Top.kind # "TOP"
    BY <1>0, <1>3 DEF ReturnToCaller
  <2>4. /\ UNCHANGED <<gasUsed, reply, storage, balance>>
        /\ nonce' = nonce /\ nonce' \in 0 .. MaxNonce
        /\ code' \in [Addrs -> CodeVals]
    BY <1>3 DEF ReturnToCaller, world, TypeOK
  <2> HIDE DEF fl, d
  <2> QED  BY <1>1, <2>1, <2>2, <2>3, <2>4, ResumeTypeOK
<1>4. CASE ReturnToCreator
  <2>1. Top.kind # "TOP" /\ Top.kind \in CreateKinds
    BY <1>0, <1>4 DEF ReturnToCreator
  <2>2. NewAddress \in Addrs /\ (Top.kind = "CREATE" => nonce + 1 \in 0 .. MaxNonce)
    BY <1>1, <2>1, NewAddressFacts
  <2>3. Resume([Below EXCEPT !.flag = "1"])
    BY <1>4 DEF ReturnToCreator
  <2>4. code' \in [Addrs -> CodeVals]
    BY <1>2, <1>4, <2>2 DEF ReturnToCreator, TypeOK
  <2>5. /\ nonce' = nonce \/ (nonce' = nonce + 1 /\ Top.kind = "CREATE")
        /\ nonce' \in 0 .. MaxNonce
        /\ UNCHANGED <<gasUsed, reply, storage, balance>>
    BY <1>4, <2>2 DEF ReturnToCreator, TypeOK
  <2> QED  BY <1>0, <1>1, <1>2, <2>1, <2>3, <2>4, <2>5, ResumeTypeOK
<1>5. CASE CreationFailed
  <2>1. Top.kind # "TOP" /\ Resume([Below EXCEPT !.flag = "0"])
    BY <1>0, <1>5 DEF CreationFailed
  <2>2. /\ UNCHANGED <<gasUsed, reply, storage, balance>>
        /\ nonce' = nonce /\ nonce' \in 0 .. MaxNonce
        /\ code' \in [Addrs -> CodeVals]
    BY <1>5 DEF CreationFailed, world, TypeOK
  <2> QED  BY <1>0, <1>1, <1>2, <2>1, <2>2, ResumeTypeOK
<1>6. CASE Answer
  <2>1. FramesOK(frames') /\ CreationsNamed(frames', nonce')
    BY <1>6, EmptySeq DEF Answer, FramesOK, CreationsNamed
  <2> QED  BY <1>6, <2>1 DEF Answer, TypeOK, world
<1> QED  BY <1>3, <1>4, <1>5, <1>6 DEF Unwind

\* A new top-level call.
LEMMA EthCallTypeOK ==
  ASSUME TypeOK, NEW a \in Addrs, EthCall(a)
  PROVE  TypeOK'
<1> DEFINE bytes  == IF Installed[a] = NoCode THEN Empty ELSE Installed[a]
           static == FALSE
           f      == Fresh(a, "TOP", 0, static, bytes, 0)
<1>1. bytes \in Data /\ static \in BOOLEAN
  BY CodeFacts
<1>2. frames' = <<f>> /\ gasUsed' = 0 /\ reply' = "none" /\ UNCHANGED world
  BY DEF EthCall
<1> HIDE DEF bytes, static
<1>3. f \in Frame /\ f.kind = "TOP" /\ f.depth = 0
  BY <1>1, FreshFacts
<1> HIDE DEF f
<1>4. /\ frames' \in Seq(Frame)
      /\ Len(frames') = 1
      /\ frames'[1] = f
  BY <1>2, <1>3
<1>5. FramesOK(frames')
  BY <1>3, <1>4 DEF FramesOK
<1>6. CreationsNamed(frames', nonce')
  BY <1>4 DEF CreationsNamed
<1> QED  BY <1>2, <1>5, <1>6 DEF TypeOK, world

\* Every step keeps TypeOK.
LEMMA NextTypeOK == ASSUME TypeOK, [Next]_vars PROVE TypeOK'
<1>1. CASE Opcode
  BY <1>1, LocalTypeOK, CallTypeOK DEF Opcode
<1>2. CASE Unwind
  BY <1>2, UnwindTypeOK
<1>3. ASSUME NEW a \in Addrs, EthCall(a) PROVE TypeOK'
  BY <1>3, EthCallTypeOK
<1>4. CASE UNCHANGED vars
  BY <1>4 DEF vars, world, TypeOK
<1> QED  BY <1>1, <1>2, <1>3, <1>4 DEF Next, Step

\* Type correctness. Of do_call, CREATE and CREATE2 it says that the call_depth each hands
\* to its nested frame counts the frames below it, in every mixture of calls and creations.
THEOREM TypeCorrect == Spec => []TypeOK
BY InitTypeOK, NextTypeOK, PTL DEF Spec
------------------------------------------------------------------------------
(***************************************************************************)
(* The strengthening of OkWithinCap.  An overdrawn pool does not stop the  *)
(* frames above at once: each runs on until its own next charge.  What     *)
(* holds in between is that none of them has halted in another way than by *)
(* failing, if it is not stuck, and that no answer is out while frames are *)
(* left.                                                                   *)
(***************************************************************************)
GasInv ==
  /\ ~Idle => reply = "none"
  /\ gasUsed > GasCap /\ ~Idle => Top.status \in {"run", "failed", "stuck"}
  /\ OkWithinCap

\* The status an action gives the innermost frame.
LEMMA HaltedTop ==
  ASSUME TypeOK, ~Idle, UNCHANGED world, NEW st \in Statuses, Halt(st)
  PROVE  ~Idle' /\ Top'.status = st
<1> DEFINE f == [Top EXCEPT !.status = st]
<1>1. Top \in Frame
  BY TopFacts
<1>2. /\ f \in Frame /\ f.status = st
      /\ f.depth = Top.depth /\ f.kind = Top.kind /\ f.addr = Top.addr /\ f.salt = Top.salt
  BY <1>1 DEF Frame
<1>3. SetTop(f) /\ UNCHANGED nonce
  BY DEF Halt, world
<1> HIDE DEF f
<1>4. Len(frames') = Len(frames) /\ frames'[Len(frames)] = f
  BY <1>2, <1>3, SetTopOK
<1>5. Len(frames) \in Nat /\ Len(frames) >= 1
  BY TopFacts
<1>6. ~Idle'
  BY <1>4, <1>5, EmptySeq DEF Idle
<1> QED  BY <1>2, <1>4, <1>6 DEF Top

\* The frame that goes on after its nested frame ended is running.
LEMMA ResumedTop ==
  ASSUME TypeOK, ~Idle, Top.kind # "TOP",
         nonce' = nonce \/ (nonce' = nonce + 1 /\ Top.kind = "CREATE"),
         NEW d \in Data, NEW fl \in Flags,
         NEW f \in {[Below EXCEPT !.rdata = d, !.flag = fl], [Below EXCEPT !.flag = fl]},
         Resume(f)
  PROVE  ~Idle' /\ Top'.status = "run"
<1>1. Below \in Frame /\ Below.status = "run"
  BY BelowFacts
<1>2. /\ f \in Frame /\ f.status = "run"
      /\ f.depth = Below.depth /\ f.kind = Below.kind
      /\ f.addr = Below.addr /\ f.salt = Below.salt
  BY <1>1 DEF Frame
<1>3. Len(frames') = Len(frames) - 1 /\ frames'[Len(frames) - 1] = f
  BY <1>2, ResumeOK
<1>4. Len(frames) \in Nat /\ Len(frames) >= 2
  BY TopFacts, BelowFacts
<1>5. ~Idle'
  BY <1>3, <1>4, EmptySeq DEF Idle
<1> QED  BY <1>2, <1>3, <1>5 DEF Top

\* The opcodes whose charge the pool covers.
Covered ==
  /\ \E op \in Ops : Charge(op)
  /\ UNCHANGED reply

\* Every opcode is covered, overdraws the pool, is unknown, or never ends.
LEMMA OpcodeCases ==
  ASSUME Opcode
  PROVE  Covered \/ (\E op \in Ops : OutOfGas(op)) \/ UnknownOpcode \/ Hang
<1>0. {"plain", "SSTORE", "call", "create", "SELFDESTRUCT", "badjump", "STOP", "RETURN",
       "REVERT", "INVALID"} \subseteq Ops
  BY DEF Ops, HaltOps
<1>1. CASE Plain \/ Stop \/ BadJump \/ CallTooDeep \/ CreateFails
  BY <1>0, <1>1 DEF Covered, Plain, Stop, BadJump, CallTooDeep, CreateFails
<1>2. CASE \E s \in Slots, w \in Words : SStore(s, w)
  BY <1>0, <1>2 DEF Covered, SStore
<1>3. CASE \E d \in Data : Return(d) \/ Revert(d)
  BY <1>0, <1>3 DEF Covered, Return, Revert
<1>4. CASE \E op \in {"INVALID", "plain"} : Abort(op)
  BY <1>0, <1>4 DEF Covered, Abort
<1>5. CASE \E b \in Addrs : SelfDestruct(b)
  BY <1>0, <1>5 DEF Covered, SelfDestruct
<1>6. CASE \E to \in Addrs : CallNoCode(to) \/ CallHostFails(to)
  BY <1>0, <1>6 DEF Covered, CallNoCode, CallHostFails
<1>7. CASE \E kind \in CallKinds, to \in Addrs : Call(kind, to)
  BY <1>0, <1>7 DEF Covered, Call
<1>8. CASE \/ \E init \in Data : Create("CREATE", init, 0)
           \/ \E init \in Data, salt \in Salts : Create("CREATE2", init, salt)
  BY <1>0, <1>8 DEF Covered, Create
<1> QED  BY <1>1, <1>2, <1>3, <1>4, <1>5, <1>6, <1>7, <1>8 DEF Opcode

\* Opening, updating and closing frames keep GasInv, whatever the charges are.
LEMMA NextGasInv ==
  ASSUME TypeOK, GasInv, [Next]_vars
  PROVE  GasInv'
<1>0. GasCap \in Nat /\ gasUsed \in Int
  BY GasAssumption DEF TypeOK
<1>1. CASE Covered
  <2>1. ~Idle /\ gasUsed' \in Int /\ gasUsed' <= GasCap /\ reply' = reply
    BY <1>1, ChargeFacts DEF Covered
  <2>2. reply' = "none"
    BY <2>1 DEF GasInv
  <2>3. ~(gasUsed' > GasCap)
    BY <2>1, <1>0
  <2> QED  BY <2>2, <2>3 DEF GasInv, OkWithinCap
<1>2. CASE (\E op \in Ops : OutOfGas(op)) \/ UnknownOpcode
  <2>1. ~Idle /\ UNCHANGED <<reply, world>> /\ Halt("failed")
    BY <1>2 DEF OutOfGas, UnknownOpcode, HasOpcode, Running
  <2>2. ~Idle' /\ Top'.status = "failed"
    BY <2>1, HaltedTop DEF Statuses
  <2>3. reply' = "none"
    BY <2>1 DEF GasInv
  <2> QED  BY <2>2, <2>3 DEF GasInv, OkWithinCap
<1>3. CASE ReturnToCaller \/ ReturnToCreator \/ CreationFailed
  <2>1. ~Idle /\ Top \in Frame /\ Top.kind # "TOP" /\ reply' = reply
    BY <1>3, TopFacts
      DEF ReturnToCaller, ReturnToCreator, CreationFailed, Halted, CallKinds, CreateKinds
  <2>2. Top.rdata \in Data /\ {"0", "1"} \subseteq Flags
    BY <2>1 DEF Frame, Flags
  <2>3. PICK fl \in Flags :
          \E f \in {[Below EXCEPT !.rdata = Top.rdata, !.flag = fl],
                    [Below EXCEPT !.flag = fl]} : Resume(f)
    BY <1>3, <2>2 DEF ReturnToCaller, ReturnToCreator, CreationFailed
  <2>4. nonce' = nonce \/ (nonce' = nonce + 1 /\ Top.kind = "CREATE")
    BY <1>3 DEF ReturnToCaller, ReturnToCreator, CreationFailed, world
  <2>5. ~Idle' /\ Top'.status = "run"
    BY <2>1, <2>2, <2>3, <2>4, ResumedTop
  <2>6. reply' = "none"
    BY <2>1 DEF GasInv
  <2> QED  BY <2>5, <2>6 DEF GasInv, OkWithinCap
<1>7. CASE Hang
  <2>1. ~Idle /\ UNCHANGED <<reply, world>> /\ Halt("stuck")
    BY <1>7 DEF Hang, HasOpcode, Running
  <2>2. ~Idle' /\ Top'.status = "stuck"
    BY <2>1, HaltedTop DEF Statuses
  <2>3. reply' = "none"
    BY <2>1 DEF GasInv
  <2> QED  BY <2>2, <2>3 DEF GasInv, OkWithinCap
<1>4. CASE Answer
  <2>1. ~Idle /\ Idle' /\ UNCHANGED gasUsed /\ Top.status \notin {"run", "stuck"}
    BY <1>4 DEF Answer, Halted, Idle
  <2>2. reply' = "ok" => Top.status # "failed"
    BY <1>4 DEF Answer
  <2>3. reply' = "ok" => ~(gasUsed > GasCap)
    BY <2>1, <2>2 DEF GasInv
  <2>4. OkWithinCap'
    BY <2>1, <2>3, <1>0 DEF OkWithinCap
  <2> QED  BY <2>1, <2>4 DEF GasInv
<1>5. CASE \E a \in Addrs : EthCall(a)
  <2>1. gasUsed' = 0 /\ reply' = "none"
    BY <1>5 DEF EthCall
  <2>2. ~(gasUsed' > GasCap)
    BY <2>1, <1>0
  <2> QED  BY <2>1, <2>2 DEF GasInv, OkWithinCap
<1>6. CASE UNCHANGED vars
  BY <1>6 DEF GasInv, OkWithinCap, Idle, Top, vars
<1> QED  BY <1>1, <1>2, <1>3, <1>4, <1>5, <1>6, <1>7, OpcodeCases DEF Next, Step, Unwind

\* An answer that is not an error stayed within the cap, whatever dynamic_gas charged.
THEOREM OkMeansWithinCap == Spec => []OkWithinCap
<1>1. Init => GasInv
  BY GasAssumption DEF Init, GasInv, OkWithinCap, Idle
<1>2. TypeOK /\ GasInv /\ [Next]_vars => GasInv'
  BY NextGasInv
<1>3. GasInv => OkWithinCap
  BY DEF GasInv
<1> QED  BY <1>1, <1>2, <1>3, TypeCorrect, PTL DEF Spec

------------------------------------------------------------------------------
(***************************************************************************)
(* What a step does to the frames, as far as these properties can tell:    *)
(* frames are left, or one is opened on top, or a call begins.             *)
(***************************************************************************)
SameIdentity(f, g) == f.addr = g.addr /\ f.kind = g.kind /\ f.static = g.static

NoneOpened ==
  /\ Len(frames') <= Len(frames)
  /\ \A i \in 1 .. Len(frames') : SameIdentity(frames'[i], frames[i])

\* The opened frame against its opener: only CALL and STATICCALL switch the account, and
\* the CALL family keeps the static flag.
OpenedBy(f, opener) ==
  /\ f.kind \in {"CALL", "STATICCALL"} \/ f.addr = opener.addr
  /\ f.kind \in CallKinds /\ opener.static => f.static

OneOpened ==
  /\ ~Idle /\ ~TooDeep
  /\ Len(frames') = Len(frames) + 1
  /\ \A i \in 1 .. Len(frames) : SameIdentity(frames'[i], frames[i])
  /\ OpenedBy(frames'[Len(frames) + 1], Top)

CallBegun ==
  /\ Len(frames') = 1
  /\ frames'[1].kind = "TOP"

\* An edit of the innermost frame.
LEMMA EditOpensNone ==
  ASSUME TypeOK, ~Idle, UNCHANGED nonce,
         NEW st \in Statuses, NEW d \in Data, NEW fl \in Flags,
         NEW f \in TopEdits(st, d, fl), SetTop(f)
  PROVE  NoneOpened /\ Len(frames') = Len(frames)
<1>1. /\ f \in Frame
      /\ f.depth = Top.depth /\ f.kind = Top.kind /\ f.addr = Top.addr /\ f.salt = Top.salt
  BY EditedTop
<1>2. f.static = Top.static
  BY TopFacts DEF TopEdits, Frame
<1>3. /\ Len(frames') = Len(frames)
      /\ frames'[Len(frames)] = f
      /\ \A i \in 1 .. Len(frames) - 1 : frames'[i] = frames[i]
  BY <1>1, SetTopOK
<1>4. Len(frames) \in Nat
  BY TopFacts
<1>5. ASSUME NEW i \in 1 .. Len(frames')
      PROVE  SameIdentity(frames'[i], frames[i])
  <2>1. CASE i = Len(frames)
    BY <2>1, <1>1, <1>2, <1>3 DEF SameIdentity, Top
  <2>2. CASE i # Len(frames)
    <3>1. i \in 1 .. Len(frames) - 1
      BY <2>2, <1>3, <1>4
    <3> QED  BY <3>1, <1>3 DEF SameIdentity
  <2> QED  BY <2>1, <2>2
<1> QED  BY <1>3, <1>4, <1>5 DEF NoneOpened

\* The innermost frame closed, the one below resumed.
LEMMA ResumeOpensNone ==
  ASSUME TypeOK, ~Idle, Top.kind # "TOP",
         nonce' = nonce \/ (nonce' = nonce + 1 /\ Top.kind = "CREATE"),
         NEW d \in Data, NEW fl \in Flags,
         NEW f \in {[Below EXCEPT !.rdata = d, !.flag = fl], [Below EXCEPT !.flag = fl]},
         Resume(f)
  PROVE  /\ NoneOpened
         /\ Len(frames') = Len(frames) - 1
<1>1. Below \in Frame
  BY BelowFacts
<1>2. /\ f \in Frame /\ f.static = Below.static
      /\ f.depth = Below.depth /\ f.kind = Below.kind
      /\ f.addr = Below.addr /\ f.salt = Below.salt
  BY <1>1 DEF Frame
<1>3. /\ Len(frames') = Len(frames) - 1
      /\ frames'[Len(frames) - 1] = f
      /\ \A i \in 1 .. Len(frames) - 2 : frames'[i] = frames[i]
  BY <1>2, ResumeOK
<1>4. Len(frames) \in Nat
  BY TopFacts
<1>5. ASSUME NEW i \in 1 .. Len(frames')
      PROVE  SameIdentity(frames'[i], frames[i])
  <2>1. CASE i = Len(frames) - 1
    BY <2>1, <1>2, <1>3 DEF SameIdentity, Below
  <2>2. CASE i # Len(frames) - 1
    <3>1. i \in 1 .. Len(frames) - 2
      BY <2>2, <1>3, <1>4
    <3> QED  BY <3>1, <1>3 DEF SameIdentity
  <2> QED  BY <2>1, <2>2
<1> QED  BY <1>3, <1>4, <1>5 DEF NoneOpened

\* A nested frame was appended.
LEMMA AppendOpensOne ==
  ASSUME TypeOK, ~Idle, ~TooDeep,
         NEW f, frames' = Append(frames, f),
         OpenedBy(f, Top)
  PROVE  OneOpened
<1>1. frames \in Seq(Frame) /\ Len(frames) \in Nat
  BY TopFacts DEF TypeOK, FramesOK
<1>2. /\ Len(frames') = Len(frames) + 1
      /\ frames'[Len(frames) + 1] = f
      /\ \A i \in 1 .. Len(frames) : frames'[i] = frames[i]
  BY <1>1
<1> QED  BY <1>2 DEF OneOpened, SameIdentity

\* Opcodes that open nothing.
LEMMA LocalOpensNone ==
  ASSUME TypeOK,
         \/ Plain \/ Stop \/ BadJump \/ UnknownOpcode \/ CallTooDeep \/ CreateFails
         \/ \E s \in Slots, w \in Words : SStore(s, w)
         \/ \E d \in Data : Return(d) \/ Revert(d)
         \/ \E op \in {"INVALID", "plain"} : Abort(op)
         \/ \E op \in Ops : OutOfGas(op)
         \/ Hang
         \/ \E b \in Addrs : SelfDestruct(b)
         \/ \E to \in Addrs : CallNoCode(to) \/ CallHostFails(to)
  PROVE  NoneOpened /\ Len(frames') = Len(frames)
<1>0. /\ {"run", "stopped", "returned", "reverted", "failed", "stuck"} \subseteq Statuses
      /\ Empty \in Data
      /\ {"none", "0", "1"} \subseteq Flags
  BY DEF Statuses, Data, Flags
<1>1. ~Idle /\ UNCHANGED nonce
  BY DEF Plain, Stop, BadJump, UnknownOpcode, CallTooDeep, CreateFails, SStore, Return, Revert,
         Abort, OutOfGas, Hang, SelfDestruct, CallNoCode, CallHostFails, Charge, HasOpcode,
         Running, world
<1>2. CASE UNCHANGED frames
  <2>1. Len(frames) \in Nat
    BY <1>1, TopFacts
  <2> QED  BY <1>2, <2>1 DEF NoneOpened, SameIdentity
<1>3. CASE \E st \in {"stopped", "failed", "stuck"} : Halt(st)
  <2>1. PICK st \in Statuses : Halt(st)
    BY <1>0, <1>3
  <2>2. PICK f \in TopEdits(st, Empty, "none") : SetTop(f)
    BY <2>1 DEF Halt, TopEdits
  <2> QED  BY <1>0, <1>1, <2>2, EditOpensNone
<1>4. CASE \E st \in {"returned", "reverted"}, d \in Data : HaltWith(st, d)
  <2>1. PICK st \in Statuses, d \in Data : HaltWith(st, d)
    BY <1>0, <1>4
  <2>2. PICK f \in TopEdits(st, d, "none") : SetTop(f)
    BY <2>1 DEF HaltWith, TopEdits
  <2> QED  BY <1>0, <1>1, <2>2, EditOpensNone
<1>5. CASE \E fl \in {"0", "1"} : \/ SetTop([Top EXCEPT !.rdata = Empty, !.flag = fl])
                                  \/ SetTop([Top EXCEPT !.flag = fl])
  <2>1. PICK fl \in Flags : \/ SetTop([Top EXCEPT !.rdata = Empty, !.flag = fl])
                            \/ SetTop([Top EXCEPT !.flag = fl])
    BY <1>0, <1>5
  <2>2. PICK f \in TopEdits("run", Empty, fl) : SetTop(f)
    BY <2>1 DEF TopEdits
  <2> QED  BY <1>0, <1>1, <2>2, EditOpensNone
<1> QED
  BY <1>2, <1>3, <1>4, <1>5
    DEF Plain, Stop, BadJump, UnknownOpcode, CallTooDeep, CreateFails, SStore, Return, Revert,
        Abort, OutOfGas, Hang, SelfDestruct, CallNoCode, CallHostFails, Push

\* The CALL family and the creations that open a frame.
LEMMA OpensOne ==
  ASSUME TypeOK,
         \/ \E kind \in CallKinds, to \in Addrs : Call(kind, to)
         \/ \E kind \in CreateKinds, init \in Data, salt \in Salts \cup {0} :
              Create(kind, init, salt)
  PROVE  OneOpened
<1>1. ASSUME NEW kind \in CallKinds, NEW to \in Addrs, Call(kind, to)
      PROVE  OneOpened
  <2> DEFINE f == Fresh(ExecAddress(kind, to), kind, Top.depth + 1,
                        Top.static \/ kind = "STATICCALL", LookupCode(to), 0)
  <2>1. ~Idle /\ ~TooDeep /\ frames' = Append(frames, f)
    BY <1>1 DEF Call, Charge, HasOpcode, Running
  <2>2. /\ f.kind = kind /\ f.addr = ExecAddress(kind, to)
        /\ f.static = (Top.static \/ kind = "STATICCALL")
    BY DEF Fresh
  <2>3. OpenedBy(f, Top)
    BY <2>2 DEF OpenedBy, ExecAddress
  <2> HIDE DEF f
  <2> QED  BY <2>1, <2>3, AppendOpensOne
<1>2. ASSUME NEW kind \in CreateKinds, NEW init \in Data, NEW salt \in Salts \cup {0},
             Create(kind, init, salt)
      PROVE  OneOpened
  <2> DEFINE f == Fresh(Top.addr, kind, Top.depth + 1, FALSE, init,
                        IF kind = "CREATE2" THEN salt ELSE 0)
  <2>1. ~Idle /\ ~TooDeep /\ frames' = Append(frames, f)
    BY <1>2 DEF Create, Charge, HasOpcode, Running
  <2>2. OpenedBy(f, Top)
    BY DEF Fresh, OpenedBy, CreateKinds, CallKinds
  <2> HIDE DEF f
  <2> QED  BY <2>1, <2>2, AppendOpensOne
<1> QED  BY <1>1, <1>2

\* The end of a frame.
LEMMA UnwindOpensNone ==
  ASSUME TypeOK, Unwind
  PROVE  NoneOpened
<1>1. CASE ReturnToCaller \/ ReturnToCreator \/ CreationFailed
  <2>1. ~Idle /\ Top \in Frame /\ Top.kind # "TOP"
    BY <1>1, TopFacts
      DEF ReturnToCaller, ReturnToCreator, CreationFailed, Halted, CallKinds, CreateKinds
  <2>2. Top.rdata \in Data /\ {"0", "1"} \subseteq Flags
    BY <2>1 DEF Frame, Flags
  <2>3. PICK fl \in Flags :
          \E f \in {[Below EXCEPT !.rdata = Top.rdata, !.flag = fl],
                    [Below EXCEPT !.flag = fl]} : Resume(f)
    BY <1>1, <2>2 DEF ReturnToCaller, ReturnToCreator, CreationFailed
  <2>4. nonce' = nonce \/ (nonce' = nonce + 1 /\ Top.kind = "CREATE")
    BY <1>1 DEF ReturnToCaller, ReturnToCreator, CreationFailed, world
  <2> QED  BY <2>1, <2>2, <2>3, <2>4, ResumeOpensNone
<1>2. CASE Answer
  <2>1. Len(frames) \in Nat
    BY LenProperties DEF TypeOK, FramesOK
  <2> QED  BY <1>2, <2>1 DEF Answer, NoneOpened
<1> QED  BY <1>1, <1>2 DEF Unwind

\* Every step is of one of the three shapes.
LEMMA StepShapes ==
  ASSUME TypeOK, [Next]_vars
  PROVE  NoneOpened \/ OneOpened \/ CallBegun
<1>0. Len(frames) \in Nat
  BY LenProperties DEF TypeOK, FramesOK
<1>1. CASE Opcode
  <2>1. {"CREATE", "CREATE2"} = CreateKinds
    BY DEF CreateKinds
  <2> QED  BY <1>1, <2>1, LocalOpensNone, OpensOne DEF Opcode
<1>2. CASE Unwind
  BY <1>2, UnwindOpensNone
<1>3. CASE \E a \in Addrs : EthCall(a)
  BY <1>3 DEF EthCall, CallBegun, Fresh
<1>4. CASE UNCHANGED vars
  BY <1>0, <1>4 DEF vars, NoneOpened, SameIdentity
<1> QED  BY <1>1, <1>2, <1>3, <1>4 DEF Next, Step

------------------------------------------------------------------------------
(***************************************************************************)
(* What an overdrawn pool means for Redis, and the implementation of       *)
(* GasPool.  Opcodes whose charge may be negative write nothing, and the   *)
(* others only ever draw.                                                  *)
(***************************************************************************)

\* Nothing is opened and nothing written, whatever happens to the pool.
Quiet ==
  /\ ~Idle
  /\ gasUsed' \in Int
  /\ Len(frames') = Len(frames)
  /\ UNCHANGED <<reply, world>>

\* A charge that the pool covers and that gives nothing back.
Billed ==
  /\ ~Idle
  /\ gasUsed' \in Int
  /\ gasUsed' >= gasUsed
  /\ gasUsed' <= GasCap
  /\ Len(frames') \in {Len(frames), Len(frames) + 1}
  /\ UNCHANGED reply

LEMMA OpcodeDraws ==
  ASSUME TypeOK, OnlyPlainRefills, Opcode
  PROVE  Quiet \/ Billed
<1>0. /\ {"plain", "SSTORE", "call", "create", "SELFDESTRUCT", "badjump", "STOP", "RETURN",
          "REVERT", "INVALID"} \subseteq Ops
      /\ gasUsed \in Int
  BY DEF Ops, HaltOps, TypeOK
<1>1. CASE \/ Plain \/ Hang \/ UnknownOpcode
           \/ \E op \in {"INVALID", "plain"} : Abort(op)
           \/ \E op \in Ops : OutOfGas(op)
  <2>1. Len(frames') = Len(frames)
    BY <1>1, LocalOpensNone
  <2>2. ~Idle /\ UNCHANGED <<reply, world>>
    BY <1>1 DEF Plain, Hang, UnknownOpcode, Abort, OutOfGas, Charge, HasOpcode, Running
  <2>3. gasUsed' \in Int
    <3>1. CASE \E op \in Ops : Charge(op)
      BY <3>1, ChargeFacts
    <3>2. CASE \E op \in Ops : OutOfGas(op)
      <4>1. PICK op \in Ops : \E c \in OpCosts[op] : gasUsed' = gasUsed + c
        BY <3>2 DEF OutOfGas
      <4>2. PICK c \in OpCosts[op] : gasUsed' = gasUsed + c
        BY <4>1
      <4>3. c \in Int
        BY GasAssumption
      <4> QED  BY <1>0, <4>2, <4>3
    <3>3. CASE UNCHANGED gasUsed
      BY <1>0, <3>3
    <3> QED  BY <1>0, <1>1, <3>1, <3>2, <3>3 DEF Plain, Hang, UnknownOpcode, Abort
  <2> QED  BY <2>1, <2>2, <2>3 DEF Quiet
<1>2. ASSUME NEW op \in Ops \ {"plain"}, Charge(op), UNCHANGED reply,
             Len(frames') \in {Len(frames), Len(frames) + 1}
      PROVE  Billed
  BY <1>2, ChargeFacts DEF Billed
<1>3. CASE \/ Stop \/ BadJump \/ CallTooDeep \/ CreateFails
           \/ \E s \in Slots, w \in Words : SStore(s, w)
           \/ \E d \in Data : Return(d) \/ Revert(d)
           \/ \E b \in Addrs : SelfDestruct(b)
           \/ \E to \in Addrs : CallNoCode(to) \/ CallHostFails(to)
  <2>1. Len(frames') = Len(frames)
    BY <1>3, LocalOpensNone
  <2>2. UNCHANGED reply /\ \E op \in Ops \ {"plain"} : Charge(op)
    BY <1>0, <1>3
      DEF Stop, BadJump, CallTooDeep, CreateFails, SStore, Return, Revert, SelfDestruct,
          CallNoCode, CallHostFails
  <2> QED  BY <2>1, <2>2, <1>2
<1>4. CASE \/ \E kind \in CallKinds, to \in Addrs : Call(kind, to)
           \/ \E kind \in CreateKinds, init \in Data, salt \in Salts \cup {0} :
                Create(kind, init, salt)
  <2>1. Len(frames') = Len(frames) + 1
    BY <1>4, OpensOne DEF OneOpened
  <2>2. UNCHANGED reply /\ \E op \in Ops \ {"plain"} : Charge(op)
    BY <1>0, <1>4 DEF Call, Create
  <2> QED  BY <2>1, <2>2, <1>2
<1>5. {"CREATE", "CREATE2"} = CreateKinds
  BY DEF CreateKinds
<1> QED  BY <1>1, <1>3, <1>4, <1>5 DEF Opcode

\* A frame that halted well did not halt in an overdrawn pool, so no creation deploys then.
LEMMA NoDeploymentOverdrawn ==
  ASSUME GasInv, ReturnToCreator
  PROVE  ~(gasUsed > GasCap)
BY DEF GasInv, ReturnToCreator, Halted, Succeeded

\* The step behind OverdrawnWritesNothing.
LEMMA OverdrawnStep ==
  ASSUME TypeOK, GasInv, OnlyPlainRefills, [Next]_vars, gasUsed > GasCap, ~Idle
  PROVE  UNCHANGED world
<1>1. CASE Quiet
  BY <1>1 DEF Quiet
<1>2. ~Billed
  <2>1. gasUsed \in Int /\ GasCap \in Int
    BY GasAssumption DEF TypeOK
  <2> QED  BY <2>1 DEF Billed
<1>3. CASE ReturnToCaller \/ CreationFailed \/ Answer
  BY <1>3 DEF ReturnToCaller, CreationFailed, Answer
<1>4. CASE ReturnToCreator
  BY <1>4, NoDeploymentOverdrawn
<1>5. CASE \E a \in Addrs : EthCall(a)
  BY <1>5 DEF EthCall
<1>6. CASE UNCHANGED vars
  BY <1>6 DEF vars
<1> QED  BY <1>1, <1>2, <1>3, <1>4, <1>5, <1>6, OpcodeDraws DEF Next, Step, Unwind

\* While the pool is overdrawn nothing is written to Redis, for every nesting of calls and
\* creations: enclosing frames fail on their next charge, unless it is negative, and the
\* opcodes whose charge can be write nothing (evm.lua:1885-1910, 1939).
THEOREM NoWriteOverdrawn == ASSUME OnlyPlainRefills PROVE Spec => OverdrawnWritesNothing
<1>1. Init => GasInv
  BY GasAssumption DEF Init, GasInv, OkWithinCap, Idle
<1>2. TypeOK /\ GasInv /\ [Next]_vars => GasInv'
  BY NextGasInv
<1>3. TypeOK /\ GasInv /\ [Next]_vars => [gasUsed > GasCap /\ ~Idle => UNCHANGED world]_vars
  BY OverdrawnStep
<1> QED  BY <1>1, <1>2, <1>3, TypeCorrect, PTL DEF Spec, OverdrawnWritesNothing

\* A nested frame's end, as the pool sees it.
LEMMA LeavePool ==
  ASSUME TypeOK, GasInv, ReturnToCaller \/ ReturnToCreator \/ CreationFailed
  PROVE  Pool!Leave
<1>1. ~Idle /\ Top \in Frame /\ Top.kind # "TOP" /\ UNCHANGED <<gasUsed, reply>>
  BY TopFacts DEF ReturnToCaller, ReturnToCreator, CreationFailed, Halted, CallKinds, CreateKinds
<1>2. Top.rdata \in Data /\ {"0", "1"} \subseteq Flags
  BY <1>1 DEF Frame, Flags
<1>3. PICK fl \in Flags :
        \E f \in {[Below EXCEPT !.rdata = Top.rdata, !.flag = fl],
                  [Below EXCEPT !.flag = fl]} : Resume(f)
  BY <1>2 DEF ReturnToCaller, ReturnToCreator, CreationFailed
<1>4. nonce' = nonce \/ (nonce' = nonce + 1 /\ Top.kind = "CREATE")
  BY DEF ReturnToCaller, ReturnToCreator, CreationFailed, world
<1>5. Len(frames') = Len(frames) - 1
  BY <1>1, <1>2, <1>3, <1>4, ResumeOpensNone
<1>6. gasUsed > GasCap => UNCHANGED world
  BY NoDeploymentOverdrawn DEF ReturnToCaller, CreationFailed
<1>7. Len(frames) \in Nat /\ Len(frames) >= 2
  BY <1>1, TopFacts, BelowFacts
<1> QED  BY <1>1, <1>5, <1>6, <1>7 DEF Pool!Leave

\* Every step of the call tree is a step of the pool, or leaves all it speaks of alone.
LEMMA PoolStep ==
  ASSUME TypeOK, GasInv, OnlyPlainRefills, [Next]_vars
  PROVE  [Pool!Next]_(Pool!vars)
<1>0. GasCap \in Int /\ gasUsed \in Int /\ Len(frames) \in Nat
  BY GasAssumption, LenProperties DEF TypeOK, FramesOK
<1>1. ~Idle => Len(frames) > 0
  BY TopFacts
<1>2. CASE Quiet
  <2>1. CASE gasUsed' < gasUsed
    BY <1>1, <1>2, <2>1 DEF Quiet, Pool!Next, Pool!Refill
  <2>2. CASE gasUsed' >= gasUsed /\ gasUsed' > GasCap
    BY <1>1, <1>2, <2>2 DEF Quiet, Pool!Next, Pool!Overdraw
  <2>3. CASE gasUsed' >= gasUsed /\ gasUsed' <= GasCap
    BY <1>1, <1>2, <2>3 DEF Quiet, Pool!Next, Pool!Spend
  <2>4. gasUsed' \in Int
    BY <1>2 DEF Quiet
  <2> QED  BY <1>0, <2>1, <2>2, <2>3, <2>4
<1>3. CASE Billed
  BY <1>1, <1>3 DEF Billed, Pool!Next, Pool!Spend
<1>4. CASE ReturnToCaller \/ ReturnToCreator \/ CreationFailed
  BY <1>4, LeavePool DEF Pool!Next
<1>5. CASE Answer
  <2>1. ~Idle /\ UNCHANGED <<gasUsed, world>> /\ reply' \in {"ok", "error"} /\ Top.kind = "TOP"
    BY <1>5 DEF Answer, Halted
  <2>2. Len(frames) = 1 /\ Len(frames') = 0
    BY <1>5, <2>1, TopFacts, EmptySeq DEF Answer
  <2>3. reply' = "ok" => ~(gasUsed > GasCap)
    BY <1>5 DEF Answer, Halted, GasInv
  <2>4. reply' = "ok" => gasUsed <= GasCap
    BY <2>3, <1>0
  <2> QED  BY <2>1, <2>2, <2>4 DEF Pool!Next, Pool!Answer
<1>6. CASE \E a \in Addrs : EthCall(a)
  <2>1. Len(frames) = 0 /\ gasUsed' = 0 /\ reply' = "none" /\ UNCHANGED world
    BY <1>6, EmptySeq DEF EthCall, Idle
  <2>2. Len(frames') = 1
    BY <1>6 DEF EthCall
  <2> QED  BY <2>1, <2>2 DEF Pool!Next, Pool!Begin
<1>7. CASE UNCHANGED vars
  BY <1>7 DEF vars, Pool!vars
<1> QED  BY <1>2, <1>3, <1>4, <1>5, <1>6, <1>7, OpcodeDraws DEF Next, Step, Unwind

\* The call tree implements the pool of docs/SCALING.md, as far as the code keeps to it: one
\* for all frames, with no write and no normal answer while it is overdrawn.
THEOREM ImplementsPool == ASSUME OnlyPlainRefills PROVE Spec => PoolSpec
<1>1. Init => GasInv /\ Pool!Init
  BY GasAssumption, EmptySeq DEF Init, GasInv, OkWithinCap, Idle, Pool!Init
<1>2. TypeOK /\ GasInv /\ [Next]_vars => GasInv'
  BY NextGasInv
<1>3. TypeOK /\ GasInv /\ [Next]_vars => [Pool!Next]_(Pool!vars)
  BY PoolStep
<1> QED  BY <1>1, <1>2, <1>3, TypeCorrect, PTL DEF Spec, PoolSpec, Pool!Spec

------------------------------------------------------------------------------
(***************************************************************************)
(* Depth.  The limit is compared with call_depth, which TypeOK says counts *)
(* the frames below, so that a frame is opened only where there is room.   *)
(***************************************************************************)
LEMMA NextDepth ==
  ASSUME TypeOK, DepthBounded, [Next]_vars
  PROVE  DepthBounded'
<1>1. Len(frames) \in Nat /\ MAX_CALL_DEPTH \in Nat
  BY LenProperties, DepthAssumption DEF TypeOK, FramesOK
<1>2. CASE NoneOpened
  <2>1. Len(frames') \in Nat
    BY NextTypeOK, LenProperties DEF TypeOK, FramesOK
  <2> QED  BY <1>1, <1>2, <2>1 DEF NoneOpened, DepthBounded
<1>3. CASE OneOpened
  <2>1. Top.depth = Len(frames) - 1
    BY <1>3, TopFacts DEF OneOpened
  <2> QED  BY <1>1, <1>3, <2>1 DEF OneOpened, TooDeep, DepthBounded
<1>4. CASE CallBegun
  BY <1>1, <1>4 DEF CallBegun, DepthBounded
<1> QED  BY <1>2, <1>3, <1>4, StepShapes

\* do_call, CREATE and CREATE2 test the same limit: no mixture of them nests deeper.
THEOREM DepthIsBounded == Spec => []DepthBounded
<1>1. Init => DepthBounded
  BY DepthAssumption, EmptySeq DEF Init, DepthBounded
<1>2. TypeOK /\ DepthBounded /\ [Next]_vars => DepthBounded'
  BY NextDepth
<1> QED  BY <1>1, <1>2, TypeCorrect, PTL DEF Spec

------------------------------------------------------------------------------
(***************************************************************************)
(* Static mode.  Each call hands the flag on; that it reaches every frame  *)
(* below is by induction over steps, from the opener to the opened.        *)
(***************************************************************************)
LEMMA NextStatic ==
  ASSUME TypeOK, StaticInherited, [Next]_vars
  PROVE  StaticInherited'
<1>1. frames \in Seq(Frame) /\ Len(frames) \in Nat /\ DOMAIN frames = 1 .. Len(frames)
  BY LenProperties DEF TypeOK, FramesOK
<1>2. frames' \in Seq(Frame) /\ Len(frames') \in Nat /\ DOMAIN frames' = 1 .. Len(frames')
  BY NextTypeOK, LenProperties DEF TypeOK, FramesOK
<1> SUFFICES ASSUME NEW i \in 1 .. Len(frames'), NEW j \in 1 .. Len(frames'),
                    i < j, frames'[i].static,
                    \A k \in i + 1 .. j : frames'[k].kind \in CallKinds
             PROVE  frames'[j].static
  BY <1>2 DEF StaticInherited
<1>3. ASSUME i \in 1 .. Len(frames), NEW m \in 1 .. Len(frames), m <= j, i <= m,
             \A k \in i .. m : SameIdentity(frames'[k], frames[k])
      PROVE  frames[m].static
  <2>1. CASE i = m
    BY <2>1, <1>3 DEF SameIdentity
  <2>2. CASE i < m
    <3>1. frames[i].static
      BY <1>3 DEF SameIdentity
    <3>2. \A k \in i + 1 .. m : frames[k].kind \in CallKinds
      <4> TAKE k \in i + 1 .. m
      <4>1. k \in i .. m /\ k \in i + 1 .. j
        BY <1>3
      <4> QED  BY <4>1, <1>3 DEF SameIdentity
    <3> QED  BY <2>2, <3>1, <3>2, <1>1, <1>3 DEF StaticInherited
  <2> QED  BY <2>1, <2>2, <1>3
<1>4. CASE NoneOpened
  <2>1. /\ i \in 1 .. Len(frames) /\ j \in 1 .. Len(frames)
        /\ \A k \in i .. j : SameIdentity(frames'[k], frames[k])
    BY <1>1, <1>2, <1>4 DEF NoneOpened
  <2>2. frames[j].static
    BY <2>1, <1>3
  <2> QED  BY <2>1, <2>2 DEF SameIdentity
<1>5. CASE OneOpened
  <2>1. i \in 1 .. Len(frames) /\ Len(frames) \in 1 .. Len(frames)
    BY <1>1, <1>2, <1>5 DEF OneOpened
  <2>2. CASE j = Len(frames) + 1
    <3>1. \A k \in i .. Len(frames) : SameIdentity(frames'[k], frames[k])
      BY <1>5, <2>1 DEF OneOpened
    <3>2. frames[Len(frames)].static
      BY <1>1, <1>3, <2>1, <2>2, <3>1
    <3>3. frames'[j].kind \in CallKinds
      BY <1>1, <2>1, <2>2
    <3> QED  BY <1>5, <2>2, <3>2, <3>3 DEF OneOpened, OpenedBy, Top
  <2>3. CASE j # Len(frames) + 1
    <3>1. /\ j \in 1 .. Len(frames)
          /\ \A k \in i .. j : SameIdentity(frames'[k], frames[k])
      BY <1>1, <1>2, <1>5, <2>1, <2>3 DEF OneOpened
    <3>2. frames[j].static
      BY <2>1, <3>1, <1>3
    <3> QED  BY <3>1, <3>2 DEF SameIdentity
  <2> QED  BY <2>2, <2>3
<1>6. CASE CallBegun
  BY <1>6 DEF CallBegun
<1> QED  BY <1>4, <1>5, <1>6, StepShapes

\* state.static reaches every frame that calls reach from a static one, whatever the number
\* of frames between them.
THEOREM StaticReachesCallees == Spec => []StaticInherited
<1>1. Init => StaticInherited
  BY EmptySeq DEF Init, StaticInherited
<1>2. TypeOK /\ StaticInherited /\ [Next]_vars => StaticInherited'
  BY NextStatic
<1> QED  BY <1>1, <1>2, TypeCorrect, PTL DEF Spec

------------------------------------------------------------------------------
(***************************************************************************)
(* Whose storage is written.  The strengthening says of every frame that   *)
(* a frame at or below it switched to the account it runs in.              *)
(***************************************************************************)
SwitchedTo(i) ==
  \E k \in 1 .. i : /\ frames[k].addr = frames[i].addr
                    /\ frames[k].kind \in {"TOP", "CALL", "STATICCALL"}

ContextInv == \A i \in 1 .. Len(frames) : SwitchedTo(i)

LEMMA NextContext ==
  ASSUME TypeOK, ContextInv, [Next]_vars
  PROVE  ContextInv'
<1>1. Len(frames) \in Nat
  BY LenProperties DEF TypeOK, FramesOK
<1>2. Len(frames') \in Nat
  BY NextTypeOK, LenProperties DEF TypeOK, FramesOK
<1> SUFFICES ASSUME NEW i \in 1 .. Len(frames')
             PROVE  \E k \in 1 .. i : /\ frames'[k].addr = frames'[i].addr
                                      /\ frames'[k].kind \in {"TOP", "CALL", "STATICCALL"}
  BY DEF ContextInv, SwitchedTo
<1>3. ASSUME i \in 1 .. Len(frames), \A k \in 1 .. i : SameIdentity(frames'[k], frames[k])
      PROVE  \E k \in 1 .. i : /\ frames'[k].addr = frames'[i].addr
                               /\ frames'[k].kind \in {"TOP", "CALL", "STATICCALL"}
  <2>1. PICK k \in 1 .. i : /\ frames[k].addr = frames[i].addr
                            /\ frames[k].kind \in {"TOP", "CALL", "STATICCALL"}
    BY <1>3 DEF ContextInv, SwitchedTo
  <2>2. i \in 1 .. i
    OBVIOUS
  <2> QED  BY <2>1, <2>2, <1>3 DEF SameIdentity
<1>4. CASE NoneOpened
  <2>1. i \in 1 .. Len(frames) /\ \A k \in 1 .. i : SameIdentity(frames'[k], frames[k])
    BY <1>1, <1>2, <1>4 DEF NoneOpened
  <2> QED  BY <2>1, <1>3
<1>5. CASE OneOpened
  <2>1. CASE i = Len(frames) + 1
    <3>1. CASE frames'[i].kind \in {"CALL", "STATICCALL"}
      <4>1. i \in 1 .. i
        OBVIOUS
      <4> QED  BY <3>1, <4>1
    <3>2. CASE frames'[i].addr = Top.addr
      <4>1. Len(frames) \in 1 .. Len(frames)
        BY <1>1, <1>5, TopFacts DEF OneOpened
      <4>2. PICK k \in 1 .. Len(frames) :
              /\ frames[k].addr = frames[Len(frames)].addr
              /\ frames[k].kind \in {"TOP", "CALL", "STATICCALL"}
        BY <4>1 DEF ContextInv, SwitchedTo
      <4>3. k \in 1 .. i /\ SameIdentity(frames'[k], frames[k])
        BY <1>1, <1>5, <2>1 DEF OneOpened
      <4> QED  BY <3>2, <4>2, <4>3 DEF SameIdentity, Top
    <3> QED  BY <3>1, <3>2, <2>1, <1>5 DEF OneOpened, OpenedBy
  <2>2. CASE i # Len(frames) + 1
    <3>1. i \in 1 .. Len(frames) /\ \A k \in 1 .. i : SameIdentity(frames'[k], frames[k])
      BY <1>1, <1>2, <1>5, <2>2 DEF OneOpened
    <3> QED  BY <3>1, <1>3
  <2> QED  BY <2>1, <2>2
<1>6. CASE CallBegun
  <2>1. i = 1 /\ 1 \in 1 .. i
    BY <1>6 DEF CallBegun
  <2> QED  BY <2>1, <1>6 DEF CallBegun
<1> QED  BY <1>4, <1>5, <1>6, StepShapes

\* Only SSTORE changes storage, and only that of the innermost frame's account.
LEMMA WhoWrites ==
  ASSUME TypeOK, Next, NEW a \in Addrs, storage'[a] # storage[a]
  PROVE  ~Idle /\ a = Top.addr
<1>1. CASE Opcode
  <2>1. PICK s \in Slots, w \in Words : SStore(s, w)
    BY <1>1
      DEF Opcode, Plain, Stop, BadJump, Return, Revert, Abort, Hang, UnknownOpcode, SelfDestruct,
          CallTooDeep, CallNoCode, CallHostFails, Call, CreateFails, Create, OutOfGas, world
  <2>2. ~Idle /\ storage' = [storage EXCEPT ![Top.addr][s] = w]
    BY <2>1 DEF SStore, Charge, HasOpcode, Running
  <2> QED  BY <2>2 DEF TypeOK
<1>2. ASSUME Unwind \/ \E x \in Addrs : EthCall(x)
      PROVE  FALSE
  BY <1>2 DEF Unwind, ReturnToCaller, ReturnToCreator, CreationFailed, Answer, EthCall, world
<1> QED  BY <1>1, <1>2 DEF Next, Step

\* SSTORE writes to the account that the last CALL, STATICCALL or top-level call switched
\* to: code reached by DELEGATECALL or CALLCODE, and init code, never write their own.
THEOREM WritesStayInContext == Spec => WritesNeedAContext
<1>1. Init => ContextInv
  BY EmptySeq DEF Init, ContextInv
<1>2. TypeOK /\ ContextInv /\ [Next]_vars => ContextInv'
  BY NextContext
<1>3. ASSUME TypeOK, ContextInv, Next
      PROVE  \A a \in Addrs : storage'[a] # storage[a] =>
               \E i \in DOMAIN frames : /\ frames[i].addr = a
                                       /\ frames[i].kind \in {"TOP", "CALL", "STATICCALL"}
  <2> SUFFICES ASSUME NEW a \in Addrs, storage'[a] # storage[a]
               PROVE  \E i \in DOMAIN frames :
                         /\ frames[i].addr = a
                         /\ frames[i].kind \in {"TOP", "CALL", "STATICCALL"}
    OBVIOUS
  <2>1. ~Idle /\ a = Top.addr
    BY <1>3, WhoWrites
  <2>2. /\ Len(frames) \in 1 .. Len(frames)
        /\ DOMAIN frames = 1 .. Len(frames)
    BY <1>3, <2>1, TopFacts, LenProperties DEF TypeOK, FramesOK
  <2> QED  BY <1>3, <2>1, <2>2 DEF ContextInv, SwitchedTo, Top
<1>4. TypeOK /\ ContextInv /\ [Next]_vars =>
        [\A a \in Addrs : storage'[a] # storage[a] =>
           \E i \in DOMAIN frames : /\ frames[i].addr = a
                                   /\ frames[i].kind \in {"TOP", "CALL", "STATICCALL"}]_vars
  BY <1>3
<1> QED  BY <1>1, <1>2, <1>4, TypeCorrect, PTL DEF Spec, WritesNeedAContext

------------------------------------------------------------------------------
(***************************************************************************)
(* The overdraft.  A frame that has not halted may charge once more, and   *)
(* that charge fails it; so the room that is left is one charge for each   *)
(* frame that can still make one.                                          *)
(***************************************************************************)
Chargers == IF Idle THEN 0
            ELSE IF Top.status = "run" THEN Len(frames) ELSE Len(frames) - 1

OvershootInv == gasUsed <= GasCap + MaxCost * (MAX_CALL_DEPTH + 1 - Chargers)

\* Charges of at most m add up.
LEMMA OneChargeMore ==
  ASSUME NEW m \in Nat, NEW k \in Nat
  PROVE  m * k \in Nat /\ m * (k + 1) = m * k + m
OBVIOUS

LEMMA ChargersRange ==
  ASSUME TypeOK, DepthBounded
  PROVE  Chargers \in Nat /\ Chargers <= MAX_CALL_DEPTH + 1
<1>1. MAX_CALL_DEPTH \in Nat
  BY DepthAssumption
<1>2. CASE Idle
  BY <1>1, <1>2 DEF Chargers
<1>3. CASE ~Idle
  <2>1. Len(frames) \in Nat /\ Len(frames) >= 1
    BY <1>3, TopFacts
  <2> QED  BY <1>1, <1>3, <2>1 DEF Chargers, DepthBounded
<1> QED  BY <1>2, <1>3

\* Whatever the chargers are, a pool within its cap is within the bound.
LEMMA WithinCap ==
  ASSUME NEW g \in Int, g <= GasCap, NEW n \in Nat, n <= MAX_CALL_DEPTH + 1
  PROVE  g <= GasCap + MaxCost * (MAX_CALL_DEPTH + 1 - n)
<1>1. MAX_CALL_DEPTH + 1 - n \in Nat /\ MaxCost \in Nat /\ GasCap \in Nat
  BY DepthAssumption, GasAssumption
<1>2. MaxCost * (MAX_CALL_DEPTH + 1 - n) \in Nat
  BY <1>1, OneChargeMore
<1> QED  BY <1>1, <1>2

\* A halt leaves one charger less.
LEMMA HaltedChargers ==
  ASSUME TypeOK, ~Idle, Top.status = "run", UNCHANGED world,
         NEW st \in {"failed", "stuck"}, Halt(st)
  PROVE  Chargers = Len(frames) /\ Chargers' = Len(frames) - 1
<1>1. st \in Statuses /\ Empty \in Data /\ "none" \in Flags
  BY DEF Statuses, Data, Flags
<1>2. ~Idle' /\ Top'.status = st
  BY <1>1, HaltedTop
<1>3. PICK f \in TopEdits(st, Empty, "none") : SetTop(f)
  BY DEF Halt, TopEdits
<1>4. /\ f \in Frame
      /\ f.depth = Top.depth /\ f.kind = Top.kind /\ f.addr = Top.addr /\ f.salt = Top.salt
  BY <1>1, EditedTop
<1>5. Len(frames') = Len(frames)
  BY <1>3, <1>4, SetTopOK DEF world
<1> QED  BY <1>2, <1>5 DEF Chargers

LEMMA NextOvershoot ==
  ASSUME TypeOK, DepthBounded, OvershootInv, [Next]_vars
  PROVE  OvershootInv'
<1> DEFINE room == MAX_CALL_DEPTH + 1 - Chargers
<1>0. TypeOK' /\ DepthBounded'
  BY NextTypeOK, NextDepth
<1>1. Chargers \in Nat /\ Chargers <= MAX_CALL_DEPTH + 1
  BY ChargersRange
<1>2. Chargers' \in Nat /\ Chargers' <= MAX_CALL_DEPTH + 1
  <2>1. TypeOK' /\ DepthBounded' => (Chargers \in Nat /\ Chargers <= MAX_CALL_DEPTH + 1)'
    BY ChargersRange, PTL
  <2> QED  BY <1>0, <2>1
<1>3. /\ MAX_CALL_DEPTH \in Nat /\ MaxCost \in Nat /\ GasCap \in Nat
      /\ gasUsed \in Int /\ gasUsed' \in Int
  BY <1>0, DepthAssumption, GasAssumption DEF TypeOK
<1>4. room \in Nat
  BY <1>1, <1>3
<1>5. MaxCost * room \in Nat /\ MaxCost * (room + 1) = MaxCost * room + MaxCost
  BY <1>3, <1>4, OneChargeMore
<1>6. gasUsed <= GasCap + MaxCost * room
  BY DEF OvershootInv
<1>7. CASE gasUsed' <= GasCap
  BY <1>2, <1>3, <1>7, WithinCap DEF OvershootInv
<1>8. CASE (\E op \in Ops : OutOfGas(op)) \/ UnknownOpcode \/ (Hang /\ gasUsed' = gasUsed)
  <2>1. ~Idle /\ Top.status = "run" /\ UNCHANGED world /\ \E st \in {"failed", "stuck"} : Halt(st)
    BY <1>8 DEF OutOfGas, UnknownOpcode, Hang, HasOpcode, Running
  <2>2. Chargers' = Chargers - 1
    BY <2>1, HaltedChargers
  <2>3. MAX_CALL_DEPTH + 1 - Chargers' = room + 1
    BY <2>2, <1>1, <1>3
  <2>4. gasUsed' <= gasUsed + MaxCost
    <3>1. CASE UnknownOpcode \/ (Hang /\ gasUsed' = gasUsed)
      BY <3>1, <1>3 DEF UnknownOpcode
    <3>2. CASE \E op \in Ops : OutOfGas(op)
      <4>1. PICK op \in Ops : OutOfGas(op)
        BY <3>2
      <4>2. PICK c \in OpCosts[op] : gasUsed' = gasUsed + c
        BY <4>1 DEF OutOfGas
      <4>3. c \in Int /\ c <= MaxCost
        BY GasAssumption
      <4> QED  BY <4>2, <4>3, <1>3
    <3> QED  BY <3>1, <3>2, <1>8
  <2> HIDE DEF room
  <2>5. gasUsed' <= GasCap + (MaxCost * room + MaxCost)
    BY <1>3, <1>4, <1>5, <1>6, <2>4
  <2>6. gasUsed' <= GasCap + MaxCost * (MAX_CALL_DEPTH + 1 - Chargers')
    BY <2>3, <2>5, <1>5
  <2> QED  BY <2>6 DEF OvershootInv
<1>9. CASE ReturnToCaller \/ ReturnToCreator \/ CreationFailed
  <2>1. ~Idle /\ Top.status # "run" /\ Top \in Frame /\ Top.kind # "TOP" /\ gasUsed' = gasUsed
    BY <1>9, TopFacts
      DEF ReturnToCaller, ReturnToCreator, CreationFailed, Halted, CallKinds, CreateKinds
  <2>2. Top.rdata \in Data /\ {"0", "1"} \subseteq Flags
    BY <2>1 DEF Frame, Flags
  <2>3. PICK fl \in Flags :
          \E f \in {[Below EXCEPT !.rdata = Top.rdata, !.flag = fl],
                    [Below EXCEPT !.flag = fl]} : Resume(f)
    BY <1>9, <2>2 DEF ReturnToCaller, ReturnToCreator, CreationFailed
  <2>4. nonce' = nonce \/ (nonce' = nonce + 1 /\ Top.kind = "CREATE")
    BY <1>9 DEF ReturnToCaller, ReturnToCreator, CreationFailed, world
  <2>5. ~Idle' /\ Top'.status = "run"
    BY <2>1, <2>2, <2>3, <2>4, ResumedTop
  <2>6. Len(frames') = Len(frames) - 1
    BY <2>1, <2>2, <2>3, <2>4, ResumeOpensNone
  <2>7. Chargers' = Chargers
    BY <2>1, <2>5, <2>6 DEF Chargers
  <2> QED  BY <2>1, <2>7 DEF OvershootInv
<1>10. CASE Answer
  <2>1. ~Idle /\ Idle' /\ gasUsed' = gasUsed /\ Top.status # "run" /\ Top.kind = "TOP"
    BY <1>10 DEF Answer, Halted, Idle
  <2>2. Len(frames) = 1
    BY <2>1, TopFacts
  <2>3. Chargers' = Chargers
    BY <2>1, <2>2 DEF Chargers
  <2> QED  BY <2>1, <2>3 DEF OvershootInv
<1>11. CASE Covered
  <2>1. gasUsed' <= GasCap
    BY <1>11, ChargeFacts DEF Covered
  <2> QED  BY <2>1, <1>7
<1>14. CASE Hang
  <2>1. CASE Charge("plain")
    <3>1. "plain" \in Ops
      BY DEF Ops
    <3> QED  BY <2>1, <3>1, <1>7, ChargeFacts
  <2>2. CASE gasUsed' = gasUsed
    BY <2>2, <1>8, <1>14
  <2> QED  BY <1>14, <2>1, <2>2 DEF Hang
<1>12. CASE \E a \in Addrs : EthCall(a)
  <2>1. gasUsed' <= GasCap
    BY <1>12, <1>3 DEF EthCall
  <2> QED  BY <2>1, <1>7
<1>13. CASE UNCHANGED vars
  BY <1>13 DEF vars, OvershootInv, Chargers, Idle, Top
<1> QED
  BY <1>8, <1>9, <1>10, <1>11, <1>12, <1>13, <1>14, OpcodeCases DEF Next, Step, Unwind

\* The pool is overdrawn by at most one charge per frame: a caller survives the exhaustion
\* in its callee, but not its own next charge.
THEOREM OvershootIsBounded == Spec => []OvershootBounded
<1>1. Init => OvershootInv
  <2>1. ASSUME Init PROVE OvershootInv
    <3>1. gasUsed = 0 /\ Chargers = 0 /\ 0 \in Int
      BY <2>1 DEF Init, Chargers, Idle
    <3>2. 0 <= GasCap /\ 0 <= MAX_CALL_DEPTH + 1
      BY GasAssumption, DepthAssumption
    <3> QED  BY <3>1, <3>2, WithinCap DEF OvershootInv
  <2> QED  BY <2>1
<1>2. TypeOK /\ DepthBounded /\ OvershootInv /\ [Next]_vars => OvershootInv'
  BY NextOvershoot
<1>3. TypeOK /\ DepthBounded /\ OvershootInv => OvershootBounded
  <2> SUFFICES ASSUME TypeOK, DepthBounded, OvershootInv PROVE OvershootBounded
    OBVIOUS
  <2>1. Chargers \in Nat /\ Chargers <= MAX_CALL_DEPTH + 1
    BY ChargersRange
  <2>2. MAX_CALL_DEPTH \in Nat /\ MaxCost \in Nat /\ GasCap \in Nat /\ gasUsed \in Int
    BY DepthAssumption, GasAssumption DEF TypeOK
  <2>3. MaxCost * (MAX_CALL_DEPTH + 1 - Chargers) <= MaxCost * (MAX_CALL_DEPTH + 1)
    BY <2>1, <2>2
  <2>4. /\ MaxCost * (MAX_CALL_DEPTH + 1 - Chargers) \in Int
        /\ MaxCost * (MAX_CALL_DEPTH + 1) \in Int
    BY <2>1, <2>2
  <2> QED  BY <2>2, <2>3, <2>4 DEF OvershootInv, OvershootBounded
<1> QED  BY <1>1, <1>2, <1>3, TypeCorrect, DepthIsBounded, PTL DEF Spec

------------------------------------------------------------------------------
(***************************************************************************)
(* The sum of all balances.  SumFunction folds over a set, one member at a *)
(* time; the recursive function it is made of is defined (SumDefined), and *)
(* when one account's balance changes the sum changes by as much.          *)
(***************************************************************************)
First(s) == CHOOSE y \in s : TRUE
IsSum(g, f, S) ==
  g = [s \in SUBSET S |-> IF s = {} THEN 0 ELSE f[First(s)] + g[s \ {First(s)}]]
SumOf(f, S) == CHOOSE g : IsSum(g, f, S)

LEMMA SumUnfolds ==
  ASSUME NEW f
  PROVE  SumFunction(f) = SumOf(f, DOMAIN f)[DOMAIN f]
BY DEF SumFunction, SumFunctionOnSet, FoldFunctionOnSet, MapThenFoldSet, SumOf, IsSum, First

LEMMA Least ==
  ASSUME NEW T, T \subseteq Nat, T # {}
  PROVE  \E m \in T : \A n \in T : m <= n
<1>1. IsWellFoundedOn(OpToRel(<, Nat), Nat)
  BY NatLessThanWellFounded
<1>2. PICK m \in T : \A n \in T : <<n, m>> \notin OpToRel(<, Nat)
  BY <1>1, WFMin
<1>3. ASSUME NEW n \in T, n < m
      PROVE  FALSE
  <2>1. <<n, m>> \in OpToRel(<, Nat)
    BY <1>3 DEF OpToRel
  <2> QED  BY <1>2, <2>1
<1> QED  BY <1>3

LEMMA Induction ==
  ASSUME NEW T \in SUBSET Nat, 0 \in T, \A n \in T : n + 1 \in T
  PROVE  T = Nat
<1> SUFFICES ASSUME Nat \ T # {} PROVE FALSE
  OBVIOUS
<1>1. PICK m \in Nat \ T : \A n \in Nat \ T : m <= n
  BY Least
<1>2. m # 0 /\ m - 1 \in Nat /\ m - 1 \in T
  BY <1>1
<1> QED  BY <1>1, <1>2

\* A member taken out of a finite set.
LEMMA Smaller ==
  ASSUME NEW S, IsFiniteSet(S), NEW s \in SUBSET S, s # {}
  PROVE  /\ First(s) \in s /\ s \ {First(s)} \in SUBSET S
         /\ Cardinality(s) \in Nat /\ Cardinality(s \ {First(s)}) = Cardinality(s) - 1
<1>1. First(s) \in s
  BY DEF First
<1>2. IsFiniteSet(s)
  BY FS_Subset
<1>3. Cardinality(s) \in Nat
  BY <1>2, FS_CardinalityType
<1>4. Cardinality(s \ {First(s)}) = Cardinality(s) - 1
  BY <1>1, <1>2, FS_RemoveElement
<1> QED  BY <1>1, <1>3, <1>4

Sized(S, n) == {s \in SUBSET S : Cardinality(s) <= n}
SumTo(g, f, S, n) ==
  g = [s \in Sized(S, n) |-> IF s = {} THEN 0 ELSE f[First(s)] + g[s \ {First(s)}]]

LEMMA SumDefined ==
  ASSUME NEW f, NEW S, IsFiniteSet(S)
  PROVE  IsSum(SumOf(f, S), f, S)
<1> DEFINE T == {n \in Nat : \E g : SumTo(g, f, S, n)}
<1>0. \A s \in SUBSET S : Cardinality(s) \in Nat /\ (Cardinality(s) <= 0 => s = {})
  <2> TAKE s \in SUBSET S
  <2>1. IsFiniteSet(s)
    BY FS_Subset
  <2>2. Cardinality(s) \in Nat /\ (Cardinality(s) = 0 <=> s = {})
    BY <2>1, FS_CardinalityType, FS_EmptySet
  <2> QED  BY <2>2
<1>1. 0 \in T
  <2> DEFINE g == [s \in Sized(S, 0) |-> 0]
  <2>1. \A s \in Sized(S, 0) : s = {}
    BY <1>0 DEF Sized
  <2>2. SumTo(g, f, S, 0)
    BY <2>1 DEF SumTo
  <2> HIDE DEF g
  <2> QED  BY <2>2
<1>2. ASSUME NEW n \in T
      PROVE  n + 1 \in T
  <2>1. PICK g : SumTo(g, f, S, n)
    BY <1>2
  <2>2. n \in Nat
    BY <1>2
  <2> DEFINE h == [s \in Sized(S, n + 1) |-> IF s = {} THEN 0 ELSE f[First(s)] + g[s \ {First(s)}]]
  <2>3. ASSUME NEW s \in Sized(S, n + 1), s # {}
        PROVE  h[s \ {First(s)}] = g[s \ {First(s)}]
    <3> DEFINE r == s \ {First(s)}
    <3>1. s \in SUBSET S /\ Cardinality(s) <= n + 1
      BY DEF Sized
    <3>2. r \in SUBSET S /\ Cardinality(s) \in Nat /\ Cardinality(r) = Cardinality(s) - 1
      BY <2>3, <3>1, Smaller
    <3> HIDE DEF r
    <3>3. r \in Sized(S, n) /\ r \in Sized(S, n + 1)
      BY <2>2, <3>1, <3>2 DEF Sized
    <3>4. g[r] = IF r = {} THEN 0 ELSE f[First(r)] + g[r \ {First(r)}]
      BY <2>1, <3>3 DEF SumTo
    <3> QED  BY <3>3, <3>4 DEF r
  <2>4. SumTo(h, f, S, n + 1)
    <3>1. \A s \in Sized(S, n + 1) : h[s] = IF s = {} THEN 0 ELSE f[First(s)] + h[s \ {First(s)}]
      BY <2>3
    <3>2. h = [s \in Sized(S, n + 1) |-> h[s]]
      OBVIOUS
    <3> HIDE DEF h
    <3> QED  BY <3>1, <3>2 DEF SumTo
  <2> HIDE DEF h
  <2> QED  BY <2>2, <2>4
<1> HIDE DEF T
<1>3. T = Nat
  <2>1. T \in SUBSET Nat
    BY DEF T
  <2> QED  BY <1>1, <1>2, <2>1, Induction
<1>4. Cardinality(S) \in Nat /\ \A s \in SUBSET S : Cardinality(s) <= Cardinality(S)
  BY FS_Subset, FS_CardinalityType
<1>5. Sized(S, Cardinality(S)) = SUBSET S
  BY <1>4 DEF Sized
<1>6. PICK g : SumTo(g, f, S, Cardinality(S))
  BY <1>3, <1>4 DEF T
<1>7. IsSum(g, f, S)
  BY <1>5, <1>6 DEF SumTo, IsSum
<1> QED  BY <1>7 DEF SumOf

\* One value that changes changes the sum by as much.
LEMMA SumWithOneChanged ==
  ASSUME NEW S, IsFiniteSet(S), NEW f \in [S -> Int], NEW a \in S, NEW v \in Int
  PROVE  /\ SumFunction(f) \in Int
         /\ SumFunction([f EXCEPT ![a] = v]) = SumFunction(f) - f[a] + v
<1> DEFINE g == [f EXCEPT ![a] = v]
           F == SumOf(f, S)
           G == SumOf(g, S)
           T == {n \in Nat : \A s \in Sized(S, n) :
                   F[s] \in Int /\ G[s] = IF a \in s THEN F[s] - f[a] + v ELSE F[s]}
<1>1. DOMAIN f = S /\ DOMAIN g = S /\ \A x \in S : f[x] \in Int /\ g[x] = IF x = a THEN v ELSE f[x]
  OBVIOUS
<1>2. SumFunction(f) = F[S] /\ SumFunction(g) = G[S]
  BY <1>1, SumUnfolds
<1> HIDE DEF g
<1>3. IsSum(F, f, S) /\ IsSum(G, g, S)
  BY SumDefined
<1> HIDE DEF F, G
<1>4. \A s \in SUBSET S : /\ F[s] = IF s = {} THEN 0 ELSE f[First(s)] + F[s \ {First(s)}]
                          /\ G[s] = IF s = {} THEN 0 ELSE g[First(s)] + G[s \ {First(s)}]
  BY <1>3 DEF IsSum
<1>5. 0 \in T
  <2>1. \A s \in Sized(S, 0) : s = {}
    <3> TAKE s \in Sized(S, 0)
    <3>1. s \in SUBSET S /\ Cardinality(s) <= 0
      BY DEF Sized
    <3>2. IsFiniteSet(s)
      BY <3>1, FS_Subset
    <3> QED  BY <3>1, <3>2, FS_CardinalityType, FS_EmptySet
  <2>2. {} \in SUBSET S
    OBVIOUS
  <2>3. F[{}] = 0 /\ G[{}] = 0 /\ a \notin {}
    BY <1>4, <2>2
  <2>4. ASSUME NEW s \in Sized(S, 0)
        PROVE  F[s] \in Int /\ G[s] = IF a \in s THEN F[s] - f[a] + v ELSE F[s]
    <3>1. F[s] = 0 /\ G[s] = 0 /\ a \notin s
      BY <2>1, <2>3
    <3> QED  BY <3>1
  <2> QED  BY <2>4
<1>6. ASSUME NEW n \in T
      PROVE  n + 1 \in T
  <2>0. n \in Nat /\ \A s \in Sized(S, n) :
                       F[s] \in Int /\ G[s] = IF a \in s THEN F[s] - f[a] + v ELSE F[s]
    BY <1>6
  <2>1. ASSUME NEW s \in Sized(S, n + 1)
        PROVE  F[s] \in Int /\ G[s] = IF a \in s THEN F[s] - f[a] + v ELSE F[s]
    <3>1. s \in SUBSET S /\ Cardinality(s) <= n + 1
      BY DEF Sized
    <3>2. CASE s = {}
      <4>1. F[s] = 0 /\ G[s] = 0 /\ a \notin s
        BY <1>4, <3>1, <3>2
      <4> QED  BY <4>1
    <3>3. CASE s # {}
      <4> DEFINE x == First(s)
                 r == s \ {First(s)}
      <4>1. x \in s /\ r \in SUBSET S /\ Cardinality(s) \in Nat /\ Cardinality(r) = Cardinality(s) - 1
        BY <3>1, <3>3, Smaller
      <4>2. F[s] = f[x] + F[r] /\ G[s] = g[x] + G[r]
        BY <1>4, <3>1, <3>3
      <4>3. a \in r <=> a \in s /\ a # x
        OBVIOUS
      <4>4. x \in S /\ (x = a => a \in s)
        BY <3>1, <4>1
      <4> HIDE DEF x, r
      <4>5. r \in Sized(S, n)
        BY <2>0, <3>1, <4>1 DEF Sized
      <4>6. F[r] \in Int /\ G[r] = IF a \in r THEN F[r] - f[a] + v ELSE F[r]
        BY <2>0, <4>5
      <4>7. f[x] \in Int /\ f[a] \in Int /\ v \in Int /\ g[x] = IF x = a THEN v ELSE f[x]
        BY <1>1, <4>4
      <4>8. CASE x = a
        BY <4>2, <4>3, <4>4, <4>6, <4>7, <4>8
      <4>9. CASE x # a
        BY <4>2, <4>3, <4>4, <4>6, <4>7, <4>9
      <4> QED  BY <4>8, <4>9
    <3> QED  BY <3>2, <3>3
  <2> QED  BY <2>0, <2>1
<1> HIDE DEF T
<1>7. T = Nat
  <2>1. T \in SUBSET Nat
    BY DEF T
  <2> QED  BY <1>5, <1>6, <2>1, Induction
<1>8. Cardinality(S) \in T /\ S \in Sized(S, Cardinality(S))
  <2>1. Cardinality(S) \in Nat
    BY FS_CardinalityType
  <2> QED  BY <1>7, <2>1 DEF Sized
<1>9. F[S] \in Int /\ G[S] = F[S] - f[a] + v
  BY <1>8 DEF T
<1> QED  BY <1>2, <1>9 DEF g

LEMMA SumIsInt ==
  ASSUME NEW S, IsFiniteSet(S), NEW f \in [S -> Int]
  PROVE  SumFunction(f) \in Int
<1>1. CASE S = {}
  <2> DEFINE F == SumOf(f, S)
  <2>1. IsSum(F, f, S) /\ SumFunction(f) = F[S]
    BY SumDefined, SumUnfolds
  <2> HIDE DEF F
  <2>2. F[S] = 0
    BY <1>1, <2>1 DEF IsSum
  <2> QED  BY <2>1, <2>2
<1>2. ASSUME NEW a \in S
      PROVE  SumFunction(f) \in Int
  <2>1. 0 \in Int
    OBVIOUS
  <2> QED  BY <2>1, SumWithOneChanged
<1> QED  BY <1>1, <1>2

\* Setting two accounts changes the sum by what both change.
LEMMA SumWithTwoChanged ==
  ASSUME NEW f \in [Addrs -> Int], NEW a \in Addrs, NEW b \in Addrs, NEW v \in Int, NEW w \in Int
  PROVE  /\ SumFunction(f) \in Int
         /\ a # b => SumFunction([[f EXCEPT ![b] = w] EXCEPT ![a] = v])
                       = SumFunction(f) - f[b] + w - f[a] + v
         /\ a = b => SumFunction([[f EXCEPT ![b] = w] EXCEPT ![a] = v]) = SumFunction(f) - f[a] + v
<1> DEFINE g == [f EXCEPT ![b] = w]
           h == [g EXCEPT ![a] = v]
<1>1. g \in [Addrs -> Int] /\ g[a] = IF a = b THEN w ELSE f[a]
  OBVIOUS
<1>2. SumFunction(f) \in Int /\ SumFunction(g) = SumFunction(f) - f[b] + w
  <2>1. IsFiniteSet(Addrs) /\ f \in [Addrs -> Int] /\ b \in Addrs /\ w \in Int
    BY AddressAssumption
  <2> QED  BY ONLY <2>1, SumWithOneChanged
<1> HIDE DEF g
<1>3. SumFunction(h) = SumFunction(g) - g[a] + v
  <2>1. IsFiniteSet(Addrs) /\ g \in [Addrs -> Int] /\ a \in Addrs /\ v \in Int
    BY <1>1, AddressAssumption
  <2> QED  BY ONLY <2>1, SumWithOneChanged
<1> DEFINE old == SumFunction(f)
           mid == SumFunction(g)
           new == SumFunction(h)
<1>4. f[a] \in Int /\ f[b] \in Int
  OBVIOUS
<1>5. /\ old \in Int
      /\ a # b => new = old - f[b] + w - f[a] + v
      /\ a = b => new = old - f[a] + v
  <2>1. /\ old \in Int /\ mid = old - f[b] + w /\ new = mid - g[a] + v
        /\ g[a] = IF a = b THEN w ELSE f[a]
    BY <1>1, <1>2, <1>3
  <2> HIDE DEF old, mid, new
  <2> QED  BY <1>4, <2>1
<1> QED  BY <1>5 DEF g

\* What the step of BalanceNeverCreated says.
ExactlyMoved ==
  LET moved == {x \in Addrs : balance'[x] # balance[x]}
  IN  \A x, y \in moved : /\ balance[x] \in 0 .. MaxExact
                          /\ x # y => balance[x] + balance[y] <= MaxExact

LEMMA SumOfMove ==
  ASSUME NEW f \in [Addrs -> Int], NEW g, NEW a \in Addrs, NEW b \in Addrs, NEW s,
         Double(f[a]) > 0, s \in Formats(Double(Double(f[b]) + Double(f[a]))),
         g = [[f EXCEPT ![b] = s] EXCEPT ![a] = 0],
         \A x, y \in {z \in Addrs : g[z] # f[z]} : /\ f[x] \in 0 .. MaxExact
                                                   /\ x # y => f[x] + f[y] <= MaxExact
  PROVE  SumFunction(g) <= SumFunction(f)
<1> DEFINE moved == {z \in Addrs : g[z] # f[z]}
           sum == Double(Double(f[b]) + Double(f[a]))
<1>0. MaxExact \in Nat /\ MaxLong \in Nat /\ MaxLong > MaxExact
  BY ExactAssumption DEF MaxLong
<1>1. s \in Int /\ f[a] \in Int /\ f[b] \in Int /\ 0 \in Int
  <2>1. f[a] \in Int /\ f[b] \in Int
    OBVIOUS
  <2>2. Double(f[a]) \in Int /\ Double(f[b]) \in Int
    BY <2>1, DoubleFacts
  <2>3. sum \in Int
    BY <2>2, DoubleFacts
  <2> HIDE DEF sum
  <2>4. s \in Formats(sum)
    BY DEF sum
  <2> QED  BY <2>1, <2>3, <2>4, FormatsInt
<1>2. /\ SumFunction(f) \in Int
      /\ a # b => SumFunction(g) = SumFunction(f) - f[b] + s - f[a] + 0
      /\ a = b => SumFunction(g) = SumFunction(f) - f[a] + 0
  <2> DEFINE h == [[f EXCEPT ![b] = s] EXCEPT ![a] = 0]
  <2>1. /\ SumFunction(f) \in Int
        /\ a # b => SumFunction(h) = SumFunction(f) - f[b] + s - f[a] + 0
        /\ a = b => SumFunction(h) = SumFunction(f) - f[a] + 0
    <3>1. s \in Int /\ 0 \in Int
      BY <1>1
    <3> HIDE DEF moved, sum
    <3> QED  BY ONLY <3>1, f \in [Addrs -> Int], a \in Addrs, b \in Addrs, SumWithTwoChanged, ZenonT(60)
  <2>2. g = h
    OBVIOUS
  <2> QED  BY <2>1, <2>2
<1>3. g[a] = 0 /\ (a # b => g[b] = s)
  OBVIOUS
<1>4. f[a] # 0
  BY <1>0, DoubleFacts
<1>5. a \in moved /\ (a # b /\ s # f[b] => b \in moved)
  BY <1>3, <1>4
<1>6. \A x, y \in moved : /\ f[x] \in 0 .. MaxExact
                          /\ x # y => f[x] + f[y] <= MaxExact
  OBVIOUS
<1> HIDE DEF moved, sum
<1>7. f[a] \in 0 .. MaxExact
  BY <1>5, <1>6
<1>8. a # b /\ s # f[b] => f[b] \in 0 .. MaxExact /\ f[a] + f[b] <= MaxExact
  BY <1>5, <1>6
<1>9. a # b /\ s # f[b] => s = f[b] + f[a]
  <2> SUFFICES ASSUME a # b, s # f[b] PROVE s = f[b] + f[a]
    OBVIOUS
  <2>1. Double(f[b]) = f[b] /\ Double(f[a]) = f[a]
    BY <1>1, <1>7, <1>8, DoubleFacts
  <2>2. f[b] + f[a] \in 0 .. MaxExact /\ f[b] + f[a] \in Int
    BY <1>0, <1>1, <1>7, <1>8
  <2>3. sum = f[b] + f[a]
    BY <2>1, <2>2, DoubleFacts DEF sum
  <2>4. sum < MaxLong
    BY <1>0, <2>2, <2>3
  <2>5. s \in Formats(sum)
    BY DEF sum
  <2> QED  BY <2>3, <2>4, <2>5 DEF Formats
<1>10. f[a] \in Nat /\ (a # b => s = f[b] \/ s = f[b] + f[a])
  BY <1>0, <1>7, <1>9
<1> QED  BY <1>1, <1>2, <1>10

LEMMA BalancesMoved ==
  ASSUME TypeOK, NEW b \in Addrs, SelfDestruct(b), ExactlyMoved
  PROVE  SumFunction(balance') <= SumFunction(balance)
<1>1. PICK t \in Addrs : t = Top.addr
  <2>1. ~Idle
    BY DEF SelfDestruct, Charge, HasOpcode, Running
  <2> QED  BY <2>1, TopFacts DEF Frame
<1>2. balance \in [Addrs -> Int]
  BY DEF TypeOK
<1>3. SumFunction(balance) \in Int
  BY <1>2, AddressAssumption, SumIsInt
<1>4. \/ balance' = balance
      \/ /\ Double(balance[t]) > 0
         /\ \E s \in Formats(Double(Double(balance[b]) + Double(balance[t]))) :
              balance' = [[balance EXCEPT ![b] = s] EXCEPT ![t] = 0]
  BY <1>1 DEF SelfDestruct
<1>5. \A x, y \in {z \in Addrs : balance'[z] # balance[z]} :
        /\ balance[x] \in 0 .. MaxExact
        /\ x # y => balance[x] + balance[y] <= MaxExact
  BY DEF ExactlyMoved
<1>6. CASE balance' = balance
  BY <1>3, <1>6
<1>7. ASSUME Double(balance[t]) > 0,
             NEW s \in Formats(Double(Double(balance[b]) + Double(balance[t]))),
             balance' = [[balance EXCEPT ![b] = s] EXCEPT ![t] = 0]
      PROVE  SumFunction(balance') <= SumFunction(balance)
  BY <1>2, <1>5, <1>7, SumOfMove
<1> QED  BY <1>4, <1>6, <1>7

\* SELFDESTRUCT moves a balance, to itself, to an enclosing frame's account or to any other,
\* and burns it at most, if doubles hold what it moves; no other opcode moves any
\* (evm.lua:1629-1632).
THEOREM NoBalanceCreated == Spec => BalanceNeverCreated
<1>1. ASSUME TypeOK, Next
      PROVE  balance' = balance \/ \E b \in Addrs : SelfDestruct(b)
  <2>1. CASE Opcode
    BY <2>1
      DEF Opcode, Plain, SStore, Stop, BadJump, Return, Revert, Abort, Hang, UnknownOpcode,
          CallTooDeep, CallNoCode, CallHostFails, Call, CreateFails, Create, OutOfGas, world
  <2>2. CASE Unwind
    BY <2>2 DEF Unwind, ReturnToCaller, ReturnToCreator, CreationFailed, Answer, world
  <2>3. CASE \E a \in Addrs : EthCall(a)
    BY <2>3 DEF EthCall, world
  <2> QED  BY <1>1, <2>1, <2>2, <2>3 DEF Next, Step
<1>2. TypeOK => SumFunction(balance) \in Int
  <2>1. SUFFICES ASSUME TypeOK PROVE SumFunction(balance) \in Int
    OBVIOUS
  <2> QED  BY <2>1, AddressAssumption, SumIsInt DEF TypeOK
<1>3. TypeOK /\ Next => (ExactlyMoved => SumFunction(balance') <= SumFunction(balance))
  <2>1. SUFFICES ASSUME TypeOK, Next, ExactlyMoved PROVE SumFunction(balance') <= SumFunction(balance)
    OBVIOUS
  <2>2. CASE balance' = balance
    BY <1>2, <2>1, <2>2
  <2>3. CASE \E b \in Addrs : SelfDestruct(b)
    BY <2>1, <2>3, BalancesMoved
  <2> QED  BY <1>1, <2>1, <2>2, <2>3
<1>4. TypeOK /\ [Next]_vars =>
        [LET moved == {x \in Addrs : balance'[x] # balance[x]} IN
         (\A x, y \in moved : /\ balance[x] \in 0 .. MaxExact
                              /\ x # y => balance[x] + balance[y] <= MaxExact)
           => SumFunction(balance') <= SumFunction(balance)]_vars
  BY <1>3 DEF ExactlyMoved
<1> QED  BY <1>4, TypeCorrect, PTL DEF Spec, BalanceNeverCreated

------------------------------------------------------------------------------
(***************************************************************************)
(*                      Part II: CallAgreement                             *)
(***************************************************************************)

(***************************************************************************)
(* Between calls nothing but EvmCallTree moves evm.lua's side.             *)
(***************************************************************************)
LEMMA BothNextIsNext ==
  ASSUME [BothNext]_bothVars
  PROVE  [Next]_vars
<1>0. Callees \subseteq Addrs
  BY AgreementAssumption
<1>1. CASE Over \/ UNCHANGED bothVars
  BY <1>1 DEF Over, bothVars, vars
<1>2. ASSUME NEW a \in Callees, BothBegin(a)
      PROVE  Next
  BY <1>0, <1>2 DEF BothBegin, Next
<1>3. ASSUME NEW s \in Slots, NEW w \in Words, BothSStore(s, w) \/ BothTStore(s, w)
      PROVE  Next
  BY <1>3 DEF BothSStore, BothTStore, Next, Step, Opcode
<1>4. ASSUME NEW d \in Data, BothLog(d)
      PROVE  Next
  BY <1>4 DEF BothLog, Next, Step, Opcode
<1>5. ASSUME NEW b \in Addrs, BothSelfDestruct(b)
      PROVE  Next
  BY <1>5 DEF BothSelfDestruct, Next, Step, Opcode
<1>6. CASE BothHalt
  BY <1>6 DEF BothHalt, Next, Step, Opcode
<1>7. ASSUME NEW kind \in CallKinds, NEW to \in Callees, NEW v, BothCall(kind, to, v)
      PROVE  Next
  BY <1>0, <1>7 DEF BothCall, Next, Step, Opcode
<1>8. ASSUME NEW v, NEW init \in Data, BothCreate("CREATE", v, init, 0)
      PROVE  Next
  BY <1>8 DEF BothCreate, Next, Step, Opcode
<1>9. ASSUME NEW v, NEW init \in Data, NEW salt \in Salts, BothCreate("CREATE2", v, init, salt)
      PROVE  Next
  BY <1>9 DEF BothCreate, Next, Step, Opcode
<1>10. CASE BothUnwind
  BY <1>10 DEF BothUnwind, Next, Step
<1>11. {"CALL", "CALLCODE", "DELEGATECALL", "STATICCALL"} = CallKinds
  BY DEF CallKinds
<1> QED
  BY <1>1, <1>2, <1>3, <1>4, <1>5, <1>6, <1>7, <1>8, <1>9, <1>10, <1>11 DEF BothNext, BothStep

\* The lockstep machine runs evm.lua's call tree and no other: what holds of EvmCallTree
\* holds of its side of the comparison.
THEOREM BothRunTheTree == BothSpec => Spec
<1>1. BothInit => Init
  BY DEF BothInit
<1>2. [BothNext]_bothVars => [Next]_vars
  BY BothNextIsNext
<1> QED  BY <1>1, <1>2, PTL DEF BothSpec, Spec

------------------------------------------------------------------------------
(***************************************************************************)
(* The reference's side: the sets its state and its frames are in.         *)
(***************************************************************************)
RefStates ==
  [storage   : [Addrs -> [Slots -> Words]],
   transient : [Addrs -> [Slots -> Words]],
   code      : [Addrs -> Data],
   nonce     : [Addrs -> Nat],
   balance   : [Addrs -> Nat],
   logs      : Seq(Addrs \X Data),
   created   : SUBSET Addrs,
   doomed    : SUBSET Addrs]

RefFrames ==
  [kind   : {"TOP"} \cup CallKinds \cup CreateKinds,
   target : Addrs,
   caller : Addrs \cup {Sender},
   value  : Nat,
   static : BOOLEAN,
   code   : Data,
   rdata  : Data,
   output : Data,
   flag   : Flags,
   status : Statuses,
   snap   : RefStates]

RefOK == state \in RefStates /\ evms \in Seq(RefFrames)

\* What of a frame of the reference stays as long as it is there.
RefSame(e, g) == e.kind = g.kind /\ e.target = g.target /\ e.caller = g.caller /\ e.value = g.value

RefNoneOpened ==
  /\ Len(evms') <= Len(evms)
  /\ \A i \in 1 .. Len(evms') : RefSame(evms'[i], evms[i])

RefOneOpened ==
  /\ Len(evms) \in Nat \ {0}
  /\ Len(evms') = Len(evms) + 1
  /\ \A i \in 1 .. Len(evms) : RefSame(evms'[i], evms[i])
  /\ evms'[Len(evms) + 1].kind = "DELEGATECALL" =>
       /\ evms'[Len(evms) + 1].caller = Ref!Top.caller
       /\ evms'[Len(evms) + 1].value = Ref!Top.value
  /\ evms'[Len(evms) + 1].kind # "DELEGATECALL" => evms'[Len(evms) + 1].caller \in Addrs

RefBegun ==
  /\ Len(evms') = 1
  /\ evms'[1].caller = Sender /\ evms'[1].value = Sent

LEMMA RefTopFacts ==
  ASSUME RefOK, evms # <<>>
  PROVE  /\ Len(evms) \in Nat \ {0}
         /\ Ref!Top \in RefFrames
BY EmptySeq, LenProperties, ElementOfSeq DEF RefOK, Ref!Top

\* Updating the innermost frame.
LEMMA RefSetTop ==
  ASSUME RefOK, evms # <<>>,
         NEW f \in RefFrames, RefSame(f, Ref!Top), Ref!SetTop(f)
  PROVE  /\ evms' \in Seq(RefFrames)
         /\ Len(evms') = Len(evms)
         /\ evms'[Len(evms)] = f
         /\ \A i \in 1 .. Len(evms) - 1 : evms'[i] = evms[i]
         /\ RefNoneOpened
<1>1. Len(evms) \in 1 .. Len(evms) /\ evms \in Seq(RefFrames) /\ Len(evms) \in Nat \ {0}
  BY RefTopFacts DEF RefOK
<1>2. evms' = [evms EXCEPT ![Len(evms)] = f]
  BY DEF Ref!SetTop
<1>3. /\ evms' \in Seq(RefFrames)
      /\ Len(evms') = Len(evms)
      /\ \A i \in 1 .. Len(evms) : evms'[i] = IF i = Len(evms) THEN f ELSE evms[i]
  BY <1>1, <1>2, ExceptSeq
<1>4. \A i \in 1 .. Len(evms') : RefSame(evms'[i], evms[i])
  BY <1>1, <1>3 DEF RefSame, Ref!Top
<1> QED  BY <1>1, <1>3, <1>4 DEF RefNoneOpened

\* Opening a frame on top of the innermost one, whose buffer is emptied.
LEMMA RefOpen ==
  ASSUME RefOK, evms # <<>>,
         NEW g \in RefFrames,
         evms' = Append([evms EXCEPT ![Len(evms)].rdata = Empty], g),
         g.kind = "DELEGATECALL" => g.caller = Ref!Top.caller /\ g.value = Ref!Top.value,
         g.kind # "DELEGATECALL" => g.caller \in Addrs
  PROVE  /\ evms' \in Seq(RefFrames)
         /\ Len(evms') = Len(evms) + 1
         /\ evms'[Len(evms) + 1] = g
         /\ evms'[Len(evms)] = [Ref!Top EXCEPT !.rdata = Empty]
         /\ \A i \in 1 .. Len(evms) - 1 : evms'[i] = evms[i]
         /\ RefOneOpened
<1> DEFINE f == [Ref!Top EXCEPT !.rdata = Empty]
           es == [evms EXCEPT ![Len(evms)] = f]
<1>1. Len(evms) \in 1 .. Len(evms) /\ evms \in Seq(RefFrames) /\ Len(evms) \in Nat \ {0}
  BY RefTopFacts DEF RefOK
<1>2. f \in RefFrames /\ RefSame(f, Ref!Top)
  BY RefTopFacts DEF RefFrames, RefSame, Data
<1>3. evms' = Append(es, g)
  BY DEF Ref!Top
<1> HIDE DEF f
<1>4. /\ es \in Seq(RefFrames)
      /\ Len(es) = Len(evms)
      /\ \A i \in 1 .. Len(evms) : es[i] = IF i = Len(evms) THEN f ELSE evms[i]
  BY <1>1, <1>2, ExceptSeq
<1> HIDE DEF es
<1>5. /\ evms' \in Seq(RefFrames)
      /\ Len(evms') = Len(evms) + 1
      /\ evms'[Len(evms) + 1] = g
      /\ \A i \in 1 .. Len(evms) : evms'[i] = es[i]
  <2> DEFINE gs == Append(es, g)
  <2>1. /\ gs \in Seq(RefFrames)
        /\ Len(gs) = Len(es) + 1
        /\ gs[Len(es) + 1] = g
        /\ \A i \in 1 .. Len(es) : gs[i] = es[i]
    BY <1>4, AppendProperties
  <2>2. evms' = gs
    BY <1>3
  <2> HIDE DEF gs
  <2> QED  BY <2>1, <2>2, <1>4
<1>6. \A i \in 1 .. Len(evms) : RefSame(evms'[i], evms[i])
  BY <1>2, <1>4, <1>5 DEF RefSame, Ref!Top
<1>7. evms'[Len(evms)] = f /\ \A i \in 1 .. Len(evms) - 1 : evms'[i] = evms[i]
  BY <1>1, <1>4, <1>5
<1> QED  BY <1>1, <1>5, <1>6, <1>7 DEF RefOneOpened, f

\* Closing the innermost frame; the one below goes on.
LEMMA RefResume ==
  ASSUME RefOK, Len(evms) >= 2,
         NEW f \in RefFrames, RefSame(f, Ref!Below), Ref!Resume(f)
  PROVE  /\ evms' \in Seq(RefFrames)
         /\ Len(evms') = Len(evms) - 1
         /\ evms'[Len(evms) - 1] = f
         /\ \A i \in 1 .. Len(evms) - 2 : evms'[i] = evms[i]
         /\ RefNoneOpened
<1> DEFINE m == Len(evms) - 1
           sub == SubSeq(evms, 1, m)
<1>1. evms \in Seq(RefFrames) /\ Len(evms) \in Nat /\ m \in Nat \ {0} /\ Len(evms) = m + 1
  BY LenProperties DEF RefOK
<1>2. evms' = [sub EXCEPT ![m] = f]
  BY DEF Ref!Resume
<1>3. f.kind = evms[m].kind /\ f.target = evms[m].target
      /\ f.caller = evms[m].caller /\ f.value = evms[m].value
  BY DEF RefSame, Ref!Below
<1> HIDE DEF m
<1>4. sub \in Seq(RefFrames) /\ Len(sub) = m /\ \A i \in 1 .. m : sub[i] = evms[i]
  <2>1. \A i \in 1 .. m : evms[i] \in RefFrames
    BY <1>1, ElementOfSeq
  <2> QED  BY <1>1, <2>1, SubSeqProperties
<1> HIDE DEF sub
<1>5. /\ evms' \in Seq(RefFrames)
      /\ Len(evms') = m
      /\ \A i \in 1 .. m : evms'[i] = IF i = m THEN f ELSE sub[i]
  BY <1>1, <1>2, <1>4, ExceptSeq
<1>6. \A i \in 1 .. m : RefSame(evms'[i], evms[i])
  BY <1>3, <1>4, <1>5 DEF RefSame
<1>7. /\ evms'[m] = f
      /\ \A i \in 1 .. m - 1 : evms'[i] = evms[i]
  BY <1>1, <1>4, <1>5
<1>8. Len(evms) - 1 = m /\ Len(evms) - 2 = m - 1 /\ m <= Len(evms)
  BY <1>1
<1> QED  BY <1>5, <1>6, <1>7, <1>8 DEF RefNoneOpened

\* A step of the reference that opens no frame.
RefKeeps == RefOK' /\ RefNoneOpened

LEMMA RefUnchanged ==
  ASSUME RefOK, UNCHANGED evms, state' \in RefStates
  PROVE  RefKeeps
BY LenProperties DEF RefOK, RefKeeps, RefNoneOpened, RefSame

\* Halts, flags and buffers.
LEMMA RefEdit ==
  ASSUME RefOK, evms # <<>>, state' \in RefStates,
         NEW st \in Statuses, NEW d \in Data, NEW fl \in Flags,
         NEW f \in {[Ref!Top EXCEPT !.status = st], [Ref!Top EXCEPT !.status = st, !.output = d],
                    [Ref!Top EXCEPT !.rdata = d, !.flag = fl]},
         Ref!SetTop(f)
  PROVE  RefKeeps
<1>1. f \in RefFrames /\ RefSame(f, Ref!Top)
  BY RefTopFacts DEF RefFrames, RefSame
<1> QED  BY <1>1, RefSetTop DEF RefKeeps, RefOK

\* move_ether never overdraws where the sender can pay.
LEMMA RefMoved ==
  ASSUME NEW bs \in [Addrs -> Nat], NEW from \in Addrs, NEW to \in Addrs,
         NEW v \in Nat, ~(bs[from] < v)
  PROVE  Ref!Moved(bs, from, to, v) \in [Addrs -> Nat]
BY DEF Ref!Moved

LEMMA RefHaltKeeps ==
  ASSUME RefOK,
         \/ Ref!Stop \/ Ref!Raise \/ Ref!EndOfCode
         \/ \E d \in Data : Ref!Return(d) \/ Ref!Revert(d)
  PROVE  RefKeeps
<1>0. /\ {"stopped", "returned", "reverted", "failed"} \subseteq Statuses
      /\ Empty \in Data /\ "none" \in Flags
  BY DEF Statuses, Data, Flags
<1>1. CASE Ref!EndOfCode
  <2>1. evms # <<>> /\ state' \in RefStates /\ Ref!SetTop([Ref!Top EXCEPT !.status = "stopped"])
    BY <1>1 DEF Ref!EndOfCode, Ref!Running, RefOK
  <2> QED  BY <1>0, <2>1, RefEdit
<1>2. ASSUME NEW st \in Statuses, NEW d \in Data, Ref!Halt(st, d)
      PROVE  RefKeeps
  <2>1. /\ evms # <<>> /\ state' \in RefStates
        /\ Ref!SetTop([Ref!Top EXCEPT !.status = st, !.output = d])
    BY <1>2 DEF Ref!Halt, Ref!HasOpcode, Ref!Running, RefOK
  <2> QED  BY <1>0, <2>1, RefEdit
<1> QED  BY <1>0, <1>1, <1>2 DEF Ref!Stop, Ref!Raise, Ref!Return, Ref!Revert

LEMMA RefWriteKeeps ==
  ASSUME RefOK,
         \/ \E s \in Slots, w \in Words : Ref!SStore(s, w) \/ Ref!TStore(s, w)
         \/ \E d \in Data : Ref!LogN(d)
         \/ \E b \in Addrs : Ref!SelfDestruct(b)
  PROVE  RefKeeps
<1>1. CASE Ref!RejectWrite
  BY <1>1, RefHaltKeeps DEF Ref!RejectWrite
<1>2. ASSUME NEW new \in RefStates, Ref!Write(new)
      PROVE  RefKeeps
  BY <1>2, RefUnchanged DEF Ref!Write
<1>3. ASSUME evms # <<>>
      PROVE  Ref!Top.target \in Addrs
  BY <1>3, RefTopFacts DEF RefFrames
<1>4. ASSUME NEW s \in Slots, NEW w \in Words, Ref!SStore(s, w) \/ Ref!TStore(s, w)
      PROVE  RefKeeps
  <2>1. CASE evms # <<>>
    <3>1. /\ [state EXCEPT !.storage[Ref!Top.target][s] = w] \in RefStates
          /\ [state EXCEPT !.transient[Ref!Top.target][s] = w] \in RefStates
      BY <1>3, <2>1 DEF RefOK, RefStates
    <3> QED  BY <1>1, <1>2, <1>4, <3>1 DEF Ref!SStore, Ref!TStore
  <2>2. CASE evms = <<>>
    BY <1>4, <2>2 DEF Ref!SStore, Ref!TStore, Ref!RejectWrite, Ref!Raise, Ref!Halt, Ref!Write,
                      Ref!HasOpcode, Ref!Running
  <2> QED  BY <2>1, <2>2
<1>5. ASSUME NEW d \in Data, Ref!LogN(d)
      PROVE  RefKeeps
  <2>1. CASE Ref!RejectWrite
    BY <2>1, <1>1
  <2>2. CASE Ref!Write([state EXCEPT !.logs = Append(@, <<Ref!Top.target, d>>)])
    <3>1. evms # <<>>
      BY <2>2 DEF Ref!Write, Ref!HasOpcode, Ref!Running
    <3>2. <<Ref!Top.target, d>> \in Addrs \X Data /\ state.logs \in Seq(Addrs \X Data)
      BY <1>3, <3>1 DEF RefOK, RefStates
    <3> DEFINE entry == <<Ref!Top.target, d>>
               logs == Append(state.logs, entry)
    <3>3. logs \in Seq(Addrs \X Data)
      BY <3>2, AppendProperties
    <3>4. state' = [state EXCEPT !.logs = logs] /\ UNCHANGED evms
      BY <2>2 DEF Ref!Write
    <3> HIDE DEF logs
    <3>5. state' \in RefStates
      BY <3>3, <3>4 DEF RefOK, RefStates
    <3> QED  BY <3>4, <3>5, RefUnchanged
  <2> QED  BY <1>5, <2>1, <2>2 DEF Ref!LogN
<1>6. ASSUME NEW b \in Addrs, Ref!SelfDestruct(b)
      PROVE  RefKeeps
  <2>1. CASE Ref!RejectWrite
    BY <2>1, <1>1
  <2>2. CASE ~Ref!RejectWrite
    <3>1. evms # <<>> /\ Ref!SetTop([Ref!Top EXCEPT !.status = "stopped"])
      BY <1>6, <2>2 DEF Ref!SelfDestruct, Ref!HasOpcode, Ref!Running
    <3>2. Ref!Top.target \in Addrs /\ state.balance \in [Addrs -> Nat]
      BY <1>3, <3>1 DEF RefOK, RefStates
    <3> DEFINE moved == Ref!Moved(state.balance, Ref!Top.target, b, state.balance[Ref!Top.target])
               burnt == [moved EXCEPT ![Ref!Top.target] = 0]
    <3>3. moved \in [Addrs -> Nat]
      BY <3>2, RefMoved
    <3>4. \/ state' = [state EXCEPT !.balance = burnt, !.doomed = @ \cup {Ref!Top.target}]
          \/ state' = [state EXCEPT !.balance = moved]
      BY <1>6, <2>2 DEF Ref!SelfDestruct
    <3> HIDE DEF moved
    <3>5. burnt \in [Addrs -> Nat]
      BY <3>3
    <3> HIDE DEF burnt
    <3>6. state' \in RefStates
      <4>1. CASE state' = [state EXCEPT !.balance = moved]
        BY <3>3, <4>1 DEF RefOK, RefStates
      <4>2. CASE state' = [state EXCEPT !.balance = burnt, !.doomed = @ \cup {Ref!Top.target}]
        <5> DEFINE doomed == state.doomed \cup {Ref!Top.target}
        <5>1. doomed \in SUBSET Addrs
          BY <3>2 DEF RefOK, RefStates
        <5>2. state' = [state EXCEPT !.balance = burnt, !.doomed = doomed]
          BY <4>2
        <5> HIDE DEF doomed
        <5> QED  BY <3>5, <5>1, <5>2 DEF RefOK, RefStates
      <4> QED  BY <3>4, <4>1, <4>2
    <3>7. "stopped" \in Statuses /\ Empty \in Data /\ "none" \in Flags
      BY DEF Statuses, Data, Flags
    <3> QED  BY <3>1, <3>6, <3>7, RefEdit
  <2> QED  BY <2>1, <2>2
<1> QED  BY <1>4, <1>5, <1>6

LEMMA RefPushKeeps ==
  ASSUME RefOK, evms # <<>>, state' \in RefStates, NEW fl \in Flags, Ref!Push(fl)
  PROVE  RefKeeps
<1>1. Ref!SetTop([Ref!Top EXCEPT !.rdata = Empty, !.flag = fl])
  BY DEF Ref!Push
<1>2. "run" \in Statuses /\ Empty \in Data
  BY DEF Statuses, Data
<1> QED  BY <1>1, <1>2, RefEdit

\* The value moves only where the balance covers it.
LEMMA RefPaid ==
  ASSUME RefOK, evms # <<>>, NEW kind \in CallKinds, NEW to \in Addrs, NEW v \in Nat,
         ~Ref!Refused(v)
  PROVE  /\ Ref!Paid(kind, to, v) \in RefStates
         /\ Ref!Target(kind, to) \in Addrs
<1>1. /\ Ref!Top.target \in Addrs
      /\ state \in RefStates /\ state.balance \in [Addrs -> Nat]
      /\ ~(state.balance[Ref!Top.target] < v)
  BY RefTopFacts DEF RefOK, RefStates, RefFrames, Ref!Refused
<1> DEFINE target == Ref!Target(kind, to)
           moved  == Ref!Moved(state.balance, Ref!Top.target, target, v)
<1>2. target \in Addrs
  BY <1>1 DEF Ref!Target
<1> HIDE DEF target
<1>3. moved \in [Addrs -> Nat]
  BY <1>1, <1>2, RefMoved
<1>4. Ref!Paid(kind, to, v) \in {state, [state EXCEPT !.balance = moved]}
  BY DEF Ref!Paid, target
<1> HIDE DEF moved
<1>5. Ref!Paid(kind, to, v) \in RefStates
  BY <1>1, <1>3, <1>4 DEF RefStates
<1> QED  BY <1>2, <1>5 DEF target

LEMMA RefCallOpens ==
  ASSUME RefOK, NEW kind \in CallKinds, NEW to \in Addrs, NEW v \in Nat, Ref!Call(kind, to, v)
  PROVE  \/ RefKeeps
         \/ /\ RefOK' /\ RefOneOpened
            /\ evms'[Len(evms) + 1].kind = kind
            /\ evms'[Len(evms) + 1].target = Ref!Target(kind, to)
<1>0. {"0", "1"} \subseteq Flags
  BY DEF Flags
<1>1. CASE Ref!CallRejected(kind, v)
  <2>1. Ref!Raise
    BY <1>1 DEF Ref!CallRejected, Ref!RejectWrite
  <2> QED  BY <2>1, RefHaltKeeps
<1>2. CASE Ref!CallRefused(kind, v)
  <2>1. evms # <<>> /\ state' \in RefStates /\ Ref!Push("0")
    BY <1>2 DEF Ref!CallRefused, Ref!CallAllowed, Ref!HasOpcode, Ref!Running, RefOK
  <2> QED  BY <1>0, <2>1, RefPushKeeps
<1>3. CASE Ref!CallNoCode(kind, to, v)
  <2>1. evms # <<>> /\ ~Ref!Refused(v) /\ state' = Ref!Paid(kind, to, v) /\ Ref!Push("1")
    BY <1>3 DEF Ref!CallNoCode, Ref!CallAllowed, Ref!HasOpcode, Ref!Running
  <2> QED  BY <1>0, <2>1, RefPaid, RefPushKeeps
<1>4. CASE Ref!CallRuns(kind, to, v)
  <2>1. evms # <<>> /\ ~Ref!Refused(v) /\ state' = Ref!Paid(kind, to, v)
    BY <1>4 DEF Ref!CallRuns, Ref!CallAllowed, Ref!HasOpcode, Ref!Running
  <2>2. state' \in RefStates /\ Ref!Target(kind, to) \in Addrs /\ state \in RefStates
    BY <2>1, RefPaid DEF RefOK
  <2> DEFINE target == Ref!Target(kind, to)
             caller == Ref!Caller(kind)
             value  == Ref!Value(kind, v)
             static == Ref!Top.static \/ kind = "STATICCALL"
             bytes  == state.code[to]
             g == Ref!NewEvm(kind, target, caller, value, static, bytes, state)
  <2>3. /\ kind \in {"TOP"} \cup CallKinds \cup CreateKinds
        /\ target \in Addrs
        /\ caller \in Addrs \cup {Sender}
        /\ value \in Nat
        /\ static \in BOOLEAN
        /\ bytes \in Data
        /\ kind = "DELEGATECALL" => caller = Ref!Top.caller /\ value = Ref!Top.value
        /\ kind # "DELEGATECALL" => caller \in Addrs
    BY <2>1, <2>2, RefTopFacts DEF Ref!Caller, Ref!Value, RefFrames, RefStates
  <2>4. evms' = Append([evms EXCEPT ![Len(evms)].rdata = Empty], g)
    BY <1>4 DEF Ref!CallRuns
  <2> HIDE DEF target, caller, value, static, bytes
  <2>5. g \in RefFrames /\ g.kind = kind /\ g.target = target /\ g.caller = caller /\ g.value = value
    BY <2>2, <2>3 DEF Ref!NewEvm, RefFrames, Data, Flags, Statuses
  <2> HIDE DEF g
  <2> QED  BY <2>1, <2>2, <2>3, <2>4, <2>5, RefOpen DEF RefOK, target
<1> QED  BY <1>1, <1>2, <1>3, <1>4 DEF Ref!Call

LEMMA RefCreateOpens ==
  ASSUME RefOK, NEW kind \in CreateKinds, NEW v \in Nat, NEW init \in Data, NEW salt,
         evms # <<>> => Ref!NewAddress(kind, init, salt) \in Addrs,
         Ref!Create(kind, v, init, salt)
  PROVE  RefKeeps \/ (RefOK' /\ RefOneOpened)
<1> DEFINE new == Ref!NewAddress(kind, init, salt)
<1>0. "0" \in Flags
  BY DEF Flags
<1>1. CASE Ref!RejectWrite
  BY <1>1, RefHaltKeeps DEF Ref!RejectWrite
<1>2. CASE Ref!CreateRefused(v)
  <2>1. evms # <<>> /\ state' \in RefStates /\ Ref!Push("0")
    BY <1>2 DEF Ref!CreateRefused, Ref!HasOpcode, Ref!Running, RefOK
  <2> QED  BY <1>0, <2>1, RefPushKeeps
<1>3. ASSUME evms # <<>>
      PROVE  Ref!Counted \in RefStates /\ Ref!Counted.balance = state.balance
  <2> DEFINE nonces == [state.nonce EXCEPT ![Ref!Top.target] = @ + 1]
  <2>1. Ref!Top.target \in Addrs /\ state \in RefStates /\ state.nonce \in [Addrs -> Nat]
    BY <1>3, RefTopFacts DEF RefOK, RefStates, RefFrames
  <2>2. nonces \in [Addrs -> Nat]
    BY <2>1
  <2>3. Ref!Counted = [state EXCEPT !.nonce = nonces]
    BY <2>1 DEF Ref!Counted, RefStates
  <2> HIDE DEF nonces
  <2> QED  BY <2>1, <2>2, <2>3 DEF RefStates
<1>4. CASE Ref!CreateCollides(new, v)
  <2>1. evms # <<>> /\ state' = Ref!Counted /\ Ref!Push("0")
    BY <1>4 DEF Ref!CreateCollides, Ref!HasOpcode, Ref!Running
  <2> QED  BY <1>0, <1>3, <2>1, RefPushKeeps
<1>5. CASE Ref!CreateRuns(kind, new, v, init)
  <2>1. evms # <<>> /\ ~Ref!Refused(v)
    BY <1>5 DEF Ref!CreateRuns, Ref!HasOpcode, Ref!Running
  <2>2. /\ Ref!Top.target \in Addrs /\ new \in Addrs
        /\ state.balance \in [Addrs -> Nat]
        /\ ~(state.balance[Ref!Top.target] < v)
    BY <2>1, RefTopFacts DEF RefOK, RefStates, RefFrames, Ref!Refused
  <2> DEFINE moved == Ref!Moved(state.balance, Ref!Top.target, new, v)
             made  == Ref!Counted.created \cup {new}
             static == FALSE
             caller == Ref!Top.target
             snap   == Ref!Counted
             g == Ref!NewEvm(kind, new, caller, v, static, init, snap)
  <2>3. /\ evms' = Append([evms EXCEPT ![Len(evms)].rdata = Empty], g)
        /\ state' = [Ref!Counted EXCEPT !.nonce[new] = 1, !.created = made, !.balance = moved]
    BY <1>3, <1>5, <2>1 DEF Ref!CreateRuns
  <2> HIDE DEF new
  <2>4. moved \in [Addrs -> Nat]
    BY <2>2, RefMoved
  <2>5. made \in SUBSET Addrs
    BY <1>3, <2>1, <2>2 DEF RefStates
  <2> HIDE DEF moved, made
  <2>6. state' \in RefStates
    BY <1>3, <2>1, <2>2, <2>3, <2>4, <2>5 DEF RefStates
  <2>7. /\ kind \in {"TOP"} \cup CallKinds \cup CreateKinds
        /\ caller \in Addrs /\ static \in BOOLEAN /\ snap \in RefStates
    BY <1>3, <2>1, <2>2
  <2> HIDE DEF caller, static, snap
  <2>8. g \in RefFrames /\ g.kind = kind /\ g.caller = caller
    BY <2>2, <2>7 DEF Ref!NewEvm, RefFrames, Data, Flags, Statuses
  <2> HIDE DEF g
  <2>9. g.kind # "DELEGATECALL"
    BY <2>8 DEF CreateKinds
  <2> QED  BY <2>1, <2>3, <2>6, <2>7, <2>8, <2>9, RefOpen DEF RefOK
<1> QED  BY <1>1, <1>2, <1>4, <1>5 DEF Ref!Create

\* The frame below a nested one goes on.
LEMMA RefResumeKeeps ==
  ASSUME RefOK, Len(evms) >= 2, state' \in RefStates,
         NEW d \in Data, NEW fl \in Flags,
         Ref!Resume([Ref!Below EXCEPT !.rdata = d, !.flag = fl])
  PROVE  RefKeeps
<1> DEFINE f == [Ref!Below EXCEPT !.rdata = d, !.flag = fl]
<1>1. Len(evms) \in Nat /\ evms \in Seq(RefFrames)
  BY LenProperties DEF RefOK
<1>2. Len(evms) - 1 \in 1 .. Len(evms)
  BY <1>1
<1>3. Ref!Below \in RefFrames
  BY <1>1, <1>2, ElementOfSeq DEF Ref!Below
<1>4. f \in RefFrames /\ RefSame(f, Ref!Below)
  BY <1>3 DEF RefFrames, RefSame
<1> HIDE DEF f
<1>5. Ref!Resume(f)
  BY DEF f
<1> QED  BY <1>4, <1>5, RefResume DEF RefKeeps, RefOK

LEMMA RefDestroyed ==
  ASSUME NEW st \in RefStates
  PROVE  Ref!Destroyed(st) \in RefStates
BY DataAssumption DEF Ref!Destroyed, RefStates, Data

LEMMA RefUnwindKeeps ==
  ASSUME RefOK, Ref!Unwind, Ref!Top.kind # "TOP" => Len(evms) >= 2
  PROVE  RefKeeps
<1>0. {"0", "1"} \subseteq Flags /\ Empty \in Data /\ "TOP" \notin CallKinds \cup CreateKinds
  BY DEF Flags, Data, CallKinds, CreateKinds
<1>1. evms # <<>>
  BY DEF Ref!Unwind, Ref!ReturnFromCall, Ref!ReturnFromCreate, Ref!FinishMessage, Ref!Halted
<1>2. /\ Ref!Rollback \in RefStates
      /\ Ref!Top.output \in Data /\ Ref!Top.target \in Addrs
      /\ state \in RefStates
  BY <1>1, RefTopFacts DEF Ref!Rollback, RefFrames, RefOK
<1>3. CASE Ref!ReturnFromCall
  <2>1. /\ Len(evms) >= 2 /\ state' \in RefStates
        /\ \E fl \in Flags : Ref!Resume([Ref!Below EXCEPT !.rdata = Ref!Top.output, !.flag = fl])
    BY <1>0, <1>2, <1>3 DEF Ref!ReturnFromCall
  <2> QED  BY <1>2, <2>1, RefResumeKeeps
<1>4. CASE Ref!ReturnFromCreate
  <2>1. Len(evms) >= 2
    BY <1>4 DEF Ref!ReturnFromCreate
  <2>2. state' \in RefStates
    <3> DEFINE codes == [state.code EXCEPT ![Ref!Top.target] = Ref!Top.output]
    <3>1. codes \in [Addrs -> Data]
      BY <1>2 DEF RefStates
    <3>2. state' = [state EXCEPT !.code = codes] \/ state' = Ref!Rollback
      BY <1>2, <1>4 DEF Ref!ReturnFromCreate, RefStates
    <3> HIDE DEF codes
    <3>3. [state EXCEPT !.code = codes] \in RefStates
      BY <1>2, <3>1 DEF RefStates
    <3> QED  BY <1>2, <3>2, <3>3
  <2>3. \E d \in Data, fl \in Flags : Ref!Resume([Ref!Below EXCEPT !.rdata = d, !.flag = fl])
    BY <1>0, <1>2, <1>4 DEF Ref!ReturnFromCreate
  <2> QED  BY <2>1, <2>2, <2>3, RefResumeKeeps
<1>5. CASE Ref!FinishMessage
  <2>1. evms' = <<>> /\ state' \in RefStates
    BY <1>2, <1>5, RefDestroyed DEF Ref!FinishMessage
  <2>2. evms' \in Seq(RefFrames) /\ Len(evms') = 0 /\ Len(evms) \in Nat
    BY <2>1, <1>1, RefTopFacts
  <2> QED  BY <2>1, <2>2 DEF RefKeeps, RefOK, RefNoneOpened
<1> QED  BY <1>3, <1>4, <1>5 DEF Ref!Unwind

LEMMA RefBegins ==
  ASSUME RefOK, NEW a \in Addrs, Ref!ProcessMessage(a, Sender, Sent)
  PROVE  RefOK' /\ RefBegun /\ evms'[1].target = a
<1> DEFINE kind   == "TOP"
           value  == Sent
           static == FALSE
           bytes  == state.code[a]
           g      == Ref!NewEvm(kind, a, Sender, value, static, bytes, state)
<1>1. /\ state \in RefStates /\ bytes \in Data /\ static \in BOOLEAN
      /\ value = Sent /\ value \in Nat
      /\ kind \in {"TOP"} \cup CallKinds \cup CreateKinds /\ Sender \in Addrs \cup {Sender}
  BY ClientAssumption DEF RefOK, RefStates
<1>2. evms' = <<g>> /\ state' = state
  BY DEF Ref!ProcessMessage
<1> HIDE DEF kind, value, static, bytes
<1>3. g \in RefFrames /\ g.target = a /\ g.caller = Sender /\ g.value = Sent
  BY <1>1 DEF Ref!NewEvm, RefFrames, Data, Flags, Statuses
<1> HIDE DEF g
<1>4. evms' \in Seq(RefFrames) /\ Len(evms') = 1 /\ evms'[1] = g
  BY <1>2, <1>3
<1> QED  BY <1>1, <1>2, <1>3, <1>4 DEF RefOK, RefBegun

------------------------------------------------------------------------------
(***************************************************************************)
(* Both sides at once.                                                     *)
(***************************************************************************)

\* What a step makes of both stacks of frames, while they have the same shape: none is
\* opened, only one side opens a frame, both open one, or the call begins.
OnlyOneOpened == Len(frames') # Len(evms') /\ (RefNoneOpened \/ RefOneOpened)

\* The opened frames run in the same account, unless for a creation.
BothOpened ==
  /\ OneOpened /\ RefOneOpened
  /\ LET f == frames'[Len(frames) + 1]
         e == evms'[Len(evms) + 1]
     IN  \/ f.kind \in CreateKinds
         \/ f.kind \in {"CALL", "STATICCALL"} /\ f.addr = e.target
         \/ /\ f.kind \in {"CALLCODE", "DELEGATECALL"}
            /\ f.addr = Top.addr /\ e.target = Ref!Top.target

BothBegun == CallBegun /\ RefBegun /\ frames'[1].addr = evms'[1].target

BothShape == (NoneOpened /\ RefNoneOpened) \/ OnlyOneOpened \/ BothOpened \/ BothBegun

LEMMA SameLength ==
  ASSUME TypeOK, RefOK, SameShape
  PROVE  /\ Len(frames) \in Nat /\ Len(evms) = Len(frames)
         /\ evms # <<>> <=> ~Idle
         /\ ~Idle => Ref!Top.kind = Top.kind /\ Ref!Top.status = Top.status
<1>1. Len(frames) \in Nat /\ Len(evms) = Len(frames)
  BY LenProperties DEF TypeOK, FramesOK, SameShape
<1>2. evms # <<>> <=> ~Idle
  BY <1>1, EmptySeq DEF Idle, TypeOK, FramesOK, RefOK
<1>3. ASSUME ~Idle
      PROVE  Ref!Top.kind = Top.kind /\ Ref!Top.status = Top.status
  <2>1. Len(frames) \in 1 .. Len(frames)
    BY <1>3, TopFacts
  <2> QED  BY <1>1, <2>1 DEF SameShape, SameFrame, Top, Ref!Top
<1> QED  BY <1>1, <1>2, <1>3

\* The account and the kind of the frame that a call opens in evm.lua.
LEMMA CallOpens ==
  ASSUME TypeOK, NEW kind \in CallKinds, NEW to \in Addrs, Call(kind, to)
  PROVE  /\ OneOpened
         /\ frames'[Len(frames) + 1].kind = kind
         /\ frames'[Len(frames) + 1].addr = ExecAddress(kind, to)
<1> DEFINE f == Fresh(ExecAddress(kind, to), kind, Top.depth + 1,
                      Top.static \/ kind = "STATICCALL", LookupCode(to), 0)
<1>1. OneOpened
  BY OpensOne
<1>2. frames' = Append(frames, f)
  BY DEF Call
<1>3. f.kind = kind /\ f.addr = ExecAddress(kind, to)
  BY DEF Fresh
<1> HIDE DEF f
<1>4. frames \in Seq(Frame)
  BY DEF TypeOK, FramesOK
<1>5. frames'[Len(frames) + 1] = f
  BY <1>2, <1>4
<1> QED  BY <1>1, <1>3, <1>5

LEMMA CreateOpens ==
  ASSUME TypeOK, NEW kind \in CreateKinds, NEW init \in Data, NEW salt \in Salts \cup {0},
         Create(kind, init, salt)
  PROVE  OneOpened /\ frames'[Len(frames) + 1].kind = kind
<1> DEFINE f == Fresh(Top.addr, kind, Top.depth + 1, FALSE, init,
                      IF kind = "CREATE2" THEN salt ELSE 0)
<1>1. OneOpened
  BY OpensOne
<1>2. frames' = Append(frames, f)
  BY DEF Create
<1>3. f.kind = kind
  BY DEF Fresh
<1> HIDE DEF f
<1>4. frames \in Seq(Frame)
  BY DEF TypeOK, FramesOK
<1>5. frames'[Len(frames) + 1] = f
  BY <1>2, <1>4
<1> QED  BY <1>1, <1>3, <1>5

LEMMA BothCallShape ==
  ASSUME TypeOK, RefOK, SameShape,
         NEW kind \in CallKinds, NEW to \in Callees, NEW v \in Nat, BothCall(kind, to, v)
  PROVE  RefOK' /\ BothShape
<1>0. to \in Addrs
  BY AgreementAssumption
<1>1. CallTooDeep \/ CallNoCode(to) \/ Call(kind, to)
  BY DEF BothCall
<1>2. \/ RefKeeps
      \/ /\ RefOK' /\ RefOneOpened
         /\ evms'[Len(evms) + 1].kind = kind
         /\ evms'[Len(evms) + 1].target = Ref!Target(kind, to)
  BY <1>0, RefCallOpens DEF BothCall
<1>3. Len(frames) \in Nat /\ Len(evms) = Len(frames)
  BY SameLength
<1>4. CASE CallTooDeep \/ CallNoCode(to)
  <2>1. NoneOpened
    BY <1>0, <1>4, LocalOpensNone
  <2>2. Len(frames') \in Nat /\ Len(frames') <= Len(frames)
    BY <1>4, <1>0, CallTypeOK, <2>1, LenProperties DEF NoneOpened, TypeOK, FramesOK
  <2>3. RefOneOpened => OnlyOneOpened
    BY <1>3, <2>2 DEF RefOneOpened, OnlyOneOpened
  <2> QED  BY <1>2, <2>1, <2>3 DEF BothShape, RefKeeps
<1>5. CASE Call(kind, to)
  <2>1. /\ OneOpened
        /\ frames'[Len(frames) + 1].kind = kind
        /\ frames'[Len(frames) + 1].addr = ExecAddress(kind, to)
    BY <1>0, <1>5, CallOpens
  <2>2. CASE RefKeeps
    <3>1. Len(evms') \in Nat /\ Len(evms') <= Len(evms)
      BY <2>2, LenProperties DEF RefKeeps, RefNoneOpened, RefOK
    <3>2. OnlyOneOpened
      BY <1>3, <2>1, <2>2, <3>1 DEF OneOpened, OnlyOneOpened, RefKeeps
    <3> QED  BY <2>2, <3>2 DEF BothShape, RefKeeps
  <2>3. CASE ~RefKeeps
    <3>1. /\ RefOK' /\ RefOneOpened
          /\ evms'[Len(evms) + 1].target = Ref!Target(kind, to)
      BY <1>2, <2>3
    <3>2. BothOpened
      BY <2>1, <3>1 DEF BothOpened, ExecAddress, Ref!Target, CallKinds
    <3> QED  BY <3>1, <3>2 DEF BothShape
  <2> QED  BY <2>2, <2>3
<1> QED  BY <1>1, <1>4, <1>5

LEMMA BothCreateShape ==
  ASSUME TypeOK, RefOK, SameShape,
         NEW kind \in CreateKinds, NEW v \in Nat, NEW init \in Data, NEW salt \in Salts \cup {0},
         kind = "CREATE2" => salt \in Salts,
         BothCreate(kind, v, init, salt)
  PROVE  RefOK' /\ BothShape
<1>1. CreateFails \/ Create(kind, init, salt)
  BY DEF BothCreate
<1>2. ASSUME evms # <<>>
      PROVE  Ref!NewAddress(kind, init, salt) \in Addrs
  <2>1. /\ Ref!Top.target \in Creators /\ Ref!Top.target \in Addrs
        /\ kind = "CREATE" => state.nonce[Ref!Top.target] < MaxNonce
        /\ state.nonce \in [Addrs -> Nat]
    BY <1>2, RefTopFacts DEF BothCreate, RefFrames, RefOK, RefStates
  <2>2. CASE kind = "CREATE"
    <3>1. state.nonce[Ref!Top.target] \in 0 .. MaxNonce
      BY <2>1, <2>2, SeedAssumption
    <3> QED  BY <2>1, <2>2, <3>1, AgreementAssumption DEF Ref!NewAddress
  <2>3. CASE kind # "CREATE"
    <3>1. salt \in Salts
      BY <2>3 DEF CreateKinds
    <3> QED  BY <2>1, <2>3, <3>1, AgreementAssumption DEF Ref!NewAddress
  <2> QED  BY <2>2, <2>3
<1>3. RefKeeps \/ (RefOK' /\ RefOneOpened)
  BY <1>2, RefCreateOpens DEF BothCreate
<1>4. Len(frames) \in Nat /\ Len(evms) = Len(frames)
  BY SameLength
<1>5. CASE CreateFails
  <2>1. NoneOpened
    BY <1>5, LocalOpensNone
  <2>2. Len(frames') \in Nat /\ Len(frames') <= Len(frames)
    BY <1>5, CallTypeOK, <2>1, LenProperties DEF NoneOpened, TypeOK, FramesOK
  <2>3. RefOneOpened => OnlyOneOpened
    BY <1>4, <2>2 DEF RefOneOpened, OnlyOneOpened
  <2> QED  BY <1>3, <2>1, <2>3 DEF BothShape, RefKeeps
<1>6. CASE Create(kind, init, salt)
  <2>1. OneOpened /\ frames'[Len(frames) + 1].kind = kind
    BY <1>6, CreateOpens
  <2>2. CASE RefKeeps
    <3>1. Len(evms') \in Nat /\ Len(evms') <= Len(evms)
      BY <2>2, LenProperties DEF RefKeeps, RefNoneOpened, RefOK
    <3>2. OnlyOneOpened
      BY <1>4, <2>1, <2>2, <3>1 DEF OneOpened, OnlyOneOpened, RefKeeps
    <3> QED  BY <2>2, <3>2 DEF BothShape, RefKeeps
  <2>3. CASE RefOK' /\ RefOneOpened
    BY <2>1, <2>3 DEF BothOpened, BothShape
  <2> QED  BY <1>3, <2>2, <2>3
<1> QED  BY <1>1, <1>5, <1>6

\* Every step, whatever it does.
LEMMA BothSteps ==
  ASSUME TypeOK, RefOK, [BothNext]_bothVars
  PROVE  /\ RefOK'
         /\ ~UNCHANGED bothVars => SameShape /\ BothShape
<1>0. Callees \subseteq Addrs /\ Values \subseteq Nat
  BY AgreementAssumption
<1>1. CASE Over \/ UNCHANGED bothVars
  BY <1>1 DEF Over, bothVars, refVars, RefOK
<1>2. CASE ~(Over \/ UNCHANGED bothVars)
  <2>1. SameShape
    BY <1>2 DEF BothNext, BothStep
  <2>2. ASSUME NEW a \in Callees, BothBegin(a)
        PROVE  RefOK' /\ BothShape
    <3>1. RefOK' /\ RefBegun /\ evms'[1].target = a
      BY <1>0, <2>2, RefBegins DEF BothBegin
    <3>2. CallBegun /\ frames'[1].addr = a
      BY <2>2 DEF BothBegin, EthCall, CallBegun, Fresh
    <3> QED  BY <3>1, <3>2 DEF BothShape, BothBegun
  <2>3. ASSUME \/ \E s \in Slots, w \in Words : BothSStore(s, w) \/ BothTStore(s, w)
               \/ \E d \in Data : BothLog(d)
               \/ \E b \in Addrs : BothSelfDestruct(b)
               \/ BothHalt
        PROVE  RefOK' /\ BothShape
    <3>1. NoneOpened
      BY <2>3, LocalOpensNone DEF BothSStore, BothTStore, BothLog, BothSelfDestruct, BothHalt
    <3>2. RefKeeps
      BY <2>3, RefWriteKeeps, RefHaltKeeps
        DEF BothSStore, BothTStore, BothLog, BothSelfDestruct, BothHalt
    <3> QED  BY <3>1, <3>2 DEF BothShape, RefKeeps
  <2>4. ASSUME NEW kind \in CallKinds, NEW to \in Callees, NEW v \in Nat, BothCall(kind, to, v)
        PROVE  RefOK' /\ BothShape
    BY <2>1, <2>4, BothCallShape
  <2>5. ASSUME NEW v \in Values, NEW init \in Data,
               \/ BothCreate("CREATE", v, init, 0)
               \/ \E salt \in Salts : BothCreate("CREATE2", v, init, salt)
        PROVE  RefOK' /\ BothShape
    BY <1>0, <2>1, <2>5, BothCreateShape DEF CreateKinds
  <2>6. CASE BothUnwind
    <3>1. Unwind /\ Ref!Unwind /\ ~Idle
      BY <2>6 DEF BothUnwind, Unwind, ReturnToCaller, ReturnToCreator, CreationFailed, Answer,
                  Halted
    <3>2. Ref!Top.kind # "TOP" => Len(evms) >= 2
      BY <2>1, <3>1, SameLength, TopFacts
    <3>3. RefKeeps
      BY <3>1, <3>2, RefUnwindKeeps
    <3>4. NoneOpened
      BY <3>1, UnwindOpensNone
    <3> QED  BY <2>1, <3>3, <3>4 DEF BothShape, RefKeeps
  <2>7. {"CALL", "CALLCODE", "DELEGATECALL", "STATICCALL"} = CallKinds /\ 0 \in Nat
    BY DEF CallKinds
  <2> QED  BY <1>0, <1>2, <2>1, <2>2, <2>3, <2>4, <2>5, <2>6, <2>7 DEF BothNext, BothStep
<1> QED  BY <1>1, <1>2
LEMMA RefBeginsOK == BothInit => RefOK
<1> SUFFICES ASSUME BothInit PROVE RefOK
  OBVIOUS
<1>1. /\ [a \in Addrs |-> IF LookupCode(a) = NoCode THEN Empty ELSE LookupCode(a)] \in [Addrs -> Data]
      /\ Supply \in [Addrs -> Nat] /\ Zero \in Words
  BY DataAssumption DEF BothInit, Init, LookupCode, CodeVals, Data
<1>2. state \in RefStates
  <2> DEFINE codes == [a \in Addrs |-> IF LookupCode(a) = NoCode THEN Empty ELSE LookupCode(a)]
  <2>1. state = Ref!InitialState(codes, Supply)
    BY DEF BothInit
  <2>2. codes \in [Addrs -> Data]
    BY <1>1
  <2> HIDE DEF codes
  <2>3. <<>> \in Seq(Addrs \X Data)
    BY EmptySeq
  <2> QED  BY <1>1, <2>1, <2>2, <2>3 DEF Ref!InitialState, RefStates
<1>3. evms \in Seq(RefFrames)
  BY EmptySeq DEF BothInit
<1> QED  BY <1>2, <1>3 DEF RefOK

\* Every state of the comparison is well-formed on both sides.
LEMMA BothWellFormed == BothSpec => [](TypeOK /\ RefOK)
<1>1. BothSpec => []TypeOK
  BY BothRunTheTree, TypeCorrect, PTL
<1>2. BothInit => RefOK
  BY RefBeginsOK
<1>3. TypeOK /\ RefOK /\ [BothNext]_bothVars => RefOK'
  BY BothSteps
<1> QED  BY <1>1, <1>2, <1>3, PTL DEF BothSpec

------------------------------------------------------------------------------
(***************************************************************************)
(* The context that CALLER and CALLVALUE read.                             *)
(***************************************************************************)
\* The frames that DELEGATECALL alone leads to have the transaction's sender and value, and
\* the others were called by an account.
SenderInv ==
  /\ keys.caller \in Clients
  /\ \A i \in 1 .. Len(evms) :
       /\ Delegated(i) => evms[i].caller = Sender /\ evms[i].value = Sent
       /\ ~Delegated(i) => evms[i].caller \in Addrs

\* Frames that stay keep their context.
LEMMA ContextKept ==
  ASSUME NEW k \in 1 .. Len(evms), Len(evms) \in Nat, SenderInv,
         \A j \in 1 .. k : RefSame(evms'[j], evms[j])
  PROVE  /\ Delegated(k)' <=> Delegated(k)
         /\ Delegated(k) => evms'[k].caller = Sender /\ evms'[k].value = Sent
         /\ ~Delegated(k) => evms'[k].caller \in Addrs
<1>1. \A j \in 2 .. k : evms'[j].kind = evms[j].kind
  <2> SUFFICES ASSUME NEW j \in 2 .. k PROVE evms'[j].kind = evms[j].kind
    OBVIOUS
  <2>1. j \in 1 .. k
    OBVIOUS
  <2> QED  BY <2>1 DEF RefSame
<1>2. Delegated(k)' <=> Delegated(k)
  BY <1>1 DEF Delegated
<1>3. evms'[k].caller = evms[k].caller /\ evms'[k].value = evms[k].value
  <2>1. k \in 1 .. k
    OBVIOUS
  <2> QED  BY <2>1 DEF RefSame
<1>4. /\ Delegated(k) => evms[k].caller = Sender /\ evms[k].value = Sent
      /\ ~Delegated(k) => evms[k].caller \in Addrs
  BY DEF SenderInv
<1> QED  BY <1>2, <1>3, <1>4

LEMMA ContextStep ==
  ASSUME TypeOK, RefOK, SenderInv, [BothNext]_bothVars
  PROVE  SenderInv'
<1>0. keys' = keys
  BY DEF BothNext, bothVars
<1>1. CASE UNCHANGED bothVars
  BY <1>1 DEF bothVars, refVars, SenderInv, Delegated
<1>2. CASE RefNoneOpened \/ RefOneOpened \/ RefBegun
  <2>1. Len(evms) \in Nat /\ Len(evms') \in Nat
    BY BothSteps, LenProperties DEF RefOK
  <2> SUFFICES ASSUME NEW i \in 1 .. Len(evms')
               PROVE  /\ Delegated(i)' => evms'[i].caller = Sender /\ evms'[i].value = Sent
                      /\ ~Delegated(i)' => evms'[i].caller \in Addrs
    BY <1>0 DEF SenderInv
  <2>2. CASE RefNoneOpened
    <3>1. i \in 1 .. Len(evms) /\ \A j \in 1 .. i : RefSame(evms'[j], evms[j])
      BY <2>1, <2>2 DEF RefNoneOpened
    <3> QED  BY <2>1, <3>1, ContextKept
  <2>3. CASE RefOneOpened
    <3>1. /\ Len(evms) \in Nat \ {0} /\ Len(evms') = Len(evms) + 1
          /\ \A j \in 1 .. Len(evms) : RefSame(evms'[j], evms[j])
      BY <2>3 DEF RefOneOpened
    <3>2. CASE i <= Len(evms)
      <4>1. i \in 1 .. Len(evms) /\ \A j \in 1 .. i : RefSame(evms'[j], evms[j])
        BY <2>1, <3>1, <3>2
      <4> QED  BY <2>1, <4>1, ContextKept
    <3>3. CASE i = Len(evms) + 1
      <4>0. PICK k \in 1 .. Len(evms) : k = Len(evms)
        BY <3>1
      <4>1. k \in 1 .. Len(evms) /\ \A j \in 1 .. k : RefSame(evms'[j], evms[j])
        BY <3>1, <4>0
      <4>2. Delegated(k)' <=> Delegated(k)
        BY <2>1, <4>1, ContextKept
      <4>3. /\ Delegated(k) => evms[k].caller = Sender /\ evms[k].value = Sent
            /\ ~Delegated(k) => evms[k].caller \in Addrs
        BY <4>1 DEF SenderInv
      <4>4. Delegated(i)' <=> Delegated(k)' /\ evms'[i].kind = "DELEGATECALL"
        <5>1. 2 .. i = (2 .. k) \cup {i} /\ i \in 2 .. i
          BY <3>1, <3>3, <4>0
        <5> QED  BY <5>1 DEF Delegated
      <4>5. CASE evms'[i].kind = "DELEGATECALL"
        <5>1. evms'[i].caller = evms[k].caller /\ evms'[i].value = evms[k].value
          BY <2>3, <3>3, <4>0, <4>5 DEF RefOneOpened, Ref!Top
        <5> QED  BY <4>2, <4>3, <4>4, <4>5, <5>1
      <4>6. CASE evms'[i].kind # "DELEGATECALL"
        BY <2>3, <3>3, <4>4, <4>6 DEF RefOneOpened
      <4> QED  BY <4>5, <4>6
    <3> QED  BY <3>1, <3>2, <3>3
  <2>4. CASE RefBegun
    <3>1. i = 1
      BY <2>4 DEF RefBegun
    <3>2. Delegated(i)'
      BY <3>1 DEF Delegated
    <3> QED  BY <2>4, <3>1, <3>2 DEF RefBegun
  <2> QED  BY <1>2, <2>2, <2>3, <2>4
<1> QED
  BY <1>1, <1>2, BothSteps DEF BothShape, OnlyOneOpened, BothOpened, BothBegun

\* evm.lua's CALLER is the reference's in exactly the frames that the top-level one reached
\* by DELEGATECALL alone, at any depth, and only while the key is the sender's own; there its
\* CALLVALUE is the reference's, as far as a double holds it (evm.lua:953, 967).
THEOREM ContextServesDelegates == BothSpec => []ContextServesDelegatesAlone
<1>1. BothInit => SenderInv
  BY EmptySeq, ClientAssumption DEF BothInit, SenderInv
<1>2. TypeOK /\ RefOK /\ SenderInv /\ [BothNext]_bothVars => SenderInv'
  BY ContextStep
<1>3. SenderInv => ContextServesDelegatesAlone
  <2> SUFFICES ASSUME SenderInv, NEW i \in 1 .. Len(evms)
               PROVE  /\ LuaCaller(i) = evms[i].caller <=> Delegated(i) /\ keys.caller = Sender
                      /\ Delegated(i) /\ keys.value = Sent => LuaCallValue(i) = Double(evms[i].value)
    BY DEF ContextServesDelegatesAlone
  <2>1. /\ Delegated(i) => evms[i].caller = Sender /\ evms[i].value = Sent
        /\ ~Delegated(i) => evms[i].caller \in Addrs
        /\ keys.caller \notin Addrs
    BY ClientAssumption DEF SenderInv
  <2> QED  BY <2>1 DEF LuaCaller, LuaCallValue
<1> QED  BY <1>1, <1>2, <1>3, BothWellFormed, PTL DEF BothSpec
------------------------------------------------------------------------------
(***************************************************************************)
(* Storage and balances.  The two sides write the same cell because their  *)
(* frames run in the same account, except in init code and what it         *)
(* delegates to; that no mixture of calls brings such a frame back into    *)
(* step, or others out of it, is the invariant.                            *)
(***************************************************************************)
InInit(i) ==
  \E j \in 1 .. i :
    /\ frames[j].kind \in CreateKinds
    /\ \A k \in j + 1 .. i : frames[k].kind \in {"CALLCODE", "DELEGATECALL"}

SameAccounts ==
  SameShape => \A i \in 1 .. Len(frames) : InInit(i) \/ frames[i].addr = evms[i].target

\* Frames that stay keep what InInit looks at.
LEMMA InInitStays ==
  ASSUME NEW n \in Nat, NEW i \in 1 .. n,
         \A k \in 1 .. n : SameIdentity(frames'[k], frames[k]), InInit(i)
  PROVE  InInit(i)'
<1>1. PICK j \in 1 .. i : /\ frames[j].kind \in CreateKinds
                          /\ \A k \in j + 1 .. i : frames[k].kind \in {"CALLCODE", "DELEGATECALL"}
  BY DEF InInit
<1>2. j \in 1 .. n /\ \A k \in j + 1 .. i : k \in 1 .. n
  OBVIOUS
<1>3. frames'[j].kind \in CreateKinds
  BY <1>1, <1>2 DEF SameIdentity
<1>4. ASSUME NEW k \in j + 1 .. i
      PROVE  frames'[k].kind \in {"CALLCODE", "DELEGATECALL"}
  BY <1>1, <1>2 DEF SameIdentity
<1> QED  BY <1>3, <1>4 DEF InInit

LEMMA AccountsStep ==
  ASSUME TypeOK, RefOK, SameAccounts, [BothNext]_bothVars
  PROVE  SameAccounts'
<1>1. CASE UNCHANGED bothVars
  BY <1>1 DEF bothVars, vars, refVars, SameAccounts, SameShape, SameFrame, InInit
<1>2. CASE ~UNCHANGED bothVars
  <2>0. SameShape /\ BothShape
    BY <1>2, BothSteps
  <2>1. /\ Len(frames) \in Nat /\ Len(evms) = Len(frames)
        /\ \A i \in 1 .. Len(frames) : InInit(i) \/ frames[i].addr = evms[i].target
    BY <2>0, SameLength DEF SameAccounts
  <2>2. TypeOK' /\ Len(frames') \in Nat
    BY BothNextIsNext, NextTypeOK, LenProperties DEF TypeOK, FramesOK
  <2> SUFFICES ASSUME Len(evms') = Len(frames'), NEW i \in 1 .. Len(frames'), ~InInit(i)'
               PROVE  frames'[i].addr = evms'[i].target
    BY DEF SameAccounts, SameShape
  <2>3. ASSUME NEW n \in Nat, i <= n, n <= Len(frames),
               \A k \in 1 .. n : SameIdentity(frames'[k], frames[k]),
               \A k \in 1 .. n : RefSame(evms'[k], evms[k])
        PROVE  frames'[i].addr = evms'[i].target
    <3>1. i \in 1 .. n /\ i \in 1 .. Len(frames)
      BY <2>1, <2>2, <2>3
    <3>2. ~InInit(i)
      BY <2>3, <3>1, InInitStays
    <3> QED  BY <2>1, <2>3, <3>1, <3>2 DEF SameIdentity, RefSame
  <2>4. CASE NoneOpened /\ RefNoneOpened
    BY <2>1, <2>2, <2>3, <2>4 DEF NoneOpened, RefNoneOpened
  <2>5. CASE BothOpened
    <3>0. PICK n \in Nat : n = Len(frames)
      BY <2>1
    <3> DEFINE f == frames'[n + 1]
               e == evms'[n + 1]
    <3>1. /\ n \in Nat \ {0} /\ Len(frames') = n + 1
          /\ \A k \in 1 .. n : SameIdentity(frames'[k], frames[k])
          /\ \A k \in 1 .. n : RefSame(evms'[k], evms[k])
      BY <2>1, <2>5, <3>0 DEF BothOpened, OneOpened, RefOneOpened
    <3>2. CASE i <= n
      BY <2>1, <2>3, <3>0, <3>1, <3>2
    <3>3. CASE i = n + 1
      <4>1. \/ f.kind \in CreateKinds
            \/ f.addr = e.target
            \/ /\ f.kind \in {"CALLCODE", "DELEGATECALL"}
               /\ f.addr = frames[n].addr /\ e.target = evms[n].target
        BY <2>1, <2>5, <3>0 DEF BothOpened, Top, Ref!Top
      <4>2. f.kind \notin CreateKinds
        <5>1. SUFFICES ASSUME f.kind \in CreateKinds PROVE FALSE
          OBVIOUS
        <5>2. i \in 1 .. i /\ (i + 1) .. i = {} /\ frames'[i].kind \in CreateKinds
          BY <3>1, <3>3, <5>1
        <5> QED  BY <5>2 DEF InInit
      <4>3. ASSUME f.kind \in {"CALLCODE", "DELEGATECALL"}
            PROVE  ~InInit(n)
        <5> SUFFICES ASSUME InInit(n) PROVE FALSE
          OBVIOUS
        <5>1. n \in 1 .. n
          BY <3>1
        <5>2. InInit(n)'
          BY <3>1, <5>1, InInitStays
        <5>3. PICK j \in 1 .. n :
                /\ frames'[j].kind \in CreateKinds
                /\ \A k \in j + 1 .. n : frames'[k].kind \in {"CALLCODE", "DELEGATECALL"}
          BY <5>2 DEF InInit
        <5>4. j \in 1 .. i
          BY <3>1, <3>3
        <5>5. \A k \in j + 1 .. i : k \in j + 1 .. n \/ k = n + 1
          BY <3>1, <3>3
        <5>6. \A k \in j + 1 .. i : frames'[k].kind \in {"CALLCODE", "DELEGATECALL"}
          BY <4>3, <5>3, <5>5
        <5> QED  BY <5>3, <5>4, <5>6 DEF InInit
      <4>4. n \in 1 .. n
        BY <3>1
      <4> QED  BY <2>1, <3>0, <3>3, <4>1, <4>2, <4>3, <4>4
    <3> QED  BY <2>2, <3>1, <3>2, <3>3
  <2>6. CASE BothBegun
    BY <2>2, <2>6 DEF BothBegun, CallBegun
  <2> QED  BY <2>0, <2>4, <2>5, <2>6 DEF BothShape, OnlyOneOpened
<1> QED  BY <1>1, <1>2
\* Where the contexts agree, the two innermost frames write for one account.
LEMMA SameWriter ==
  ASSUME TypeOK, RefOK, SameShape, SameAccounts, ~Idle, SameContext
  PROVE  Top.addr = Ref!Top.target
<1>1. Len(frames) \in 1 .. Len(frames) /\ Len(evms) = Len(frames)
  BY TopFacts, SameLength
<1>2. DOMAIN frames = 1 .. Len(frames)
  BY LenProperties DEF TypeOK, FramesOK
<1>3. InInit(Len(frames)) => InitContext
  BY <1>2 DEF InInit, InitContext
<1> QED  BY <1>1, <1>3 DEF SameAccounts, SameContext, Top, Ref!Top

\* A step that writes nothing of evm.lua's and loosens what moves on the other side.
LEMMA QuietAgrees ==
  ASSUME StateAgrees, UNCHANGED <<storage, balance>>, NoWrite
  PROVE  StateAgrees'
<1> SUFFICES ASSUME NEW c \in Cells \ loose' PROVE LuaCell(c)' = RefCell(c)'
  BY DEF StateAgrees, Cells
<1>1. c \notin loose /\ RefCell(c)' = RefCell(c)
  BY DEF NoWrite, Loosen, Restored
<1>2. LuaCell(c)' = LuaCell(c)
  BY DEF LuaCell
<1>3. LuaCell(c) = RefCell(c)
  BY <1>1 DEF StateAgrees
<1> QED  BY <1>1, <1>2, <1>3

LEMMA SStoreAgrees ==
  ASSUME TypeOK, RefOK, SameShape, SameAccounts, StateAgrees,
         NEW s \in Slots, NEW w \in Words, BothSStore(s, w)
  PROVE  StateAgrees'
<1>1. /\ ~Idle /\ evms # <<>> /\ Top.addr \in Addrs /\ Ref!Top.target \in Addrs
  <2>1. ~Idle
    BY DEF BothSStore, SStore, Charge, HasOpcode, Running
  <2> QED  BY <2>1, TopFacts, SameLength, RefTopFacts DEF Frame, RefFrames
<1>2. /\ storage' = [storage EXCEPT ![Top.addr][s] = w] /\ balance' = balance
      /\ storage \in [Addrs -> [Slots -> Words]]
  BY DEF BothSStore, SStore, TypeOK
<1>3. /\ state.storage \in [Addrs -> [Slots -> Words]]
      /\ \/ Ref!Top.static /\ state' = state
         \/ /\ state'.storage = [state.storage EXCEPT ![Ref!Top.target][s] = w]
            /\ state'.balance = state.balance
  BY DEF BothSStore, Ref!SStore, Ref!RejectWrite, Ref!Raise, Ref!Halt, Ref!Write, RefOK, RefStates
<1>4. loose' = loose \cup IF SameContext THEN {}
                         ELSE {<<Top.addr, s>>, <<Ref!Top.target, s>>}
  BY DEF BothSStore, Loosen
<1> SUFFICES ASSUME NEW c \in Cells, c \notin loose' PROVE LuaCell(c)' = RefCell(c)'
  BY DEF StateAgrees, Cells
<1>5. LuaCell(c) = RefCell(c)
  BY <1>4 DEF StateAgrees
<1>6. /\ c[1] \in Addrs /\ c = <<c[1], c[2]>>
      /\ c[2] # "balance" => c[2] \in Slots
  BY DEF Cells
<1>7. CASE c[2] = "balance"
  BY <1>2, <1>3, <1>5, <1>7 DEF LuaCell, RefCell, Ref!Balance
<1>8. CASE c[2] # "balance" /\ SameContext
  <2>1. Top.addr = Ref!Top.target /\ ~Ref!Top.static
    BY <1>1, <1>8, SameWriter DEF SameContext
  <2>2. storage[c[1]][c[2]] = state.storage[c[1]][c[2]]
    BY <1>5, <1>8 DEF LuaCell, RefCell, Ref!SLoad
  <2>3. storage'[c[1]][c[2]] = state'.storage[c[1]][c[2]]
    BY <1>1, <1>2, <1>3, <1>6, <1>8, <2>1, <2>2
  <2> QED  BY <1>8, <2>3 DEF LuaCell, RefCell, Ref!SLoad
<1>9. CASE c[2] # "balance" /\ ~SameContext
  <2>1. ~(c[1] = Top.addr /\ c[2] = s) /\ ~(c[1] = Ref!Top.target /\ c[2] = s)
    BY <1>4, <1>6, <1>9
  <2>2. storage[c[1]][c[2]] = state.storage[c[1]][c[2]]
    BY <1>5, <1>9 DEF LuaCell, RefCell, Ref!SLoad
  <2>3. storage'[c[1]][c[2]] = storage[c[1]][c[2]]
    BY <1>1, <1>2, <1>6, <1>9, <2>1
  <2>4. state'.storage[c[1]][c[2]] = state.storage[c[1]][c[2]]
    BY <1>1, <1>3, <1>6, <1>9, <2>1
  <2> QED  BY <1>9, <2>2, <2>3, <2>4 DEF LuaCell, RefCell, Ref!SLoad
<1> QED  BY <1>7, <1>8, <1>9

\* What evm.lua adds where doubles hold the amounts.
LEMMA ExactlyAdded ==
  ASSUME NEW b \in Addrs, b # Top.addr, Top.addr \in Addrs, SelfDestruct(b), ExactMove(b),
         balance \in [Addrs -> Int]
  PROVE  /\ balance'[Top.addr] = 0 /\ balance'[b] = balance[b] + balance[Top.addr]
         /\ \A a \in Addrs \ {b, Top.addr} : balance'[a] = balance[a]
<1> DEFINE t == Top.addr
           own == Double(balance[t])
           sum == Double(Double(balance[b]) + own)
<1>1. MaxExact \in Nat /\ MaxLong \in Nat /\ MaxLong > MaxExact
  BY ExactAssumption DEF MaxLong
<1>2. /\ balance[t] \in Nat /\ balance[b] \in Nat /\ balance[b] + balance[t] \in 0 .. MaxExact
      /\ balance[t] \in 0 .. MaxExact /\ balance[b] \in 0 .. MaxExact
  BY <1>1 DEF ExactMove
<1>3. own = balance[t] /\ Double(balance[b]) = balance[b]
  BY <1>2, DoubleFacts
<1>4. balance[b] + balance[t] \in Int
  BY <1>2
<1>5. sum = balance[b] + balance[t]
  BY <1>2, <1>3, <1>4, DoubleFacts
<1>6. sum < MaxLong
  BY <1>1, <1>2, <1>5
<1>7. Formats(sum) = {balance[b] + balance[t]}
  BY <1>5, <1>6 DEF Formats
<1>8. \/ own > 0 /\ \E s \in Formats(sum) : balance' = [[balance EXCEPT ![b] = s] EXCEPT ![t] = 0]
      \/ ~(own > 0) /\ balance' = balance
  BY DEF SelfDestruct
<1> HIDE DEF own, sum, t
<1>9. CASE own > 0
  <2>1. balance' = [[balance EXCEPT ![b] = balance[b] + balance[t]] EXCEPT ![t] = 0]
    BY <1>7, <1>8, <1>9
  <2> QED  BY <2>1 DEF t
<1>10. CASE ~(own > 0)
  <2>1. balance[t] = 0 /\ balance' = balance
    BY <1>2, <1>3, <1>8, <1>10
  <2> QED  BY <1>2, <2>1 DEF t
<1> QED  BY <1>9, <1>10

LEMMA SelfDestructAgrees ==
  ASSUME TypeOK, RefOK, SameShape, SameAccounts, StateAgrees,
         NEW b \in Addrs, BothSelfDestruct(b)
  PROVE  StateAgrees'
<1> DEFINE moved == Ref!Moved(state.balance, Ref!Top.target, b, state.balance[Ref!Top.target])
           burnt == [moved EXCEPT ![Ref!Top.target] = 0]
<1>1. /\ ~Idle /\ evms # <<>> /\ Top.addr \in Addrs /\ Ref!Top.target \in Addrs
  <2>1. ~Idle
    BY DEF BothSelfDestruct, SelfDestruct, Charge, HasOpcode, Running
  <2> QED  BY <2>1, TopFacts, SameLength, RefTopFacts DEF Frame, RefFrames
<1> DEFINE own == Double(balance[Top.addr])
           sum == Double(Double(balance[b]) + own)
<1>2. /\ storage' = storage /\ balance \in [Addrs -> Int]
      /\ \/ own > 0 /\ \E s \in Formats(sum) :
                         balance' = [[balance EXCEPT ![b] = s] EXCEPT ![Top.addr] = 0]
         \/ ~(own > 0) /\ balance' = balance
  BY DEF BothSelfDestruct, SelfDestruct, TypeOK
<1>3. /\ state.balance \in [Addrs -> Nat] /\ state'.storage = state.storage
      /\ \/ Ref!Top.static /\ state'.balance = state.balance
         \/ state'.balance = moved
         \/ state'.balance = burnt
  <2>1. state \in RefStates
    BY DEF RefOK
  <2>2. \/ Ref!Top.static /\ state' = state
        \/ state' = [state EXCEPT !.balance = burnt, !.doomed = @ \cup {Ref!Top.target}]
        \/ state' = [state EXCEPT !.balance = moved]
    BY DEF BothSelfDestruct, Ref!SelfDestruct, Ref!RejectWrite, Ref!Raise, Ref!Halt
  <2> HIDE DEF moved, burnt
  <2> QED  BY <2>1, <2>2 DEF RefStates
<1> DEFINE agreed == SameContext /\ b # Top.addr /\ <<Top.addr, "balance">> \notin loose
                     /\ ExactMove(b)
<1>4. loose' = loose \cup IF agreed THEN {} ELSE {Top.addr, Ref!Top.target, b} \X {"balance"}
  BY DEF BothSelfDestruct, Loosen
<1> HIDE DEF moved, burnt
<1> SUFFICES ASSUME NEW c \in Cells, c \notin loose' PROVE LuaCell(c)' = RefCell(c)'
  BY DEF StateAgrees, Cells
<1>5. LuaCell(c) = RefCell(c)
  BY <1>4 DEF StateAgrees
<1>6. c[1] \in Addrs /\ c = <<c[1], c[2]>>
  BY DEF Cells
<1>7. CASE c[2] # "balance"
  BY <1>2, <1>3, <1>5, <1>7 DEF LuaCell, RefCell, Ref!SLoad
<1>8. CASE c[2] = "balance" /\ agreed
  <2>1. Top.addr = Ref!Top.target /\ ~Ref!Top.static
    BY <1>1, <1>8, SameWriter DEF SameContext
  <2>2. <<Top.addr, "balance">> \in Cells \ loose
    BY <1>1, <1>8 DEF Cells
  <2>3. LuaCell(<<Top.addr, "balance">>) = RefCell(<<Top.addr, "balance">>)
    BY <2>2 DEF StateAgrees
  <2>4. balance[Top.addr] = state.balance[Top.addr]
    BY <2>3 DEF LuaCell, RefCell, Ref!Balance
  <2>5. balance[c[1]] = state.balance[c[1]]
    BY <1>5, <1>8 DEF LuaCell, RefCell, Ref!Balance
  <2>6. balance'[c[1]] = moved[c[1]] /\ balance'[c[1]] = burnt[c[1]]
    <3>1. b # Top.addr
      BY <1>8
    <3>2. /\ balance'[Top.addr] = 0 /\ balance'[b] = balance[b] + balance[Top.addr]
          /\ c[1] # b /\ c[1] # Top.addr => balance'[c[1]] = balance[c[1]]
      BY <1>1, <1>2, <1>6, <1>8, <3>1, ExactlyAdded DEF BothSelfDestruct
    <3>3. /\ moved[Top.addr] = 0 /\ moved[b] = state.balance[b] + state.balance[Top.addr]
          /\ c[1] # b /\ c[1] # Top.addr => moved[c[1]] = state.balance[c[1]]
          /\ DOMAIN moved = Addrs
      BY <1>1, <1>3, <1>6, <2>1, <3>1 DEF Ref!Moved, moved
    <3>4. balance'[c[1]] = moved[c[1]]
      BY <2>4, <2>5, <3>2, <3>3
    <3>5. burnt[c[1]] = moved[c[1]]
      BY <1>6, <2>1, <3>3 DEF burnt
    <3> QED  BY <3>4, <3>5
  <2>7. balance'[c[1]] = state'.balance[c[1]]
    BY <1>3, <2>1, <2>6
  <2> QED  BY <1>8, <2>7 DEF LuaCell, RefCell, Ref!Balance
<1>9. CASE c[2] = "balance" /\ ~agreed
  <2>1. c[1] # Top.addr /\ c[1] # Ref!Top.target /\ c[1] # b
    BY <1>4, <1>6, <1>9
  <2>2. balance'[c[1]] = balance[c[1]]
    <3>1. CASE balance' = balance
      BY <3>1
    <3>2. ASSUME NEW s, balance' = [[balance EXCEPT ![b] = s] EXCEPT ![Top.addr] = 0]
          PROVE  balance'[c[1]] = balance[c[1]]
      BY <1>1, <1>2, <1>6, <2>1, <3>2
    <3> HIDE DEF own, sum
    <3> QED  BY <1>2, <3>1, <3>2
  <2>3. state'.balance[c[1]] = state.balance[c[1]]
    BY <1>1, <1>3, <1>6, <2>1 DEF Ref!Moved, moved, burnt
  <2>4. balance[c[1]] = state.balance[c[1]]
    BY <1>5, <1>9 DEF LuaCell, RefCell, Ref!Balance
  <2> QED  BY <1>9, <2>2, <2>3, <2>4 DEF LuaCell, RefCell, Ref!Balance
<1> QED  BY <1>7, <1>8, <1>9

LEMMA AgreementStep ==
  ASSUME TypeOK, RefOK, SameAccounts, StateAgrees, [BothNext]_bothVars
  PROVE  StateAgrees'
<1>0. Callees \subseteq Addrs
  BY AgreementAssumption
<1>1. CASE Over \/ UNCHANGED bothVars
  BY <1>1 DEF Over, bothVars, vars, refVars, world, StateAgrees, LuaCell, RefCell,
              Ref!Balance, Ref!SLoad
<1>2. CASE ~(Over \/ UNCHANGED bothVars)
  <2>0. SameShape
    BY <1>2 DEF BothNext, BothStep
  <2>1. ASSUME \/ \E a \in Callees : BothBegin(a)
               \/ \E s \in Slots, w \in Words : BothTStore(s, w)
               \/ \E d \in Data : BothLog(d)
               \/ BothHalt \/ BothUnwind
        PROVE  StateAgrees'
    <3>1. NoWrite
      BY <2>1 DEF BothBegin, BothTStore, BothLog, BothHalt, BothUnwind
    <3>2. UNCHANGED <<storage, balance>>
      BY <2>1 DEF BothBegin, BothTStore, BothLog, BothHalt, BothUnwind, EthCall, Plain, Stop,
                  Return, Revert, Abort, BadJump, UnknownOpcode, Unwind, ReturnToCaller,
                  ReturnToCreator, CreationFailed, Answer, world
    <3> QED  BY <3>1, <3>2, QuietAgrees
  <2>2. ASSUME NEW kind, NEW to, NEW v, BothCall(kind, to, v)
        PROVE  StateAgrees'
    BY <2>2, QuietAgrees DEF BothCall, Opening, CallTooDeep, CallNoCode, Call, world
  <2>3. ASSUME NEW kind, NEW v, NEW init, NEW salt, BothCreate(kind, v, init, salt)
        PROVE  StateAgrees'
    BY <2>3, QuietAgrees DEF BothCreate, Opening, CreateFails, Create, world
  <2>4. ASSUME \/ \E s \in Slots, w \in Words : BothSStore(s, w)
               \/ \E b \in Addrs : BothSelfDestruct(b)
        PROVE  StateAgrees'
    BY <2>0, <2>4, SStoreAgrees, SelfDestructAgrees
  <2> QED  BY <1>2, <2>1, <2>2, <2>3, <2>4 DEF BothNext, BothStep
<1> QED  BY <1>1, <1>2

\* Whatever calls, creations, reverts, value transfers and writes a tree is made of, every
\* cell of Redis that no listed difference has touched is the reference's (evm.lua:1225,
\* 1623; instructions/storage.py, system.py).
THEOREM StateAlwaysAgrees == BothSpec => []StateAgrees
<1>1. BothInit => SameAccounts /\ StateAgrees
  <2> SUFFICES ASSUME BothInit PROVE SameAccounts /\ StateAgrees
    OBVIOUS
  <2>1. SameAccounts
    BY EmptySeq DEF BothInit, Init, SameAccounts
  <2>2. /\ storage = [a \in Addrs |-> [s \in Slots |-> Zero]] /\ balance = Supply
        /\ state.storage = [a \in Addrs |-> [s \in Slots |-> Zero]] /\ state.balance = Supply
    BY DEF BothInit, Init, Ref!InitialState
  <2> QED  BY <2>1, <2>2 DEF StateAgrees, LuaCell, RefCell, Ref!Balance, Ref!SLoad
<1>2. TypeOK /\ RefOK /\ SameAccounts /\ StateAgrees /\ [BothNext]_bothVars
        => SameAccounts' /\ StateAgrees'
  BY AccountsStep, AgreementStep
<1> QED  BY <1>1, <1>2, BothWellFormed, PTL DEF BothSpec

------------------------------------------------------------------------------
(***************************************************************************)
(* What a step makes of a stack of frames or of tables: the innermost is   *)
(* edited, a new one is put on it, or it is taken away.                    *)
(***************************************************************************)
Edited(q, r, x) ==
  /\ Len(r) = Len(q) /\ r[Len(q)] = x
  /\ \A i \in 1 .. Len(q) - 1 : r[i] = q[i]

Grown(q, r, x, y) ==
  /\ Len(r) = Len(q) + 1 /\ r[Len(q)] = x /\ r[Len(q) + 1] = y
  /\ \A i \in 1 .. Len(q) - 1 : r[i] = q[i]

Shrunk(q, r, x) ==
  /\ Len(q) >= 2
  /\ Len(r) = Len(q) - 1 /\ r[Len(q) - 1] = x
  /\ \A i \in 1 .. Len(q) - 2 : r[i] = q[i]

LEMMA SeqEdited ==
  ASSUME NEW S, NEW q \in Seq(S), q # <<>>, NEW x \in S
  PROVE  /\ Edited(q, [q EXCEPT ![Len(q)] = x], x)
         /\ [q EXCEPT ![Len(q)] = x] \in Seq(S)
<1> DEFINE n == Len(q)
           r == [q EXCEPT ![n] = x]
<1>1. n \in Nat /\ n \in 1 .. n
  BY EmptySeq, LenProperties
<1>2. r \in Seq(S) /\ Len(r) = n /\ \A i \in 1 .. n : r[i] = IF i = n THEN x ELSE q[i]
  BY <1>1, ExceptSeq
<1> HIDE DEF r
<1>3. Edited(q, r, x)
  BY <1>1, <1>2 DEF Edited
<1> QED  BY <1>2, <1>3 DEF r

LEMMA SeqSame ==
  ASSUME NEW q
  PROVE  Edited(q, q, q[Len(q)])
BY DEF Edited

LEMMA SeqGrown ==
  ASSUME NEW S, NEW q \in Seq(S), q # <<>>, NEW x \in S, NEW y \in S
  PROVE  /\ Grown(q, Append([q EXCEPT ![Len(q)] = x], y), x, y)
         /\ Append([q EXCEPT ![Len(q)] = x], y) \in Seq(S)
<1> DEFINE t == [q EXCEPT ![Len(q)] = x]
           r == Append(t, y)
<1>1. Edited(q, t, x) /\ t \in Seq(S) /\ Len(q) \in Nat /\ Len(q) \in 1 .. Len(q)
  BY SeqEdited, EmptySeq, LenProperties
<1> HIDE DEF t
<1>2. /\ r \in Seq(S) /\ Len(r) = Len(t) + 1 /\ r[Len(t) + 1] = y
      /\ \A i \in 1 .. Len(t) : r[i] = t[i]
  BY <1>1, AppendProperties
<1> HIDE DEF r
<1>3. Grown(q, r, x, y)
  BY <1>1, <1>2 DEF Edited, Grown
<1> QED  BY <1>2, <1>3 DEF r, t

LEMMA SeqPushed ==
  ASSUME NEW S, NEW q \in Seq(S), NEW y \in S
  PROVE  Grown(q, Append(q, y), q[Len(q)], y) \/ q = <<>>
<1> DEFINE r == Append(q, y)
<1>1. Len(q) \in Nat /\ (q # <<>> => Len(q) \in 1 .. Len(q))
  BY EmptySeq, LenProperties
<1>2. /\ Len(r) = Len(q) + 1 /\ r[Len(q) + 1] = y
      /\ \A i \in 1 .. Len(q) : r[i] = q[i]
  BY AppendProperties
<1> HIDE DEF r
<1>3. q # <<>> => Grown(q, r, q[Len(q)], y)
  BY <1>1, <1>2 DEF Grown
<1> QED  BY <1>3 DEF r

LEMMA SeqShrunk ==
  ASSUME NEW S, NEW q \in Seq(S), Len(q) >= 2, NEW x \in S
  PROVE  /\ Shrunk(q, [SubSeq(q, 1, Len(q) - 1) EXCEPT ![Len(q) - 1] = x], x)
         /\ [SubSeq(q, 1, Len(q) - 1) EXCEPT ![Len(q) - 1] = x] \in Seq(S)
<1> DEFINE m == Len(q) - 1
           t == SubSeq(q, 1, m)
           r == [t EXCEPT ![m] = x]
<1>1. Len(q) \in Nat /\ m \in Nat /\ m \in 1 .. m /\ m <= Len(q)
  BY LenProperties
<1>2. \A i \in 1 .. m : q[i] \in S
  BY <1>1, ElementOfSeq
<1> HIDE DEF m
<1>3. t \in Seq(S) /\ Len(t) = m /\ \A i \in 1 .. m : t[i] = q[i]
  BY <1>1, <1>2, SubSeqProperties
<1> HIDE DEF t
<1>4. r \in Seq(S) /\ Len(r) = m /\ \A i \in 1 .. m : r[i] = IF i = m THEN x ELSE t[i]
  BY <1>1, <1>3, ExceptSeq
<1> HIDE DEF r
<1>5. Shrunk(q, r, x)
  <2>1. m = Len(q) - 1
    BY DEF m
  <2> QED  BY <1>1, <1>3, <1>4, <2>1 DEF Shrunk
<1> QED  BY <1>4, <1>5 DEF r, t, m

(***************************************************************************)
(* evm.lua's side of each step.                                            *)
(***************************************************************************)
LEMMA LuaEdits ==
  ASSUME TypeOK, ~Idle
  PROVE  /\ \A f \in Frame : SetTop(f) => Edited(frames, frames', f)
         /\ UNCHANGED frames => Edited(frames, frames', Top)
         /\ \A st \in Statuses : [Top EXCEPT !.status = st] \in Frame
         /\ \A st \in Statuses, d \in Data : [Top EXCEPT !.status = st, !.rdata = d] \in Frame
         /\ \A fl \in Flags : [Top EXCEPT !.rdata = Empty, !.flag = fl] \in Frame
         /\ \A fl \in Flags : [Top EXCEPT !.flag = fl] \in Frame
<1>1. frames \in Seq(Frame) /\ frames # <<>> /\ Top \in Frame
  BY TopFacts DEF TypeOK, FramesOK, Idle
<1>2. ASSUME NEW f \in Frame, SetTop(f)
      PROVE  Edited(frames, frames', f)
  <2>1. Edited(frames, [frames EXCEPT ![Len(frames)] = f], f)
    BY <1>1, SeqEdited
  <2> QED  BY <1>2, <2>1 DEF SetTop
<1>3. UNCHANGED frames => Edited(frames, frames', Top)
  BY SeqSame DEF Top
<1>4. Empty \in Data
  BY DEF Data
<1> QED  BY <1>1, <1>2, <1>3, <1>4 DEF Frame

LEMMA LuaWriteForm ==
  ASSUME TypeOK, Plain \/ \E s \in Slots, w \in Words : SStore(s, w)
  PROVE  ~Idle /\ Top.status = "run" /\ Edited(frames, frames', Top)
BY LuaEdits DEF Plain, SStore, Charge, HasOpcode, Running

LEMMA LuaHaltForm ==
  ASSUME TypeOK
  PROVE  /\ Stop \/ BadJump \/ (\E b \in Addrs : SelfDestruct(b)) =>
              ~Idle /\ Top.status = "run" /\ Edited(frames, frames', [Top EXCEPT !.status = "stopped"])
         /\ Abort("INVALID") \/ UnknownOpcode =>
              ~Idle /\ Top.status = "run" /\ Edited(frames, frames', [Top EXCEPT !.status = "failed"])
         /\ \A d \in Data : Return(d) =>
              /\ ~Idle /\ Top.status = "run"
              /\ Edited(frames, frames', [Top EXCEPT !.status = "returned", !.rdata = d])
         /\ \A d \in Data : Revert(d) =>
              /\ ~Idle /\ Top.status = "run"
              /\ Edited(frames, frames', [Top EXCEPT !.status = "reverted", !.rdata = d])
<1>1. {"stopped", "failed", "returned", "reverted"} \subseteq Statuses
  BY DEF Statuses
<1>2. ASSUME Stop \/ BadJump \/ \E b \in Addrs : SelfDestruct(b)
      PROVE  /\ ~Idle /\ Top.status = "run"
             /\ Edited(frames, frames', [Top EXCEPT !.status = "stopped"])
  <2>1. ~Idle /\ Top.status = "run" /\ SetTop([Top EXCEPT !.status = "stopped"])
    BY <1>2 DEF Stop, BadJump, SelfDestruct, Halt, Charge, HasOpcode, Running
  <2> QED  BY <1>1, <2>1, LuaEdits
<1>3. ASSUME Abort("INVALID") \/ UnknownOpcode
      PROVE  /\ ~Idle /\ Top.status = "run"
             /\ Edited(frames, frames', [Top EXCEPT !.status = "failed"])
  <2>1. ~Idle /\ Top.status = "run" /\ SetTop([Top EXCEPT !.status = "failed"])
    BY <1>3 DEF Abort, UnknownOpcode, Halt, Charge, HasOpcode, Running
  <2> QED  BY <1>1, <2>1, LuaEdits
<1>4. ASSUME NEW d \in Data, Return(d)
      PROVE  /\ ~Idle /\ Top.status = "run"
             /\ Edited(frames, frames', [Top EXCEPT !.status = "returned", !.rdata = d])
  <2>1. ~Idle /\ Top.status = "run" /\ SetTop([Top EXCEPT !.status = "returned", !.rdata = d])
    BY <1>4 DEF Return, HaltWith, Charge, HasOpcode, Running
  <2> QED  BY <1>1, <2>1, LuaEdits
<1>5. ASSUME NEW d \in Data, Revert(d)
      PROVE  /\ ~Idle /\ Top.status = "run"
             /\ Edited(frames, frames', [Top EXCEPT !.status = "reverted", !.rdata = d])
  <2>1. ~Idle /\ Top.status = "run" /\ SetTop([Top EXCEPT !.status = "reverted", !.rdata = d])
    BY <1>5 DEF Revert, HaltWith, Charge, HasOpcode, Running
  <2> QED  BY <1>1, <2>1, LuaEdits
<1> QED  BY <1>2, <1>3, <1>4, <1>5

LEMMA LuaFlagForm ==
  ASSUME TypeOK
  PROVE  /\ CallTooDeep => /\ ~Idle /\ Top.status = "run" /\ TooDeep
                           /\ Edited(frames, frames', [Top EXCEPT !.rdata = Empty, !.flag = "0"])
         /\ \A to \in Addrs : CallNoCode(to) =>
              /\ ~Idle /\ Top.status = "run" /\ ~TooDeep /\ LookupCode(to) = NoCode
              /\ Edited(frames, frames', [Top EXCEPT !.rdata = Empty, !.flag = "1"])
         /\ CreateFails => /\ ~Idle /\ Top.status = "run"
                           /\ Edited(frames, frames', [Top EXCEPT !.flag = "0"])
<1>1. "0" \in Flags /\ "1" \in Flags
  BY DEF Flags
<1>2. ASSUME CallTooDeep
      PROVE  /\ ~Idle /\ Top.status = "run" /\ TooDeep
             /\ Edited(frames, frames', [Top EXCEPT !.rdata = Empty, !.flag = "0"])
  BY <1>1, <1>2, LuaEdits DEF CallTooDeep, Charge, HasOpcode, Running
<1>3. ASSUME NEW to \in Addrs, CallNoCode(to)
      PROVE  /\ ~Idle /\ Top.status = "run" /\ ~TooDeep /\ LookupCode(to) = NoCode
             /\ Edited(frames, frames', [Top EXCEPT !.rdata = Empty, !.flag = "1"])
  BY <1>1, <1>3, LuaEdits DEF CallNoCode, Charge, HasOpcode, Running
<1>4. ASSUME CreateFails
      PROVE  ~Idle /\ Top.status = "run" /\ Edited(frames, frames', [Top EXCEPT !.flag = "0"])
  BY <1>1, <1>4, LuaEdits DEF CreateFails, Push, Charge, HasOpcode, Running
<1> QED  BY <1>2, <1>3, <1>4

\* A frame that was opened runs, with nothing in its buffer.
New(f, kind) == f.kind = kind /\ f.status = "run" /\ f.flag = "none" /\ f.rdata = Empty

LEMMA LuaOpenForm ==
  ASSUME TypeOK, TypeOK'
  PROVE  /\ \A kind \in CallKinds, to \in Addrs : Call(kind, to) =>
              /\ ~Idle /\ Top.status = "run" /\ ~TooDeep /\ LookupCode(to) # NoCode
              /\ \E f : /\ New(f, kind) /\ f.code = LookupCode(to)
                        /\ Grown(frames, frames', Top, f)
         /\ \A kind \in CreateKinds, init \in Data, salt \in Salts \cup {0} :
              Create(kind, init, salt) =>
                /\ ~Idle /\ Top.status = "run" /\ ~TooDeep
                /\ \E f : New(f, kind) /\ Grown(frames, frames', Top, f)
<1>1. frames \in Seq(Frame)
  BY DEF TypeOK, FramesOK
<1>2. ASSUME ~Idle, NEW f, frames' = Append(frames, f)
      PROVE  Grown(frames, frames', Top, f)
  <2>1. f \in Frame
    <3>1. frames' \in Seq(Frame) /\ Len(frames) \in Nat
      BY <1>1, <1>2, LenProperties DEF TypeOK, FramesOK
    <3>2. Len(frames') = Len(frames) + 1 /\ frames'[Len(frames) + 1] = f
      BY <1>1, <1>2
    <3>3. Len(frames) + 1 \in 1 .. Len(frames')
      BY <3>1, <3>2
    <3> QED  BY <3>1, <3>2, <3>3, ElementOfSeq
  <2> QED  BY <1>1, <1>2, <2>1, SeqPushed DEF Top, Idle
<1>3. ASSUME NEW kind \in CallKinds, NEW to \in Addrs, Call(kind, to)
      PROVE  /\ ~Idle /\ Top.status = "run" /\ ~TooDeep /\ LookupCode(to) # NoCode
             /\ \E f : New(f, kind) /\ f.code = LookupCode(to) /\ Grown(frames, frames', Top, f)
  <2> DEFINE f == Fresh(ExecAddress(kind, to), kind, Top.depth + 1,
                        Top.static \/ kind = "STATICCALL", LookupCode(to), 0)
  <2>1. /\ ~Idle /\ Top.status = "run" /\ ~TooDeep /\ LookupCode(to) # NoCode
        /\ frames' = Append(frames, f)
    BY <1>3 DEF Call, Charge, HasOpcode, Running
  <2>2. New(f, kind) /\ f.code = LookupCode(to)
    BY DEF Fresh, New
  <2> HIDE DEF f
  <2> QED  BY <1>2, <2>1, <2>2
<1>4. ASSUME NEW kind \in CreateKinds, NEW init \in Data, NEW salt \in Salts \cup {0},
             Create(kind, init, salt)
      PROVE  /\ ~Idle /\ Top.status = "run" /\ ~TooDeep
             /\ \E f : New(f, kind) /\ Grown(frames, frames', Top, f)
  <2> DEFINE f == Fresh(Top.addr, kind, Top.depth + 1, FALSE, init,
                        IF kind = "CREATE2" THEN salt ELSE 0)
  <2>1. ~Idle /\ Top.status = "run" /\ ~TooDeep /\ frames' = Append(frames, f)
    BY <1>4 DEF Create, Charge, HasOpcode, Running
  <2>2. New(f, kind)
    BY DEF Fresh, New
  <2> HIDE DEF f
  <2> QED  BY <1>2, <2>1, <2>2
<1> QED  BY <1>3, <1>4

LEMMA LuaReturnForm ==
  ASSUME TypeOK
  PROVE  /\ ReturnToCaller =>
              /\ ~Idle /\ Top.status # "run" /\ Top.kind \in CallKinds
              /\ Shrunk(frames, frames', [Below EXCEPT !.rdata = Top.rdata,
                                                       !.flag = IF Succeeded THEN "1" ELSE "0"])
         /\ ReturnToCreator \/ CreationFailed =>
              /\ ~Idle /\ Top.status # "run" /\ Top.kind \in CreateKinds
              /\ Shrunk(frames, frames', [Below EXCEPT !.flag = IF Succeeded THEN "1" ELSE "0"])
<1>1. frames \in Seq(Frame) /\ {"0", "1"} \subseteq Flags
  BY DEF TypeOK, FramesOK, Flags
<1>2. "TOP" \notin CallKinds \cup CreateKinds
  BY DEF CallKinds, CreateKinds
<1>3. ASSUME ~Idle, Top.kind # "TOP", NEW f \in Frame, Resume(f)
      PROVE  Shrunk(frames, frames', f)
  <2>1. Len(frames) >= 2
    BY <1>3, BelowFacts
  <2> QED  BY <1>1, <1>3, <2>1, SeqShrunk DEF Resume
<1>4. ASSUME ~Idle, Top.kind # "TOP", NEW fl \in Flags
      PROVE  /\ [Below EXCEPT !.rdata = Top.rdata, !.flag = fl] \in Frame
             /\ [Below EXCEPT !.flag = fl] \in Frame
  BY <1>4, TopFacts, BelowFacts DEF Frame
<1>5. ASSUME ReturnToCaller
      PROVE  /\ ~Idle /\ Top.status # "run" /\ Top.kind \in CallKinds
             /\ Shrunk(frames, frames', [Below EXCEPT !.rdata = Top.rdata,
                                                      !.flag = IF Succeeded THEN "1" ELSE "0"])
  <2> DEFINE fl == IF Succeeded THEN "1" ELSE "0"
  <2>1. /\ ~Idle /\ Top.status # "run" /\ Top.kind \in CallKinds /\ fl \in Flags
        /\ Resume([Below EXCEPT !.rdata = Top.rdata, !.flag = fl])
    BY <1>1, <1>5 DEF ReturnToCaller, Halted
  <2> HIDE DEF fl
  <2>2. Shrunk(frames, frames', [Below EXCEPT !.rdata = Top.rdata, !.flag = fl])
    BY <1>2, <1>3, <1>4, <2>1
  <2> QED  BY <2>1, <2>2 DEF fl
<1>6. ASSUME ReturnToCreator \/ CreationFailed
      PROVE  /\ ~Idle /\ Top.status # "run" /\ Top.kind \in CreateKinds
             /\ Shrunk(frames, frames', [Below EXCEPT !.flag = IF Succeeded THEN "1" ELSE "0"])
  <2> DEFINE fl == IF Succeeded THEN "1" ELSE "0"
  <2>1. /\ ~Idle /\ Top.status # "run" /\ Top.kind \in CreateKinds /\ fl \in Flags
        /\ Resume([Below EXCEPT !.flag = fl])
    BY <1>1, <1>6 DEF ReturnToCreator, CreationFailed, Halted
  <2> HIDE DEF fl
  <2>2. Shrunk(frames, frames', [Below EXCEPT !.flag = fl])
    BY <1>2, <1>3, <1>4, <2>1
  <2> QED  BY <2>1, <2>2 DEF fl
<1> QED  BY <1>5, <1>6

(***************************************************************************)
(* The reference's side.                                                   *)
(***************************************************************************)
RefRunning == evms # <<>> /\ Ref!Top.status = "run"

LEMMA RefEdits ==
  ASSUME RefOK, evms # <<>>
  PROVE  /\ \A f \in RefFrames : Ref!SetTop(f) => Edited(evms, evms', f)
         /\ UNCHANGED evms => Edited(evms, evms', Ref!Top)
         /\ \A st \in Statuses : [Ref!Top EXCEPT !.status = st] \in RefFrames
         /\ \A st \in Statuses, d \in Data :
              [Ref!Top EXCEPT !.status = st, !.output = d] \in RefFrames
         /\ \A d \in Data, fl \in Flags : [Ref!Top EXCEPT !.rdata = d, !.flag = fl] \in RefFrames
<1>1. evms \in Seq(RefFrames) /\ Ref!Top \in RefFrames
  BY RefTopFacts DEF RefOK
<1>2. ASSUME NEW f \in RefFrames, Ref!SetTop(f)
      PROVE  Edited(evms, evms', f)
  <2>1. Edited(evms, [evms EXCEPT ![Len(evms)] = f], f)
    BY <1>1, SeqEdited
  <2> QED  BY <1>2, <2>1 DEF Ref!SetTop
<1>3. UNCHANGED evms => Edited(evms, evms', Ref!Top)
  BY SeqSame DEF Ref!Top
<1> QED  BY <1>1, <1>2, <1>3 DEF RefFrames

\* A halt, with its output and without a change of state.
RefHalts(st, d) ==
  /\ RefRunning /\ state' = state
  /\ Edited(evms, evms', [Ref!Top EXCEPT !.status = st, !.output = d])

RefRejects == Ref!Top.static /\ RefHalts("failed", Empty)

LEMMA RefHaltForm ==
  ASSUME RefOK
  PROVE  /\ Ref!Raise => RefHalts("failed", Empty)
         /\ Ref!Stop => RefHalts("stopped", Empty)
         /\ \A d \in Data : Ref!Return(d) => RefHalts("returned", d)
         /\ \A d \in Data : Ref!Revert(d) => RefHalts("reverted", d)
         /\ Ref!EndOfCode =>
              /\ RefRunning /\ state' = state
              /\ Edited(evms, evms', [Ref!Top EXCEPT !.status = "stopped"])
         /\ Ref!RejectWrite => RefRejects
<1>1. {"stopped", "failed", "returned", "reverted"} \subseteq Statuses /\ Empty \in Data
  BY DEF Statuses, Data
<1>2. ASSUME NEW st \in Statuses, NEW d \in Data, Ref!Halt(st, d)
      PROVE  RefHalts(st, d)
  BY <1>2, RefEdits DEF Ref!Halt, Ref!HasOpcode, Ref!Running, RefRunning, RefHalts
<1>3. ASSUME Ref!EndOfCode
      PROVE  /\ RefRunning /\ state' = state
             /\ Edited(evms, evms', [Ref!Top EXCEPT !.status = "stopped"])
  BY <1>1, <1>3, RefEdits DEF Ref!EndOfCode, Ref!Running, RefRunning
<1> QED  BY <1>1, <1>2, <1>3 DEF Ref!Raise, Ref!Stop, Ref!Return, Ref!Revert, Ref!RejectWrite, RefRejects

LEMMA RefWriteForm ==
  ASSUME RefOK
  PROVE  /\ \A s \in Slots, w \in Words : Ref!SStore(s, w) =>
              \/ RefRejects
              \/ /\ RefRunning /\ Edited(evms, evms', Ref!Top)
                 /\ state' = [state EXCEPT !.storage[Ref!Top.target][s] = w]
         /\ \A s \in Slots, w \in Words : Ref!TStore(s, w) =>
              \/ RefRejects
              \/ /\ RefRunning /\ Edited(evms, evms', Ref!Top)
                 /\ state' = [state EXCEPT !.transient[Ref!Top.target][s] = w]
         /\ \A d \in Data : Ref!LogN(d) =>
              \/ RefRejects
              \/ /\ RefRunning /\ Edited(evms, evms', Ref!Top)
                 /\ state' = [state EXCEPT !.logs = Append(@, <<Ref!Top.target, d>>)]
         /\ \A b \in Addrs : Ref!SelfDestruct(b) =>
              \/ RefRejects
              \/ /\ RefRunning
                 /\ Edited(evms, evms', [Ref!Top EXCEPT !.status = "stopped"])
                 /\ \/ \E bs : state' = [state EXCEPT !.balance = bs]
                    \/ \E bs : /\ Ref!Top.target \in state.created
                               /\ state' = [state EXCEPT !.balance = bs,
                                                         !.doomed = @ \cup {Ref!Top.target}]
<1>1. ASSUME NEW new, Ref!Write(new)
      PROVE  RefRunning /\ Edited(evms, evms', Ref!Top) /\ state' = new
  BY <1>1, RefEdits DEF Ref!Write, Ref!HasOpcode, Ref!Running, RefRunning
<1>2. Ref!RejectWrite => RefRejects
  BY RefHaltForm
<1>3. ASSUME NEW b \in Addrs, Ref!SelfDestruct(b), ~Ref!RejectWrite
      PROVE  /\ RefRunning
             /\ Edited(evms, evms', [Ref!Top EXCEPT !.status = "stopped"])
             /\ \/ \E bs : state' = [state EXCEPT !.balance = bs]
                \/ \E bs : /\ Ref!Top.target \in state.created
                           /\ state' = [state EXCEPT !.balance = bs,
                                                     !.doomed = @ \cup {Ref!Top.target}]
  <2> DEFINE moved == Ref!Moved(state.balance, Ref!Top.target, b, state.balance[Ref!Top.target])
             burnt == [moved EXCEPT ![Ref!Top.target] = 0]
  <2>1. RefRunning /\ Ref!SetTop([Ref!Top EXCEPT !.status = "stopped"])
    BY <1>3 DEF Ref!SelfDestruct, Ref!HasOpcode, Ref!Running, RefRunning
  <2>2. \/ state' = [state EXCEPT !.balance = moved]
        \/ /\ Ref!Top.target \in state.created
           /\ state' = [state EXCEPT !.balance = burnt, !.doomed = @ \cup {Ref!Top.target}]
    BY <1>3 DEF Ref!SelfDestruct
  <2>3. "stopped" \in Statuses
    BY DEF Statuses
  <2>4. Edited(evms, evms', [Ref!Top EXCEPT !.status = "stopped"])
    BY <2>1, <2>3, RefEdits DEF RefRunning
  <2> HIDE DEF moved, burnt
  <2> QED  BY <2>1, <2>2, <2>4
<1> QED  BY <1>1, <1>2, <1>3 DEF Ref!SStore, Ref!TStore, Ref!LogN

LEMMA RefSStoreForm ==
  ASSUME RefOK, NEW s \in Slots, NEW w \in Words, Ref!SStore(s, w), ~RefRejects
  PROVE  /\ Edited(evms, evms', Ref!Top)
         /\ state' = [state EXCEPT !.storage[Ref!Top.target][s] = w]
<1>1. ~Ref!RejectWrite
  BY RefHaltForm
<1>2. Ref!Write([state EXCEPT !.storage[Ref!Top.target][s] = w])
  BY <1>1 DEF Ref!SStore
<1> QED  BY <1>2, RefEdits DEF Ref!Write, Ref!HasOpcode, Ref!Running

\* What a CALL or a CREATE pushes at once.
RefPushes(fl) ==
  RefRunning /\ Edited(evms, evms', [Ref!Top EXCEPT !.rdata = Empty, !.flag = fl])

RefOpens(h) == RefRunning /\ Grown(evms, evms', [Ref!Top EXCEPT !.rdata = Empty], h)

\* All of the state but the balances.
MovedOnly(st, new) == \E bs : new = [st EXCEPT !.balance = bs]

LEMMA RefPushForm ==
  ASSUME RefOK, evms # <<>>, Ref!Top.status = "run", NEW fl \in Flags, Ref!Push(fl)
  PROVE  RefPushes(fl)
<1>1. Empty \in Data
  BY DEF Data
<1> QED  BY <1>1, RefEdits DEF Ref!Push, RefPushes, RefRunning

LEMMA RefOpenForm ==
  ASSUME RefOK, evms # <<>>, Ref!Top.status = "run", NEW h,
         evms' = Append([evms EXCEPT ![Len(evms)].rdata = Empty], h), RefOK'
  PROVE  RefOpens(h)
<1> DEFINE f == [Ref!Top EXCEPT !.rdata = Empty]
           t == [evms EXCEPT ![Len(evms)] = f]
<1>1. evms \in Seq(RefFrames) /\ Ref!Top \in RefFrames /\ Empty \in Data
  BY RefTopFacts DEF RefOK, Data
<1>2. f \in RefFrames
  BY <1>1 DEF RefFrames
<1>3. evms' = Append(t, h)
  BY DEF Ref!Top
<1> HIDE DEF f
<1>4. Edited(evms, t, f) /\ t \in Seq(RefFrames) /\ Len(t) \in Nat
  BY <1>1, <1>2, SeqEdited, LenProperties
<1> HIDE DEF t
<1>5. h \in RefFrames
  <2>1. Len(evms') = Len(t) + 1 /\ evms'[Len(t) + 1] = h /\ evms' \in Seq(RefFrames)
    BY <1>3, <1>4 DEF RefOK
  <2>2. Len(t) + 1 \in 1 .. Len(evms')
    BY <1>4, <2>1
  <2> QED  BY <2>1, <2>2, ElementOfSeq
<1>6. Grown(evms, Append([evms EXCEPT ![Len(evms)] = f], h), f, h)
  BY <1>1, <1>2, <1>5, SeqGrown
<1> QED  BY <1>3, <1>6 DEF RefOpens, RefRunning, f, t

RefNew(h, kind) ==
  /\ h.kind = kind /\ h.status = "run" /\ h.flag = "none"
  /\ h.rdata = Empty /\ h.output = Empty

LEMMA RefCallForm ==
  ASSUME RefOK, RefOK', NEW kind \in CallKinds, NEW to \in Addrs, NEW v \in Nat,
         Ref!Call(kind, to, v)
  PROVE  \/ RefRejects
         \/ RefPushes("0") /\ Ref!Refused(v) /\ state' = state
         \/ /\ RefPushes("1") /\ ~Ref!Refused(v) /\ state.code[to] = Empty
            /\ MovedOnly(state, state')
         \/ /\ ~Ref!Refused(v) /\ state.code[to] # Empty /\ MovedOnly(state, state')
            /\ \E h : /\ RefOpens(h) /\ RefNew(h, kind) /\ h.snap = state
                      /\ h.target = Ref!Target(kind, to)
<1>0. {"0", "1"} \subseteq Flags
  BY DEF Flags
<1>1. MovedOnly(state, Ref!Paid(kind, to, v))
  <2> DEFINE moved == Ref!Moved(state.balance, Ref!Top.target, Ref!Target(kind, to), v)
  <2>1. Ref!Paid(kind, to, v) = state \/ Ref!Paid(kind, to, v) = [state EXCEPT !.balance = moved]
    BY DEF Ref!Paid
  <2>2. state = [state EXCEPT !.balance = state.balance]
    BY DEF RefOK, RefStates
  <2> HIDE DEF moved
  <2> QED  BY <2>1, <2>2 DEF MovedOnly
<1>2. CASE Ref!CallRejected(kind, v)
  BY <1>2, RefHaltForm DEF Ref!CallRejected
<1>3. CASE Ref!CallRefused(kind, v)
  BY <1>0, <1>3, RefPushForm DEF Ref!CallRefused, Ref!CallAllowed, Ref!HasOpcode, Ref!Running
<1>4. CASE Ref!CallNoCode(kind, to, v)
  <2>1. RefPushes("1")
    BY <1>0, <1>4, RefPushForm DEF Ref!CallNoCode, Ref!CallAllowed, Ref!HasOpcode, Ref!Running
  <2> QED  BY <1>1, <1>4, <2>1 DEF Ref!CallNoCode
<1>5. CASE Ref!CallRuns(kind, to, v)
  <2> DEFINE h == Ref!NewEvm(kind, Ref!Target(kind, to), Ref!Caller(kind), Ref!Value(kind, v),
                             Ref!Top.static \/ kind = "STATICCALL", state.code[to], state)
  <2>1. /\ evms # <<>> /\ Ref!Top.status = "run"
        /\ evms' = Append([evms EXCEPT ![Len(evms)].rdata = Empty], h)
        /\ ~Ref!Refused(v) /\ state.code[to] # Empty /\ MovedOnly(state, state')
    BY <1>1, <1>5 DEF Ref!CallRuns, Ref!CallAllowed, Ref!HasOpcode, Ref!Running
  <2>2. RefNew(h, kind) /\ h.snap = state /\ h.target = Ref!Target(kind, to)
    BY DEF Ref!NewEvm, RefNew
  <2> HIDE DEF h
  <2>3. RefOpens(h)
    BY <2>1, RefOpenForm
  <2> QED  BY <2>1, <2>2, <2>3
<1> QED  BY <1>2, <1>3, <1>4, <1>5 DEF Ref!Call

\* What a creation that runs leaves of the state, beside nonces and balances.
MadeOnly(st, new, a) ==
  /\ new.transient = st.transient /\ new.logs = st.logs /\ new.code = st.code
  /\ new.doomed = st.doomed /\ new.created = st.created \cup {a}

CountedOnly(st, new) ==
  /\ new.transient = st.transient /\ new.logs = st.logs /\ new.code = st.code
  /\ new.doomed = st.doomed /\ new.created = st.created

LEMMA RefCreateForm ==
  ASSUME RefOK, RefOK', NEW kind \in CreateKinds, NEW v \in Nat, NEW init \in Data, NEW salt,
         Ref!Create(kind, v, init, salt)
  PROVE  \/ RefRejects
         \/ RefPushes("0") /\ Ref!Refused(v) /\ state' = state
         \/ /\ RefPushes("0") /\ ~Ref!Refused(v)
            /\ CountedOnly(state, state') /\ state'.nonce # state.nonce
         \/ /\ ~Ref!Refused(v)
            /\ \E h : /\ RefOpens(h) /\ RefNew(h, kind) /\ CountedOnly(state, h.snap)
                      /\ MadeOnly(state, state', h.target)
<1> DEFINE new == Ref!NewAddress(kind, init, salt)
<1>0. "0" \in Flags
  BY DEF Flags
<1>1. ASSUME evms # <<>>
      PROVE  CountedOnly(state, Ref!Counted) /\ Ref!Counted.nonce # state.nonce
             /\ DOMAIN Ref!Counted = DOMAIN state
  <2>1. Ref!Top.target \in Addrs /\ state.nonce \in [Addrs -> Nat] /\ state \in RefStates
    BY <1>1, RefTopFacts DEF RefOK, RefStates, RefFrames
  <2> DEFINE nonces == [state.nonce EXCEPT ![Ref!Top.target] = @ + 1]
  <2>2. nonces[Ref!Top.target] # state.nonce[Ref!Top.target]
    BY <2>1
  <2>3. Ref!Counted = [state EXCEPT !.nonce = nonces]
    BY <2>1 DEF Ref!Counted, RefStates
  <2> HIDE DEF nonces
  <2> QED  BY <2>1, <2>2, <2>3 DEF CountedOnly, RefStates
<1>2. CASE Ref!RejectWrite
  BY <1>2, RefHaltForm
<1>3. CASE Ref!CreateRefused(v)
  BY <1>0, <1>3, RefPushForm DEF Ref!CreateRefused, Ref!HasOpcode, Ref!Running
<1>4. CASE Ref!CreateCollides(new, v)
  <2>1. evms # <<>> /\ RefPushes("0")
    BY <1>0, <1>4, RefPushForm DEF Ref!CreateCollides, Ref!HasOpcode, Ref!Running
  <2> QED  BY <1>1, <1>4, <2>1 DEF Ref!CreateCollides
<1>5. CASE Ref!CreateRuns(kind, new, v, init)
  <2> DEFINE h == Ref!NewEvm(kind, new, Ref!Top.target, v, FALSE, init, Ref!Counted)
  <2>1. /\ evms # <<>> /\ Ref!Top.status = "run" /\ ~Ref!Refused(v)
        /\ evms' = Append([evms EXCEPT ![Len(evms)].rdata = Empty], h)
    BY <1>5 DEF Ref!CreateRuns, Ref!HasOpcode, Ref!Running
  <2>2. MadeOnly(state, state', new)
    <3> DEFINE nonces == [Ref!Counted.nonce EXCEPT ![new] = 1]
               made == Ref!Counted.created \cup {new}
               moved == Ref!Moved(state.balance, Ref!Top.target, new, v)
               counted == Ref!Counted
    <3>1. state' = [counted EXCEPT !.nonce = nonces, !.created = made, !.balance = moved]
      <4>1. counted.balance = state.balance /\ DOMAIN counted = DOMAIN state
        BY DEF Ref!Counted, RefOK, RefStates
      <4> QED  BY <1>5, <4>1 DEF Ref!CreateRuns
    <3>2. CountedOnly(state, counted) /\ DOMAIN counted = DOMAIN state /\ state \in RefStates
      BY <1>1, <2>1 DEF RefOK
    <3> HIDE DEF counted, nonces, moved
    <3> QED  BY <3>1, <3>2 DEF CountedOnly, MadeOnly, RefStates, counted
  <2>3. RefNew(h, kind) /\ h.snap = Ref!Counted /\ h.target = new
    BY DEF Ref!NewEvm, RefNew
  <2> HIDE DEF h
  <2>4. RefOpens(h)
    BY <2>1, RefOpenForm
  <2> QED  BY <1>1, <2>1, <2>2, <2>3, <2>4
<1> QED  BY <1>2, <1>3, <1>4, <1>5 DEF Ref!Create

RefCloses(d, fl) ==
  /\ evms # <<>> /\ Ref!Top.status # "run"
  /\ Shrunk(evms, evms', [Ref!Below EXCEPT !.rdata = d, !.flag = fl])

LEMMA RefReturnForm ==
  ASSUME RefOK, Ref!Top.kind # "TOP" => Len(evms) >= 2
  PROVE  /\ Ref!ReturnFromCall =>
              /\ Ref!Top.kind \in CallKinds
              /\ RefCloses(Ref!Top.output, IF Ref!Succeeded THEN "1" ELSE "0")
              /\ state' = IF Ref!Succeeded THEN state ELSE Ref!Top.snap
         /\ Ref!ReturnFromCreate =>
              /\ Ref!Top.kind \in CreateKinds
              /\ \E d : RefCloses(d, IF Ref!Succeeded THEN "1" ELSE "0")
              /\ state' = IF Ref!Succeeded
                            THEN [state EXCEPT !.code[Ref!Top.target] = Ref!Top.output]
                            ELSE Ref!Top.snap
<1>0. "0" \in Flags /\ "1" \in Flags /\ Empty \in Data /\ "TOP" \notin CallKinds \cup CreateKinds
  BY DEF Flags, Data, CallKinds, CreateKinds
<1>1. /\ {"CALL", "CALLCODE", "DELEGATECALL", "STATICCALL"} = CallKinds
      /\ {"CREATE", "CREATE2"} = CreateKinds
  BY DEF CallKinds, CreateKinds
<1>2. ASSUME Len(evms) >= 2, evms # <<>>, Ref!Top.status # "run",
             NEW d \in Data, NEW fl \in Flags,
             Ref!Resume([Ref!Below EXCEPT !.rdata = d, !.flag = fl])
      PROVE  RefCloses(d, fl)
  <2> DEFINE f == [Ref!Below EXCEPT !.rdata = d, !.flag = fl]
  <2>1. evms \in Seq(RefFrames) /\ Len(evms) \in Nat
    BY LenProperties DEF RefOK
  <2>2. Len(evms) - 1 \in 1 .. Len(evms)
    BY <1>2, <2>1
  <2>3. Ref!Below \in RefFrames
    BY <2>1, <2>2, ElementOfSeq DEF Ref!Below
  <2>4. f \in RefFrames
    BY <2>3 DEF RefFrames
  <2>5. Ref!Resume(f)
    BY <1>2
  <2> HIDE DEF f
  <2>6. Shrunk(evms, evms', f)
    BY <1>2, <2>1, <2>4, <2>5, SeqShrunk DEF Ref!Resume
  <2> QED  BY <1>2, <2>6 DEF RefCloses, f
<1>3. evms # <<>> => Ref!Top.output \in Data
  BY RefTopFacts DEF RefFrames
<1>4. ASSUME Ref!ReturnFromCall
      PROVE  /\ Ref!Top.kind \in CallKinds
             /\ RefCloses(Ref!Top.output, IF Ref!Succeeded THEN "1" ELSE "0")
             /\ state' = IF Ref!Succeeded THEN state ELSE Ref!Top.snap
  <2> DEFINE fl == IF Ref!Succeeded THEN "1" ELSE "0"
  <2>1. /\ Ref!Top.kind \in CallKinds /\ Ref!Top.kind # "TOP" /\ evms # <<>>
        /\ Ref!Top.status # "run" /\ fl \in Flags
        /\ Ref!Resume([Ref!Below EXCEPT !.rdata = Ref!Top.output, !.flag = fl])
    BY <1>0, <1>1, <1>4 DEF Ref!ReturnFromCall, Ref!Halted
  <2> HIDE DEF fl
  <2>2. RefCloses(Ref!Top.output, fl)
    BY <1>2, <1>3, <2>1
  <2> QED  BY <1>4, <2>1, <2>2 DEF Ref!ReturnFromCall, Ref!Rollback, fl
<1>5. ASSUME Ref!ReturnFromCreate
      PROVE  /\ Ref!Top.kind \in CreateKinds
             /\ \E d : RefCloses(d, IF Ref!Succeeded THEN "1" ELSE "0")
             /\ state' = IF Ref!Succeeded
                           THEN [state EXCEPT !.code[Ref!Top.target] = Ref!Top.output]
                           ELSE Ref!Top.snap
  <2>1. /\ Ref!Top.kind \in CreateKinds /\ Ref!Top.kind # "TOP" /\ evms # <<>>
        /\ Ref!Top.status # "run"
    BY <1>0, <1>1, <1>5 DEF Ref!ReturnFromCreate, Ref!Halted
  <2>2. Ref!Succeeded => Ref!Resume([Ref!Below EXCEPT !.rdata = Empty, !.flag = "1"])
                         /\ state' = [state EXCEPT !.code[Ref!Top.target] = Ref!Top.output]
    BY <1>5 DEF Ref!ReturnFromCreate
  <2>3. ~Ref!Succeeded => Ref!Resume([Ref!Below EXCEPT !.rdata = Ref!Top.output, !.flag = "0"])
                          /\ state' = Ref!Top.snap
    BY <1>5 DEF Ref!ReturnFromCreate, Ref!Rollback
  <2> QED  BY <1>0, <1>2, <1>3, <2>1, <2>2, <2>3
<1> QED  BY <1>4, <1>5

------------------------------------------------------------------------------
(***************************************************************************)
(* evm.lua's tables and the histories: the sets they are in.               *)
(***************************************************************************)
LocalTables ==
  [transient : [Slots -> Words], logs : Seq(Data), last : {"none", "call", "create"}]

LocalsOK == locals \in Seq(LocalTables) /\ Len(locals) = Len(frames)

TablesOK == LocalsOK /\ entries \in [Addrs -> 0 .. 2] /\ loose \subseteq Cells

LEMMA NewLocalsTyped == NewLocals \in LocalTables
<1>1. <<>> \in Seq(Data)
  BY EmptySeq
<1> QED  BY <1>1, DataAssumption DEF NewLocals, LocalTables

LEMMA LocalsTopFacts ==
  ASSUME TypeOK, LocalsOK, ~Idle
  PROVE  /\ locals # <<>> /\ Len(locals) \in Nat \ {0} /\ TopLocals \in LocalTables
<1>1. Len(locals) \in Nat \ {0} /\ Len(locals) \in 1 .. Len(locals)
  BY TopFacts DEF LocalsOK
<1>2. locals # <<>>
  BY <1>1, EmptySeq
<1> QED  BY <1>1, <1>2, ElementOfSeq DEF LocalsOK, TopLocals

LEMMA LocalsForm ==
  ASSUME TypeOK, LocalsOK, ~Idle
  PROVE  /\ \A l \in LocalTables : SetLocals(l) =>
              Edited(locals, locals', l) /\ locals' \in Seq(LocalTables)
         /\ UNCHANGED locals => Edited(locals, locals', TopLocals)
         /\ \A k \in {"call", "create"} :
              LET l == [TopLocals EXCEPT !.last = k]
              IN  /\ l \in LocalTables
                  /\ locals' = Append([locals EXCEPT ![Len(locals)] = l], NewLocals) =>
                       Grown(locals, locals', l, NewLocals) /\ locals' \in Seq(LocalTables)
<1>1. locals \in Seq(LocalTables) /\ locals # <<>> /\ TopLocals \in LocalTables
  BY LocalsTopFacts DEF LocalsOK
<1>2. ASSUME NEW l \in LocalTables, SetLocals(l)
      PROVE  Edited(locals, locals', l) /\ locals' \in Seq(LocalTables)
  BY <1>1, <1>2, SeqEdited DEF SetLocals
<1>3. UNCHANGED locals => Edited(locals, locals', TopLocals)
  BY SeqSame DEF TopLocals
<1>4. ASSUME NEW k \in {"call", "create"}
      PROVE  [TopLocals EXCEPT !.last = k] \in LocalTables
  BY <1>1, <1>4 DEF LocalTables
<1>5. ASSUME NEW l \in LocalTables,
             locals' = Append([locals EXCEPT ![Len(locals)] = l], NewLocals)
      PROVE  Grown(locals, locals', l, NewLocals) /\ locals' \in Seq(LocalTables)
  BY <1>1, <1>5, NewLocalsTyped, SeqGrown
<1> QED  BY <1>2, <1>3, <1>4, <1>5

\* What LuaTStore and LuaLog put in the frame's tables.
LEMMA LocalsWritten ==
  ASSUME TypeOK, LocalsOK, ~Idle
  PROVE  /\ \A s \in Slots, w \in Words : [TopLocals EXCEPT !.transient[s] = w] \in LocalTables
         /\ \A d \in Data : [TopLocals EXCEPT !.logs = Append(@, d)] \in LocalTables
<1>1. TopLocals \in LocalTables
  BY LocalsTopFacts
<1>2. ASSUME NEW s \in Slots, NEW w \in Words
      PROVE  [TopLocals EXCEPT !.transient[s] = w] \in LocalTables
  BY <1>1 DEF LocalTables
<1>3. ASSUME NEW d \in Data
      PROVE  [TopLocals EXCEPT !.logs = Append(@, d)] \in LocalTables
  <2> DEFINE logs == Append(TopLocals.logs, d)
  <2>1. logs \in Seq(Data)
    BY <1>1, AppendProperties DEF LocalTables
  <2>2. [TopLocals EXCEPT !.logs = Append(@, d)] = [TopLocals EXCEPT !.logs = logs]
    BY <1>1 DEF LocalTables
  <2> HIDE DEF logs
  <2> QED  BY <1>1, <2>1, <2>2 DEF LocalTables
<1> QED  BY <1>2, <1>3

LEMMA EnteredTyped ==
  ASSUME NEW a \in Addrs, Entered(a), entries \in [Addrs -> 0 .. 2]
  PROVE  /\ entries' \in [Addrs -> 0 .. 2]
         /\ \A b \in Addrs : entries'[b] >= entries[b]
         /\ \A b \in Addrs : b # a => entries'[b] = entries[b]
         /\ entries'[a] = IF entries[a] = 0 THEN 1 ELSE 2
BY DEF Entered

\* A call or a creation, whether it opens a frame on either side or on none.
LEMMA OpeningTables ==
  ASSUME TypeOK, TypeOK', RefOK, RefOK', TablesOK, ~Idle,
         Len(frames') = Len(frames) \/ Len(frames') = Len(frames) + 1,
         NEW k \in {"call", "create"}, Opening(k)
  PROVE  /\ TablesOK'
         /\ Len(frames') = Len(frames) =>
              Edited(locals, locals', [TopLocals EXCEPT !.last = k])
         /\ Len(frames') = Len(frames) + 1 =>
              Grown(locals, locals', [TopLocals EXCEPT !.last = k], NewLocals)
<1> DEFINE l == [TopLocals EXCEPT !.last = k]
<1>1. /\ Len(frames) \in Nat /\ Len(locals) = Len(frames)
      /\ entries \in [Addrs -> 0 .. 2] /\ loose \subseteq Cells
  BY TopFacts DEF TablesOK, LocalsOK
<1>2. l \in LocalTables
  BY LocalsForm DEF TablesOK
<1>3. \/ Len(frames') > Len(frames)
         /\ locals' = Append([locals EXCEPT ![Len(locals)] = l], NewLocals)
      \/ Len(frames') = Len(frames) /\ SetLocals(l)
  BY DEF Opening
<1> HIDE DEF l
<1>4. ASSUME Len(frames') = Len(frames)
      PROVE  LocalsOK' /\ Edited(locals, locals', l)
  <2>1. Edited(locals, locals', l) /\ locals' \in Seq(LocalTables)
    BY <1>1, <1>2, <1>3, <1>4, LocalsForm DEF TablesOK
  <2> QED  BY <1>1, <1>4, <2>1 DEF Edited, LocalsOK
<1>5. ASSUME Len(frames') = Len(frames) + 1
      PROVE  LocalsOK' /\ Grown(locals, locals', l, NewLocals)
  <2>1. locals' = Append([locals EXCEPT ![Len(locals)] = l], NewLocals)
    BY <1>1, <1>3, <1>5
  <2>2. Grown(locals, locals', l, NewLocals) /\ locals' \in Seq(LocalTables)
    BY <1>1, <2>1, LocalsForm DEF TablesOK, l
  <2> QED  BY <1>1, <1>5, <2>2 DEF Grown, LocalsOK
<1>6. entries' \in [Addrs -> 0 .. 2]
  <2>1. CASE UNCHANGED entries
    BY <1>1, <2>1
  <2>2. CASE Len(evms') > Len(evms) /\ Entered(Ref!Top.target')
    <3>1. evms' \in Seq(RefFrames) /\ Len(evms') \in Nat /\ Len(evms) \in Nat
      BY <2>2, LenProperties DEF RefOK
    <3>2. Len(evms') \in 1 .. Len(evms')
      BY <2>2, <3>1
    <3>3. Ref!Top.target' \in Addrs
      <4>1. evms'[Len(evms')] \in RefFrames
        BY <3>1, <3>2, ElementOfSeq
      <4> QED  BY <4>1 DEF Ref!Top, RefFrames
    <3> QED  BY <1>1, <2>2, <3>3, EnteredTyped
  <2> QED  BY <2>1, <2>2 DEF Opening
<1>7. loose' \subseteq Cells
  BY <1>1 DEF Opening, NoWrite, Loosen, Restored
<1> QED  BY <1>4, <1>5, <1>6, <1>7 DEF TablesOK, l

\* How a call or a creation changes the number of evm.lua's frames.
LEMMA CallLengths ==
  ASSUME TypeOK, TypeOK', NEW kind \in CallKinds, NEW to \in Callees, NEW v, BothCall(kind, to, v)
  PROVE  ~Idle /\ (Len(frames') = Len(frames) \/ Len(frames') = Len(frames) + 1)
<1>1. to \in Addrs
  BY AgreementAssumption
<1>2. CallTooDeep \/ CallNoCode(to) \/ Call(kind, to)
  BY DEF BothCall
<1>3. CASE CallTooDeep \/ CallNoCode(to)
  BY <1>1, <1>3, LuaFlagForm DEF Edited
<1>4. CASE Call(kind, to)
  BY <1>1, <1>4, LuaOpenForm DEF Grown
<1> QED  BY <1>2, <1>3, <1>4

LEMMA CreateLengths ==
  ASSUME TypeOK, TypeOK', NEW kind \in CreateKinds, NEW v, NEW init \in Data,
         NEW salt \in Salts \cup {0}, BothCreate(kind, v, init, salt)
  PROVE  ~Idle /\ (Len(frames') = Len(frames) \/ Len(frames') = Len(frames) + 1)
<1>1. CreateFails \/ Create(kind, init, salt)
  BY DEF BothCreate
<1>2. CASE CreateFails
  BY <1>2, LuaFlagForm DEF Edited
<1>3. CASE Create(kind, init, salt)
  BY <1>3, LuaOpenForm DEF Grown
<1> QED  BY <1>1, <1>2, <1>3

\* Opcodes that open nothing.
LEMMA LocalTablesStep ==
  ASSUME TypeOK, RefOK, TablesOK, SameShape,
         \/ \E s \in Slots, w \in Words : BothSStore(s, w) \/ BothTStore(s, w)
         \/ \E d \in Data : BothLog(d)
         \/ \E b \in Addrs : BothSelfDestruct(b)
         \/ BothHalt
  PROVE  TablesOK' /\ UNCHANGED entries /\ ~Idle
<1>1. /\ ~Idle /\ Len(frames') = Len(frames)
      /\ locals' \in Seq(LocalTables) /\ Len(locals') = Len(locals)
      /\ UNCHANGED entries
  <2>1. ASSUME ~Idle, UNCHANGED locals
        PROVE  locals' \in Seq(LocalTables) /\ Len(locals') = Len(locals)
    BY <2>1 DEF TablesOK, LocalsOK
  <2>2. ASSUME NEW s \in Slots, NEW w \in Words, BothSStore(s, w)
        PROVE  /\ ~Idle /\ Len(frames') = Len(frames)
               /\ UNCHANGED <<locals, entries>>
    BY <2>2, LuaWriteForm DEF BothSStore, Edited
  <2>3. ASSUME NEW s \in Slots, NEW w \in Words, BothTStore(s, w)
        PROVE  /\ ~Idle /\ Len(frames') = Len(frames)
               /\ locals' \in Seq(LocalTables) /\ Len(locals') = Len(locals)
               /\ UNCHANGED entries
    <3>1. ~Idle /\ Len(frames') = Len(frames)
      BY <2>3, LuaWriteForm DEF BothTStore, Edited
    <3> DEFINE l == [TopLocals EXCEPT !.transient[s] = w]
    <3>2. l \in LocalTables /\ SetLocals(l)
      BY <2>3, <3>1, LocalsWritten DEF BothTStore, LuaTStore, TablesOK
    <3> HIDE DEF l
    <3>3. Edited(locals, locals', l) /\ locals' \in Seq(LocalTables)
      BY <3>1, <3>2, LocalsForm DEF TablesOK
    <3> QED  BY <2>3, <3>1, <3>3 DEF BothTStore, Edited
  <2>4. ASSUME NEW d \in Data, BothLog(d)
        PROVE  /\ ~Idle /\ Len(frames') = Len(frames)
               /\ locals' \in Seq(LocalTables) /\ Len(locals') = Len(locals)
               /\ UNCHANGED entries
    <3>1. ~Idle /\ Len(frames') = Len(frames)
      BY <2>4, LuaWriteForm DEF BothLog, Edited
    <3> DEFINE l == [TopLocals EXCEPT !.logs = Append(@, d)]
    <3>2. l \in LocalTables /\ SetLocals(l)
      BY <2>4, <3>1, LocalsWritten DEF BothLog, LuaLog, TablesOK
    <3> HIDE DEF l
    <3>3. Edited(locals, locals', l) /\ locals' \in Seq(LocalTables)
      BY <3>1, <3>2, LocalsForm DEF TablesOK
    <3> QED  BY <2>4, <3>1, <3>3 DEF BothLog, Edited
  <2>5. ASSUME NEW b \in Addrs, BothSelfDestruct(b)
        PROVE  ~Idle /\ Len(frames') = Len(frames) /\ UNCHANGED <<locals, entries>>
    BY <2>5, LuaHaltForm DEF BothSelfDestruct, Edited
  <2>6. ASSUME BothHalt
        PROVE  ~Idle /\ Len(frames') = Len(frames) /\ UNCHANGED <<locals, entries>>
    BY <2>6, LuaHaltForm DEF BothHalt, Edited
  <2> QED  BY <2>1, <2>2, <2>3, <2>4, <2>5, <2>6
<1>2. Top.addr \in Addrs /\ Ref!Top.target \in Addrs
  BY <1>1, TopFacts, SameLength, RefTopFacts DEF Frame, RefFrames
<1>3. loose' \subseteq Cells
  <2>1. loose \subseteq Cells /\ Restored \subseteq Cells
    BY DEF TablesOK, Restored
  <2>2. ASSUME NEW s \in Slots, NEW w, BothSStore(s, w)
        PROVE  loose' \subseteq Cells
    BY <1>2, <2>1, <2>2 DEF BothSStore, Loosen, Cells
  <2>3. ASSUME NEW b \in Addrs, BothSelfDestruct(b)
        PROVE  loose' \subseteq Cells
    BY <1>2, <2>1, <2>3 DEF BothSelfDestruct, Loosen, Cells
  <2> QED  BY <2>1, <2>2, <2>3 DEF BothTStore, BothLog, BothHalt, NoWrite, Loosen
<1> QED  BY <1>1, <1>3 DEF TablesOK, LocalsOK

LEMMA SeqCut ==
  ASSUME NEW S, NEW q \in Seq(S), Len(q) >= 2
  PROVE  /\ Shrunk(q, SubSeq(q, 1, Len(q) - 1), q[Len(q) - 1])
         /\ SubSeq(q, 1, Len(q) - 1) \in Seq(S)
<1> DEFINE m == Len(q) - 1
           t == SubSeq(q, 1, m)
<1>1. Len(q) \in Nat /\ m \in Nat /\ m \in 1 .. m /\ m <= Len(q) /\ Len(q) = m + 1
  BY LenProperties
<1>2. \A i \in 1 .. m : q[i] \in S
  BY <1>1, ElementOfSeq
<1> HIDE DEF m
<1>3. t \in Seq(S) /\ Len(t) = m /\ \A i \in 1 .. m : t[i] = q[i]
  BY <1>1, <1>2, SubSeqProperties
<1> HIDE DEF t
<1>4. Len(q) - 1 = m /\ Len(q) - 2 = m - 1
  BY <1>1
<1>5. Shrunk(q, t, q[m])
  BY <1>1, <1>3, <1>4 DEF Shrunk
<1> QED  BY <1>3, <1>4, <1>5 DEF t, m

(***************************************************************************)
(* The end of a nested frame on both sides: f and e are the frames below,  *)
(* as they go on.                                                          *)
(***************************************************************************)
Closed(f, e) ==
  /\ ~Idle /\ evms # <<>> /\ Top.status # "run" /\ Top.kind \in CallKinds \cup CreateKinds
  /\ Shrunk(frames, frames', f) /\ Shrunk(evms, evms', e)
  /\ Shrunk(locals, locals', locals[Len(locals) - 1])
  /\ f.kind = Below.kind /\ f.status = Below.status /\ f.flag = e.flag
  /\ e.kind = Ref!Below.kind /\ e.status = Ref!Below.status /\ e.output = Ref!Below.output
  /\ e.target = Ref!Below.target /\ e.snap = Ref!Below.snap
  /\ Top.kind \in CallKinds => f.rdata = Top.rdata /\ e.rdata = Ref!Top.output
  /\ \/ state' = state
     \/ state' = Ref!Top.snap
     \/ /\ Top.kind \in CreateKinds
        /\ state' = [state EXCEPT !.code[Ref!Top.target] = Ref!Top.output]

Ended ==
  /\ ~Idle /\ frames' = <<>> /\ evms' = <<>> /\ locals' = <<>> /\ evms # <<>>
  /\ \/ state' = Ref!Destroyed(state)
     \/ state' = Ref!Destroyed(Ref!Top.snap)

LEMMA UnwindForm ==
  ASSUME TypeOK, RefOK, TablesOK, SameShape, BothUnwind
  PROVE  TablesOK' /\ UNCHANGED entries /\ (Ended \/ \E f, e : Closed(f, e))
<1>0. /\ {"CALL", "CALLCODE", "DELEGATECALL", "STATICCALL"} = CallKinds
      /\ {"CREATE", "CREATE2"} = CreateKinds
      /\ "TOP" \notin CallKinds \cup CreateKinds /\ CallKinds \cap CreateKinds = {}
  BY DEF CallKinds, CreateKinds
<1>1. ~Idle /\ Unwind /\ Ref!Unwind /\ UNCHANGED entries
  BY DEF BothUnwind, Unwind, ReturnToCaller, ReturnToCreator, CreationFailed, Answer, Halted
<1>2. /\ Len(frames) \in Nat \ {0} /\ Len(evms) = Len(frames) /\ Len(locals) = Len(frames)
      /\ evms # <<>> /\ Ref!Top.kind = Top.kind /\ Ref!Top.status = Top.status
      /\ locals \in Seq(LocalTables) /\ entries \in [Addrs -> 0 .. 2]
  BY <1>1, TopFacts, SameLength DEF TablesOK, LocalsOK
<1>3. Succeeded <=> Ref!Succeeded
  BY <1>2 DEF Succeeded, Ref!Succeeded
<1>4. loose' \subseteq Cells
  BY DEF BothUnwind, NoWrite, Loosen, Restored, TablesOK
<1>5. locals' = SubSeq(locals, 1, Len(locals) - 1)
  BY DEF BothUnwind
<1>6. CASE Top.kind = "TOP"
  <2>1. Answer /\ Ref!FinishMessage
    BY <1>0, <1>1, <1>2, <1>6 DEF Unwind, ReturnToCaller, ReturnToCreator, CreationFailed,
       Ref!Unwind, Ref!ReturnFromCall, Ref!ReturnFromCreate
  <2>2. frames' = <<>> /\ evms' = <<>> /\ state' = Ref!Destroyed(Ref!Rollback)
    BY <2>1 DEF Answer, Ref!FinishMessage
  <2>3. Len(frames) = 1
    <3>1. Len(frames) \in 1 .. Len(frames)
      BY <1>2
    <3> QED  BY <1>2, <1>6, <3>1 DEF TypeOK, FramesOK, Top
  <2>4. locals' = <<>>
    BY <1>2, <1>5, <2>3, SubSeqProperties, EmptySeq
  <2>5. Len(frames') = 0 /\ Len(locals') = 0 /\ locals' \in Seq(LocalTables)
    BY <2>2, <2>4, EmptySeq
  <2> QED  BY <1>1, <1>2, <1>4, <2>2, <2>4, <2>5 DEF TablesOK, LocalsOK, Ended, Ref!Rollback
<1>7. CASE Top.kind # "TOP"
  <2>1. Len(frames) >= 2 /\ Len(evms) >= 2 /\ Below \in Frame
    BY <1>1, <1>2, <1>7, BelowFacts
  <2>2. /\ Shrunk(locals, locals', locals[Len(locals) - 1]) /\ locals' \in Seq(LocalTables)
    BY <1>2, <1>5, <2>1, SeqCut
  <2>3. Ref!Below \in RefFrames
    <3>1. evms \in Seq(RefFrames) /\ Len(evms) - 1 \in 1 .. Len(evms)
      BY <1>2, <2>1 DEF RefOK
    <3> QED  BY <3>1, ElementOfSeq DEF Ref!Below
  <2> DEFINE fl == IF Succeeded THEN "1" ELSE "0"
  <2>4. fl = IF Ref!Succeeded THEN "1" ELSE "0"
    BY <1>3
  <2>5. ASSUME Top.kind \in CallKinds
        PROVE  \E f, e : Closed(f, e)
    <3>1. ReturnToCaller /\ Ref!ReturnFromCall
      BY <1>0, <1>1, <1>2, <2>5 DEF Unwind, ReturnToCreator, CreationFailed, Answer,
         Ref!Unwind, Ref!ReturnFromCreate, Ref!FinishMessage
    <3> DEFINE f == [Below EXCEPT !.rdata = Top.rdata, !.flag = fl]
               e == [Ref!Below EXCEPT !.rdata = Ref!Top.output, !.flag = fl]
    <3>2. Top.status # "run" /\ Shrunk(frames, frames', f)
      BY <3>1, LuaReturnForm
    <3>3. /\ Shrunk(evms, evms', e)
          /\ state' = state \/ state' = Ref!Top.snap
      BY <2>1, <2>4, <3>1, RefReturnForm DEF RefCloses
    <3>4. /\ f.kind = Below.kind /\ f.status = Below.status /\ f.flag = e.flag
          /\ e.kind = Ref!Below.kind /\ e.status = Ref!Below.status
          /\ e.output = Ref!Below.output
          /\ e.target = Ref!Below.target /\ e.snap = Ref!Below.snap
          /\ f.rdata = Top.rdata /\ e.rdata = Ref!Top.output
      BY <2>1, <2>3 DEF Frame, RefFrames
    <3> HIDE DEF f, e
    <3> QED  BY <1>1, <1>2, <2>2, <2>5, <3>2, <3>3, <3>4 DEF Closed
  <2>6. ASSUME Top.kind \in CreateKinds
        PROVE  \E f, e : Closed(f, e)
    <3>1. (ReturnToCreator \/ CreationFailed) /\ Ref!ReturnFromCreate
      BY <1>0, <1>1, <1>2, <2>6 DEF Unwind, ReturnToCaller, Answer,
         Ref!Unwind, Ref!ReturnFromCall, Ref!FinishMessage
    <3>2. PICK d : RefCloses(d, IF Ref!Succeeded THEN "1" ELSE "0")
      BY <2>1, <3>1, RefReturnForm
    <3> DEFINE f == [Below EXCEPT !.flag = fl]
               e == [Ref!Below EXCEPT !.rdata = d, !.flag = fl]
    <3>3. Top.status # "run" /\ Shrunk(frames, frames', f)
      BY <3>1, LuaReturnForm
    <3>4. Shrunk(evms, evms', e)
      BY <2>4, <3>2 DEF RefCloses
    <3>5. \/ state' = Ref!Top.snap
          \/ state' = [state EXCEPT !.code[Ref!Top.target] = Ref!Top.output]
      BY <2>1, <3>1, RefReturnForm
    <3>6. /\ f.kind = Below.kind /\ f.status = Below.status /\ f.flag = e.flag
          /\ e.kind = Ref!Below.kind /\ e.status = Ref!Below.status
          /\ e.output = Ref!Below.output
          /\ e.target = Ref!Below.target /\ e.snap = Ref!Below.snap
      BY <2>1, <2>3 DEF Frame, RefFrames
    <3> HIDE DEF f, e
    <3> QED  BY <1>0, <1>1, <1>2, <2>2, <2>6, <3>3, <3>4, <3>5, <3>6 DEF Closed
  <2>7. Top.kind \in CallKinds \cup CreateKinds
    BY <1>1, <1>7, TopFacts DEF Frame
  <2>8. \E f, e : Closed(f, e)
    BY <2>5, <2>6, <2>7
  <2>9. Len(frames') = Len(frames) - 1 /\ Len(locals') = Len(locals) - 1
    BY <2>2, <2>8 DEF Closed, Shrunk
  <2> QED  BY <1>1, <1>2, <1>4, <2>2, <2>8, <2>9 DEF TablesOK, LocalsOK
<1> QED  BY <1>6, <1>7

LEMMA TablesStep ==
  ASSUME TypeOK, RefOK, TablesOK, [BothNext]_bothVars
  PROVE  TablesOK'
<1>0. Callees \subseteq Addrs /\ Values \subseteq Nat
  BY AgreementAssumption
<1>1. TypeOK' /\ RefOK'
  BY BothNextIsNext, NextTypeOK, BothSteps
<1>2. CASE Over \/ UNCHANGED bothVars
  BY <1>2 DEF Over, bothVars, vars, TablesOK, LocalsOK
<1>3. CASE ~(Over \/ UNCHANGED bothVars)
  <2>1. SameShape
    BY <1>3 DEF BothNext, BothStep
  <2>2. ASSUME NEW a \in Callees, BothBegin(a)
        PROVE  TablesOK'
    <3>1. locals' = <<NewLocals>> /\ Len(frames') = 1 /\ Entered(a) /\ NoWrite
      BY <2>2 DEF BothBegin, EthCall
    <3>2. locals' \in Seq(LocalTables) /\ Len(locals') = 1
      BY <3>1, NewLocalsTyped
    <3>3. entries' \in [Addrs -> 0 .. 2]
      BY <1>0, <3>1, EnteredTyped DEF TablesOK
    <3>4. loose' \subseteq Cells
      BY <3>1 DEF NoWrite, Loosen, Restored, TablesOK
    <3> QED  BY <3>1, <3>2, <3>3, <3>4 DEF TablesOK, LocalsOK
  <2>3. ASSUME NEW kind \in CallKinds, NEW to \in Callees, NEW v, BothCall(kind, to, v)
        PROVE  TablesOK'
    <3>1. Opening("call")
      BY <2>3 DEF BothCall
    <3> QED  BY <1>1, <2>3, <3>1, CallLengths, OpeningTables
  <2>4. ASSUME NEW kind \in CreateKinds, NEW v, NEW init \in Data, NEW salt \in Salts \cup {0},
               BothCreate(kind, v, init, salt)
        PROVE  TablesOK'
    <3>1. Opening("create")
      BY <2>4 DEF BothCreate
    <3>2. ~Idle /\ (Len(frames') = Len(frames) \/ Len(frames') = Len(frames) + 1)
      BY <1>1, <2>4, CreateLengths
    <3> QED  BY <1>1, <3>1, <3>2, OpeningTables
  <2>5. CASE BothUnwind
    BY <2>1, <2>5, UnwindForm
  <2>6. ASSUME \/ \E s \in Slots, w \in Words : BothSStore(s, w) \/ BothTStore(s, w)
               \/ \E d \in Data : BothLog(d)
               \/ \E b \in Addrs : BothSelfDestruct(b)
               \/ BothHalt
        PROVE  TablesOK'
    BY <2>1, <2>6, LocalTablesStep
  <2>7. /\ {"CALL", "CALLCODE", "DELEGATECALL", "STATICCALL"} = CallKinds
        /\ {"CREATE", "CREATE2"} = CreateKinds
    BY DEF CallKinds, CreateKinds
  <2> QED  BY <1>3, <2>2, <2>3, <2>4, <2>5, <2>6, <2>7 DEF BothNext, BothStep
<1> QED  BY <1>2, <1>3

LEMMA BothTyped == BothSpec => [](TypeOK /\ RefOK /\ TablesOK)
<1>1. BothInit => TablesOK
  <2> SUFFICES ASSUME BothInit PROVE TablesOK
    OBVIOUS
  <2>1. locals \in Seq(LocalTables) /\ Len(locals) = Len(frames)
    BY EmptySeq DEF BothInit, Init
  <2>2. entries \in [Addrs -> 0 .. 2] /\ loose = {}
    BY DEF BothInit
  <2> QED  BY <2>1, <2>2 DEF TablesOK, LocalsOK
<1>2. TypeOK /\ RefOK /\ TablesOK /\ [BothNext]_bothVars => TablesOK'
  BY TablesStep
<1> QED  BY <1>1, <1>2, BothWellFormed, PTL DEF BothSpec

\* Every frame has its tables, transient storage holds words, and the histories count and
\* name what there is, on both sides of the comparison.
THEOREM AgreementTyped == BothSpec => []AgreementTypeOK
<1>1. TypeOK /\ RefOK /\ TablesOK => AgreementTypeOK
  <2> SUFFICES ASSUME TypeOK, RefOK, TablesOK PROVE AgreementTypeOK
    OBVIOUS
  <2>1. \A i \in 1 .. Len(locals) : locals[i] \in LocalTables
    BY ElementOfSeq DEF TablesOK, LocalsOK
  <2> QED  BY <2>1 DEF TablesOK, LocalsOK, LocalTables, RefOK, RefStates, AgreementTypeOK
<1> QED  BY <1>1, BothTyped, PTL

------------------------------------------------------------------------------
(***************************************************************************)
(* Steps in step: what the two sides and the tables can do together when   *)
(* the shape stays the same.                                               *)
(***************************************************************************)
TablesKept(st, new) == new.transient = st.transient /\ new.logs = st.logs

CodesKept(st, new) ==
  new.code = st.code /\ new.created = st.created /\ new.doomed \subseteq st.doomed \cup st.created

BothRunning == ~Idle /\ evms # <<>> /\ Top.status = "run"

Wrote ==
  /\ BothRunning /\ UNCHANGED entries
  /\ Edited(frames, frames', Top) /\ Edited(evms, evms', Ref!Top)
  /\ CodesKept(state, state')
  /\ \/ Edited(locals, locals', TopLocals) /\ TablesKept(state, state')
     \/ \E s \in Slots, w \in Words :
          /\ Edited(locals, locals', [TopLocals EXCEPT !.transient[s] = w])
          /\ state' = [state EXCEPT !.transient[Ref!Top.target][s] = w]
     \/ \E d \in Data :
          /\ Edited(locals, locals', [TopLocals EXCEPT !.logs = Append(@, d)])
          /\ state' = [state EXCEPT !.logs = Append(@, <<Ref!Top.target, d>>)]

\* An opcode that changed the two frames, and their tables to l.
BothEdited(f, e, l) ==
  /\ BothRunning /\ UNCHANGED entries
  /\ Edited(frames, frames', f) /\ Edited(evms, evms', e) /\ Edited(locals, locals', l)
  /\ CodesKept(state, state') /\ TablesKept(state, state')
  /\ f.kind = Top.kind /\ e.kind = Ref!Top.kind
  /\ e.target = Ref!Top.target /\ e.snap = Ref!Top.snap

BothHalted(f, e) ==
  /\ BothEdited(f, e, TopLocals)
  /\ f.flag = Top.flag /\ e.flag = Ref!Top.flag
  /\ f.status = e.status /\ f.status # "run"
  /\ e.output \in {Empty, Ref!Top.output, f.rdata}

BothTold(f, e, k) ==
  /\ BothEdited(f, e, [TopLocals EXCEPT !.last = k]) /\ k \in {"call", "create"}
  /\ f.status = "run" /\ e.status = "run" /\ f.flag = e.flag
  /\ e.output = Ref!Top.output
  /\ k = "call" => f.rdata = Empty /\ e.rdata = Empty

Last(kind) == IF kind \in CreateKinds THEN "create" ELSE "call"

\* What an opened frame finds, and leaves to be found, of the reference's state.
Begins(e, kind) ==
  /\ TablesKept(state, e.snap) /\ TablesKept(state, state')
  /\ CodesKept(state, e.snap)
  /\ state'.code = state.code /\ state'.doomed = state.doomed
  /\ kind \in CallKinds => state'.created = state.created
  /\ kind \in CreateKinds => state'.created = state.created \cup {e.target}

BothInside(f, e, kind) ==
  /\ BothRunning /\ kind \in CallKinds \cup CreateKinds
  /\ Grown(frames, frames', Top, f)
  /\ Grown(evms, evms', [Ref!Top EXCEPT !.rdata = Empty], e)
  /\ Grown(locals, locals', [TopLocals EXCEPT !.last = Last(kind)], NewLocals)
  /\ New(f, kind) /\ RefNew(e, kind) /\ Entered(e.target) /\ e.target \in Addrs
  /\ Begins(e, kind)

\* The call begins, on both sides in the account a.
BothStart(a) ==
  /\ Idle /\ evms = <<>> /\ a \in Addrs /\ Entered(a) /\ state' = state
  /\ \E f, e : /\ frames' = <<f>> /\ evms' = <<e>> /\ locals' = <<NewLocals>>
               /\ New(f, "TOP") /\ RefNew(e, "TOP") /\ e.target = a /\ e.snap = state

Lockstep ==
  \/ Wrote
  \/ \E f, e : BothHalted(f, e)
  \/ \E f, e, k : BothTold(f, e, k)
  \/ \E f, e, kind : BothInside(f, e, kind)
  \/ UNCHANGED entries /\ \E f, e : Closed(f, e)
  \/ UNCHANGED entries /\ Ended
  \/ \E a : BothStart(a)

\* A step that is not in step makes one of the differences that are listed.
Parts == ListedDifference /\ ~SameShape'

\* The innermost frames after an opcode.
LEMMA TopsAfter ==
  ASSUME TypeOK, RefOK, SameShape, ~Idle, NEW f, NEW e
  PROVE  /\ Edited(frames, frames', f) => Top' = f /\ Len(frames') = Len(frames)
         /\ Edited(evms, evms', e) => Ref!Top' = e /\ Len(evms') = Len(evms)
         /\ Edited(frames, frames', f) /\ Edited(evms, evms', e) /\ SameShape' =>
              f.status = e.status /\ f.flag = e.flag
         /\ Len(frames') # Len(evms') => ~SameShape'
<1>1. Len(frames) \in Nat \ {0} /\ Len(evms) = Len(frames)
  BY TopFacts, SameLength
<1>2. ASSUME Edited(frames, frames', f)
      PROVE  Top' = f /\ Len(frames') = Len(frames) /\ frames'[Len(frames)] = f
  BY <1>2 DEF Edited, Top
<1>3. ASSUME Edited(evms, evms', e)
      PROVE  Ref!Top' = e /\ Len(evms') = Len(evms) /\ evms'[Len(evms)] = e
  BY <1>3 DEF Edited, Ref!Top
<1>4. ASSUME Edited(frames, frames', f), Edited(evms, evms', e), SameShape'
      PROVE  f.status = e.status /\ f.flag = e.flag
  <2>1. Len(frames) \in 1 .. Len(frames')
    BY <1>1, <1>2, <1>4
  <2> QED  BY <1>1, <1>2, <1>3, <1>4, <2>1 DEF SameShape, SameFrame
<1>5. Len(frames') # Len(evms') => ~SameShape'
  BY DEF SameShape
<1> QED  BY <1>2, <1>3, <1>4, <1>5

\* A write that the reference rejects.
LEMMA RejectsPart ==
  ASSUME TypeOK, RefOK, SameShape, ~Idle, RefRejects, NEW f,
         \/ Edited(frames, frames', f) /\ f.status # "failed"
         \/ Len(frames') = Len(frames) + 1
  PROVE  Parts
<1> DEFINE e == [Ref!Top EXCEPT !.status = "failed", !.output = Empty]
<1>1. Edited(evms, evms', e) /\ Ref!Top.static
  BY DEF RefRejects, RefHalts
<1>2. e.status = "failed"
  BY RefTopFacts, SameLength DEF RefFrames
<1> HIDE DEF e
<1>3. Ref!Top' = e /\ Len(evms') = Len(evms) /\ Len(frames) \in Nat /\ Len(evms) = Len(frames)
  BY <1>1, TopsAfter, SameLength
<1>4. EndsIn(evms, "failed")
  BY <1>1, <1>2, <1>3 DEF EndsIn, Edited
<1>5. ~SameShape'
  BY <1>1, <1>2, <1>3, TopsAfter
<1> QED  BY <1>1, <1>4, <1>5 DEF Parts, ListedDifference

\* A change of the reference's storage or balances alone.
LEMMA KeptElsewhere ==
  ASSUME RefOK
  PROVE  /\ state' = state => CodesKept(state, state') /\ TablesKept(state, state')
         /\ \A bs : state' = [state EXCEPT !.balance = bs] =>
              CodesKept(state, state') /\ TablesKept(state, state')
         /\ \A x : state' = [state EXCEPT !.storage = x] =>
              CodesKept(state, state') /\ TablesKept(state, state')
         /\ \A x : state' = [state EXCEPT !.transient = x] => CodesKept(state, state')
         /\ \A x : state' = [state EXCEPT !.logs = x] => CodesKept(state, state')
         /\ \A bs : /\ Ref!Top.target \in state.created
                    /\ state' = [state EXCEPT !.balance = bs, !.doomed = @ \cup {Ref!Top.target}]
                    => CodesKept(state, state') /\ TablesKept(state, state')
<1>0. state \in RefStates
  BY DEF RefOK
<1>1. ASSUME NEW bs, Ref!Top.target \in state.created,
             state' = [state EXCEPT !.balance = bs, !.doomed = @ \cup {Ref!Top.target}]
      PROVE  CodesKept(state, state') /\ TablesKept(state, state')
  <2>1. /\ state'.code = state.code /\ state'.created = state.created
        /\ state'.transient = state.transient /\ state'.logs = state.logs
        /\ state'.doomed = state.doomed \cup {Ref!Top.target}
    BY <1>0, <1>1 DEF RefStates
  <2> QED  BY <1>1, <2>1 DEF CodesKept, TablesKept
<1> QED  BY <1>0, <1>1 DEF RefStates, CodesKept, TablesKept

LEMMA WriteParts ==
  ASSUME TypeOK, RefOK, TablesOK, SameShape,
         \/ \E s \in Slots, w \in Words : BothSStore(s, w) \/ BothTStore(s, w)
         \/ \E d \in Data : BothLog(d)
  PROVE  Lockstep \/ Parts
<1>0. UNCHANGED entries /\ ~Idle /\ evms # <<>>
  BY LocalTablesStep, SameLength
<1>1. Top.status = "run" /\ Edited(frames, frames', Top)
  BY LuaWriteForm DEF BothSStore, BothTStore, BothLog
<1>2. CASE RefRejects
  BY <1>0, <1>1, <1>2, RejectsPart
<1>3. ASSUME NEW s \in Slots, NEW w \in Words, BothSStore(s, w), ~RefRejects
      PROVE  Wrote
  <2>1. /\ Edited(evms, evms', Ref!Top)
        /\ state' = [state EXCEPT !.storage[Ref!Top.target][s] = w]
    BY <1>3, RefSStoreForm DEF BothSStore
  <2> DEFINE x == [state.storage EXCEPT ![Ref!Top.target][s] = w]
  <2>2. state' = [state EXCEPT !.storage = x]
    BY <2>1 DEF RefOK, RefStates
  <2> HIDE DEF x
  <2>3. CodesKept(state, state') /\ TablesKept(state, state')
    BY <2>2, KeptElsewhere
  <2>4. Edited(locals, locals', TopLocals)
    BY <1>0, <1>3, LocalsForm DEF BothSStore, TablesOK
  <2> QED  BY <1>0, <1>1, <2>1, <2>3, <2>4 DEF Wrote, BothRunning
<1>4. ASSUME NEW s \in Slots, NEW w \in Words, BothTStore(s, w), ~RefRejects
      PROVE  Wrote
  <2>1. /\ Edited(evms, evms', Ref!Top)
        /\ state' = [state EXCEPT !.transient[Ref!Top.target][s] = w]
    BY <1>4, RefWriteForm DEF BothTStore
  <2> DEFINE x == [state.transient EXCEPT ![Ref!Top.target][s] = w]
             l == [TopLocals EXCEPT !.transient[s] = w]
  <2>2. state' = [state EXCEPT !.transient = x]
    BY <2>1 DEF RefOK, RefStates
  <2> HIDE DEF x
  <2>3. CodesKept(state, state')
    BY <2>2, KeptElsewhere
  <2>4. l \in LocalTables /\ SetLocals(l)
    BY <1>0, <1>4, LocalsWritten DEF BothTStore, LuaTStore, TablesOK
  <2>5. Edited(locals, locals', l)
    <3> HIDE DEF l
    <3> QED  BY <1>0, <2>4, LocalsForm DEF TablesOK
  <2> QED  BY <1>0, <1>1, <2>1, <2>3, <2>5 DEF Wrote, BothRunning
<1>5. ASSUME NEW d \in Data, BothLog(d), ~RefRejects
      PROVE  Wrote
  <2>1. /\ Edited(evms, evms', Ref!Top)
        /\ state' = [state EXCEPT !.logs = Append(@, <<Ref!Top.target, d>>)]
    BY <1>5, RefWriteForm DEF BothLog
  <2> DEFINE x == Append(state.logs, <<Ref!Top.target, d>>)
             l == [TopLocals EXCEPT !.logs = Append(@, d)]
  <2>2. state' = [state EXCEPT !.logs = x]
    BY <2>1 DEF RefOK, RefStates
  <2> HIDE DEF x
  <2>3. CodesKept(state, state')
    BY <2>2, KeptElsewhere
  <2>4. l \in LocalTables /\ SetLocals(l)
    BY <1>0, <1>5, LocalsWritten DEF BothLog, LuaLog, TablesOK
  <2>5. Edited(locals, locals', l)
    <3> HIDE DEF l
    <3> QED  BY <1>0, <2>4, LocalsForm DEF TablesOK
  <2> QED  BY <1>0, <1>1, <2>1, <2>3, <2>5 DEF Wrote, BothRunning
<1> QED  BY <1>2, <1>3, <1>4, <1>5 DEF Lockstep

\* Frames that halt: f and e are what the two became.
LEMMA HaltsTogether ==
  ASSUME TypeOK, RefOK, TablesOK, SameShape, BothRunning, UNCHANGED <<entries, locals>>,
         NEW st \in Statuses \ {"run"}, NEW re \in Statuses \ {"run"},
         NEW f \in {[Top EXCEPT !.status = st]} \cup
                   {[Top EXCEPT !.status = st, !.rdata = d] : d \in Data},
         NEW e \in {[Ref!Top EXCEPT !.status = re]} \cup
                   {[Ref!Top EXCEPT !.status = re, !.output = d] : d \in {Empty, f.rdata}},
         Edited(frames, frames', f), Edited(evms, evms', e),
         CodesKept(state, state'), TablesKept(state, state')
  PROVE  /\ st = re => BothHalted(f, e)
         /\ st # re => ~SameShape' /\ EndsIn(frames, st) /\ EndsIn(evms, re)
<1>1. Top \in Frame /\ Ref!Top \in RefFrames
  BY TopFacts, RefTopFacts DEF BothRunning
<1>2. f.status = st /\ f.kind = Top.kind /\ f.flag = Top.flag
  BY <1>1 DEF Frame
<1>3. /\ e.status = re /\ e.kind = Ref!Top.kind /\ e.flag = Ref!Top.flag
      /\ e.target = Ref!Top.target /\ e.snap = Ref!Top.snap
      /\ e.output \in {Empty, Ref!Top.output, f.rdata}
  BY <1>1 DEF RefFrames
<1>4. Edited(locals, locals', TopLocals)
  BY LocalsForm DEF BothRunning, TablesOK
<1>5. EndsIn(frames, st)
  BY <1>2 DEF EndsIn, Edited
<1>6. EndsIn(evms, re)
  BY <1>3 DEF EndsIn, Edited
<1>7. st # re => ~SameShape'
  BY <1>2, <1>3, TopsAfter DEF BothRunning
<1> QED  BY <1>2, <1>3, <1>4, <1>5, <1>6, <1>7 DEF BothHalted, BothEdited

LEMMA SelfDestructParts ==
  ASSUME TypeOK, RefOK, TablesOK, SameShape, NEW b \in Addrs, BothSelfDestruct(b)
  PROVE  Lockstep \/ Parts
<1> DEFINE f == [Top EXCEPT !.status = "stopped"]
           e == [Ref!Top EXCEPT !.status = "stopped"]
<1>1. BothRunning /\ UNCHANGED <<entries, locals>> /\ Edited(frames, frames', f)
  BY LuaHaltForm, SameLength DEF BothSelfDestruct, BothRunning
<1>2. f.status = "stopped"
  BY <1>1, TopFacts DEF Frame, BothRunning
<1>3. CASE RefRejects
  <2> HIDE DEF f
  <2> QED  BY <1>1, <1>2, <1>3, RejectsPart DEF BothRunning
<1>4. CASE ~RefRejects
  <2>1. Ref!SelfDestruct(b)
    BY DEF BothSelfDestruct
  <2>2. /\ Edited(evms, evms', e)
        /\ \/ \E bs : state' = [state EXCEPT !.balance = bs]
           \/ \E bs : /\ Ref!Top.target \in state.created
                      /\ state' = [state EXCEPT !.balance = bs, !.doomed = @ \cup {Ref!Top.target}]
    BY <1>4, <2>1, RefWriteForm
  <2>3. CodesKept(state, state') /\ TablesKept(state, state')
    BY <2>2, KeptElsewhere
  <2>4. BothHalted(f, e)
    BY <1>1, <2>2, <2>3, HaltsTogether DEF Statuses
  <2> QED  BY <2>4 DEF Lockstep
<1> QED  BY <1>3, <1>4

LEMMA HaltParts ==
  ASSUME TypeOK, RefOK, TablesOK, SameShape, BothHalt
  PROVE  Lockstep \/ Parts
<1>0. UNCHANGED <<entries, locals>> /\ ~Idle /\ evms # <<>> /\ Empty \in Data
  BY LocalTablesStep, SameLength DEF BothHalt, Data
<1>1. {"stopped", "failed", "returned", "reverted"} \subseteq Statuses \ {"run"}
  BY DEF Statuses
<1>2. state' = state /\ CodesKept(state, state') /\ TablesKept(state, state')
  BY RefHaltForm, KeptElsewhere DEF BothHalt, RefHalts
<1>3. ASSUME Stop /\ Ref!Stop
      PROVE  \E f, e : BothHalted(f, e)
  <2> DEFINE f == [Top EXCEPT !.status = "stopped"]
             e == [Ref!Top EXCEPT !.status = "stopped", !.output = Empty]
  <2>1. BothRunning /\ Edited(frames, frames', f)
    BY <1>0, <1>3, LuaHaltForm DEF BothRunning
  <2>2. Edited(evms, evms', e)
    BY <1>3, RefHaltForm DEF RefHalts
  <2>3. e \in {[Ref!Top EXCEPT !.status = "stopped", !.output = x] : x \in {Empty, f.rdata}}
    OBVIOUS
  <2>4. f \in {[Top EXCEPT !.status = "stopped"]}
    OBVIOUS
  <2> HIDE DEF f, e
  <2>5. BothHalted(f, e)
    BY <1>0, <1>1, <1>2, <2>1, <2>2, <2>3, <2>4, HaltsTogether
  <2> QED  BY <2>5
<1>4. ASSUME NEW d \in Data, Return(d) /\ Ref!Return(d)
      PROVE  \E f, e : BothHalted(f, e)
  <2> DEFINE f == [Top EXCEPT !.status = "returned", !.rdata = d]
             e == [Ref!Top EXCEPT !.status = "returned", !.output = d]
  <2>1. BothRunning /\ Edited(frames, frames', f) /\ f.rdata = d
    BY <1>0, <1>4, LuaHaltForm, TopFacts DEF BothRunning, Frame
  <2>2. Edited(evms, evms', e)
    BY <1>4, RefHaltForm DEF RefHalts
  <2>3. /\ f \in {[Top EXCEPT !.status = "returned", !.rdata = x] : x \in Data}
        /\ e \in {[Ref!Top EXCEPT !.status = "returned", !.output = x] : x \in {Empty, f.rdata}}
    BY <2>1
  <2> HIDE DEF f, e
  <2>4. BothHalted(f, e)
    BY <1>0, <1>1, <1>2, <2>1, <2>2, <2>3, HaltsTogether
  <2> QED  BY <2>4
<1>5. ASSUME NEW d \in Data, Revert(d) /\ Ref!Revert(d)
      PROVE  \E f, e : BothHalted(f, e)
  <2> DEFINE f == [Top EXCEPT !.status = "reverted", !.rdata = d]
             e == [Ref!Top EXCEPT !.status = "reverted", !.output = d]
  <2>1. BothRunning /\ Edited(frames, frames', f) /\ f.rdata = d
    BY <1>0, <1>5, LuaHaltForm, TopFacts DEF BothRunning, Frame
  <2>2. Edited(evms, evms', e)
    BY <1>5, RefHaltForm DEF RefHalts
  <2>3. /\ f \in {[Top EXCEPT !.status = "reverted", !.rdata = x] : x \in Data}
        /\ e \in {[Ref!Top EXCEPT !.status = "reverted", !.output = x] : x \in {Empty, f.rdata}}
    BY <2>1
  <2> HIDE DEF f, e
  <2>4. BothHalted(f, e)
    BY <1>0, <1>1, <1>2, <2>1, <2>2, <2>3, HaltsTogether
  <2> QED  BY <2>4
<1>6. ASSUME Abort("INVALID") \/ UnknownOpcode, Ref!Raise
      PROVE  \E f, e : BothHalted(f, e)
  <2> DEFINE f == [Top EXCEPT !.status = "failed"]
             e == [Ref!Top EXCEPT !.status = "failed", !.output = Empty]
  <2>1. BothRunning /\ Edited(frames, frames', f)
    BY <1>0, <1>6, LuaHaltForm DEF BothRunning
  <2>2. Edited(evms, evms', e)
    BY <1>6, RefHaltForm DEF RefHalts
  <2>3. /\ f \in {[Top EXCEPT !.status = "failed"]}
        /\ e \in {[Ref!Top EXCEPT !.status = "failed", !.output = x] : x \in {Empty, f.rdata}}
    OBVIOUS
  <2> HIDE DEF f, e
  <2>4. BothHalted(f, e)
    BY <1>0, <1>1, <1>2, <2>1, <2>2, <2>3, HaltsTogether
  <2> QED  BY <2>4
<1>7. ASSUME BadJump /\ Ref!Raise
      PROVE  Parts
  <2> DEFINE f == [Top EXCEPT !.status = "stopped"]
             e == [Ref!Top EXCEPT !.status = "failed", !.output = Empty]
  <2>1. BothRunning /\ Edited(frames, frames', f)
    BY <1>0, <1>7, LuaHaltForm DEF BothRunning
  <2>2. Edited(evms, evms', e)
    BY <1>7, RefHaltForm DEF RefHalts
  <2>3. /\ f \in {[Top EXCEPT !.status = "stopped"]}
        /\ e \in {[Ref!Top EXCEPT !.status = "failed", !.output = x] : x \in {Empty, f.rdata}}
    OBVIOUS
  <2> HIDE DEF f, e
  <2>4. ~SameShape' /\ EndsIn(frames, "stopped") /\ EndsIn(evms, "failed")
    BY <1>0, <1>1, <1>2, <2>1, <2>2, <2>3, HaltsTogether
  <2> QED  BY <2>4 DEF Parts, ListedDifference
<1>8. ASSUME UnknownOpcode /\ Ref!EndOfCode
      PROVE  Parts
  <2> DEFINE f == [Top EXCEPT !.status = "failed"]
             e == [Ref!Top EXCEPT !.status = "stopped"]
  <2>1. BothRunning /\ Edited(frames, frames', f)
    BY <1>0, <1>8, LuaHaltForm DEF BothRunning
  <2>2. Edited(evms, evms', e)
    BY <1>8, RefHaltForm
  <2>3. f \in {[Top EXCEPT !.status = "failed"]} /\ e \in {[Ref!Top EXCEPT !.status = "stopped"]}
    OBVIOUS
  <2> HIDE DEF f, e
  <2>4. ~SameShape' /\ EndsIn(frames, "failed") /\ EndsIn(evms, "stopped")
    BY <1>0, <1>1, <1>2, <2>1, <2>2, <2>3, HaltsTogether
  <2> QED  BY <2>4 DEF Parts, ListedDifference
<1> QED  BY <1>3, <1>4, <1>5, <1>6, <1>7, <1>8 DEF BothHalt, Lockstep

LEMMA BeginForm ==
  ASSUME TypeOK, RefOK, TablesOK, NEW a \in Addrs, BothBegin(a)
  PROVE  BothStart(a)
<1>1. frames = <<>> /\ evms = <<>> /\ Entered(a) /\ locals' = <<NewLocals>> /\ state' = state
  BY DEF BothBegin, EthCall, Idle, Ref!ProcessMessage
<1> DEFINE f == Fresh(a, "TOP", 0, FALSE, IF Installed[a] = NoCode THEN Empty ELSE Installed[a], 0)
           e == Ref!NewEvm("TOP", a, Sender, Sent, FALSE, state.code[a], state)
<1>2. frames' = <<f>> /\ evms' = <<e>>
  BY DEF BothBegin, EthCall, Ref!ProcessMessage
<1>3. New(f, "TOP") /\ RefNew(e, "TOP") /\ e.target = a /\ e.snap = state
  BY DEF Fresh, Ref!NewEvm, New, RefNew
<1> HIDE DEF f, e
<1> QED  BY <1>1, <1>2, <1>3 DEF BothStart, Idle

(***************************************************************************)
(* An account that no creation of the transaction made has the installed   *)
(* code in the reference, in its state and in every snapshot.              *)
(***************************************************************************)
CodesOK(st) ==
  /\ st.doomed \subseteq st.created
  /\ \A a \in Addrs \ st.created : st.code[a] = IF Installed[a] = NoCode THEN Empty ELSE Installed[a]

LEMMA SameDepth ==
  ASSUME TypeOK, RefOK, SameShape, ~Idle
  PROVE  TooDeep <=> Ref!TooDeep
<1>1. Len(frames) \in Nat \ {0} /\ Len(evms) = Len(frames) /\ Len(frames) \in 1 .. Len(frames)
  BY TopFacts, SameLength
<1>2. Top.depth = Len(frames) - 1
  BY <1>1 DEF TypeOK, FramesOK, Top
<1> QED  BY <1>1, <1>2, DepthAssumption DEF TooDeep, Ref!TooDeep

\* What evm.lua makes of an opcode of the CALL family.
LuaToldCall(to) ==
  \/ TooDeep /\ Edited(frames, frames', [Top EXCEPT !.rdata = Empty, !.flag = "0"])
  \/ /\ ~TooDeep /\ LookupCode(to) = NoCode
     /\ Edited(frames, frames', [Top EXCEPT !.rdata = Empty, !.flag = "1"])

LEMMA LuaCallForm ==
  ASSUME TypeOK, TypeOK', RefOK, SameShape, NEW kind \in CallKinds, NEW to \in Addrs,
         CallTooDeep \/ CallNoCode(to) \/ Call(kind, to)
  PROVE  /\ BothRunning
         /\ \/ LuaToldCall(to)
            \/ /\ ~TooDeep /\ LookupCode(to) # NoCode
               /\ \E f : New(f, kind) /\ f.code = LookupCode(to) /\ Grown(frames, frames', Top, f)
<1>1. CASE CallTooDeep \/ CallNoCode(to)
  <2>1. ~Idle /\ Top.status = "run" /\ LuaToldCall(to)
    BY <1>1, LuaFlagForm DEF LuaToldCall
  <2> QED  BY <2>1, SameLength DEF BothRunning
<1>2. CASE Call(kind, to)
  <2>1. /\ ~Idle /\ Top.status = "run" /\ ~TooDeep /\ LookupCode(to) # NoCode
        /\ \E f : New(f, kind) /\ f.code = LookupCode(to) /\ Grown(frames, frames', Top, f)
    BY <1>2, LuaOpenForm
  <2> QED  BY <2>1, SameLength DEF BothRunning
<1> QED  BY <1>1, <1>2

\* Neither side opened a frame, and both told the opener the same.
LEMMA ToldTogether ==
  ASSUME TypeOK, TypeOK', RefOK, RefOK', TablesOK, SameShape, BothRunning,
         NEW k \in {"call", "create"}, Opening(k), NEW fl \in Flags,
         NEW f \in {[Top EXCEPT !.rdata = Empty, !.flag = fl], [Top EXCEPT !.flag = fl]},
         k = "call" => f.rdata = Empty,
         Edited(frames, frames', f), RefPushes(fl),
         CodesKept(state, state'), TablesKept(state, state')
  PROVE  \E e : BothTold(f, e, k)
<1> DEFINE e == [Ref!Top EXCEPT !.rdata = Empty, !.flag = fl]
<1>1. Top \in Frame /\ Ref!Top \in RefFrames /\ Ref!Top.status = "run"
  BY TopFacts, RefTopFacts, SameLength DEF BothRunning
<1>2. f.kind = Top.kind /\ f.status = "run" /\ f.flag = fl
  BY <1>1 DEF Frame, BothRunning
<1>3. /\ e.kind = Ref!Top.kind /\ e.target = Ref!Top.target /\ e.snap = Ref!Top.snap
      /\ e.status = "run" /\ e.flag = fl /\ e.rdata = Empty /\ e.output = Ref!Top.output
  BY <1>1 DEF RefFrames
<1>4. Edited(evms, evms', e)
  BY DEF RefPushes
<1>5. Len(evms) \in Nat /\ Len(evms') = Len(evms) /\ Len(frames') = Len(frames)
  BY <1>4, TopFacts, SameLength DEF Edited, BothRunning
<1>6. UNCHANGED entries
  BY <1>5 DEF Opening
<1>7. Edited(locals, locals', [TopLocals EXCEPT !.last = k])
  BY <1>5, OpeningTables DEF BothRunning
<1> HIDE DEF e
<1>8. BothTold(f, e, k)
  BY <1>2, <1>3, <1>4, <1>6, <1>7 DEF BothTold, BothEdited
<1> QED  BY <1>8

\* Both sides opened a frame.
LEMMA InsideTogether ==
  ASSUME TypeOK, TypeOK', RefOK, RefOK', TablesOK, SameShape, BothRunning,
         NEW kind \in CallKinds \cup CreateKinds, Opening(Last(kind)),
         NEW f, NEW e, New(f, kind), RefNew(e, kind),
         Grown(frames, frames', Top, f), RefOpens(e), Begins(e, kind)
  PROVE  BothInside(f, e, kind)
<1>1. Last(kind) \in {"call", "create"}
  BY DEF Last
<1>2. Grown(evms, evms', [Ref!Top EXCEPT !.rdata = Empty], e)
  BY DEF RefOpens
<1>3. /\ Len(evms) \in Nat /\ Len(evms') = Len(evms) + 1 /\ Len(frames') = Len(frames) + 1
      /\ evms'[Len(evms')] = e
  BY <1>2, TopFacts, SameLength DEF Grown, BothRunning
<1>4. Ref!Top' = e
  BY <1>3 DEF Ref!Top
<1>5. Entered(Ref!Top.target')
  BY <1>3 DEF Opening
<1>6. e \in RefFrames
  <2>1. Len(evms') \in 1 .. Len(evms') /\ evms' \in Seq(RefFrames)
    BY <1>3 DEF RefOK
  <2> QED  BY <1>3, <2>1, ElementOfSeq
<1>7. Entered(e.target) /\ e.target \in Addrs
  BY <1>4, <1>5, <1>6 DEF RefFrames
<1>8. Grown(locals, locals', [TopLocals EXCEPT !.last = Last(kind)], NewLocals)
  BY <1>1, <1>3, OpeningTables DEF BothRunning
<1> QED  BY <1>2, <1>7, <1>8 DEF BothInside

LEMMA ToldForm ==
  ASSUME TypeOK, ~Idle, NEW to, LuaToldCall(to)
  PROVE  \E f : /\ Edited(frames, frames', f) /\ f.status = Top.status
                /\ ~TooDeep => f.flag = "1"
<1> DEFINE f0 == [Top EXCEPT !.rdata = Empty, !.flag = "0"]
           f1 == [Top EXCEPT !.rdata = Empty, !.flag = "1"]
<1>1. f0.status = Top.status /\ f1.status = Top.status /\ f1.flag = "1"
  BY TopFacts DEF Frame
<1>2. (TooDeep /\ Edited(frames, frames', f0)) \/ Edited(frames, frames', f1)
  BY DEF LuaToldCall
<1> HIDE DEF f0, f1
<1> QED  BY <1>1, <1>2

LEMMA CallParts ==
  ASSUME TypeOK, RefOK, TypeOK', RefOK', TablesOK, SameShape, CodesOK(state),
         NEW kind \in CallKinds, NEW to \in Callees, NEW v \in Values \cup {0},
         BothCall(kind, to, v)
  PROVE  Lockstep \/ Parts
<1>0. /\ to \in Addrs /\ v \in Nat /\ {"0", "1"} \subseteq Flags /\ Opening("call")
      /\ to \notin state.created /\ kind \notin CreateKinds /\ "call" \in {"call", "create"}
  <2>1. to \in Addrs /\ v \in Nat
    BY AgreementAssumption
  <2>2. Opening("call") /\ to \notin state.created
    BY DEF BothCall
  <2>3. {"0", "1"} \subseteq Flags /\ kind \notin CreateKinds
    BY DEF Flags, CallKinds, CreateKinds
  <2> QED  BY <2>1, <2>2, <2>3
<1>1. /\ BothRunning
      /\ \/ LuaToldCall(to)
         \/ /\ ~TooDeep /\ LookupCode(to) # NoCode
            /\ \E f : New(f, kind) /\ f.code = LookupCode(to) /\ Grown(frames, frames', Top, f)
  BY <1>0, LuaCallForm DEF BothCall
<1>2. \/ RefRejects
      \/ RefPushes("0") /\ Ref!Refused(v) /\ state' = state
      \/ /\ RefPushes("1") /\ ~Ref!Refused(v) /\ state.code[to] = Empty
         /\ MovedOnly(state, state')
      \/ /\ ~Ref!Refused(v) /\ state.code[to] # Empty /\ MovedOnly(state, state')
         /\ \E h : /\ RefOpens(h) /\ RefNew(h, kind) /\ h.snap = state
                   /\ h.target = Ref!Target(kind, to)
  BY <1>0, RefCallForm DEF BothCall
<1>3. /\ Top \in Frame /\ Ref!Top \in RefFrames /\ (TooDeep <=> Ref!TooDeep) /\ ~Idle
      /\ Len(frames) \in Nat \ {0} /\ Len(evms) = Len(frames)
  BY <1>1, TopFacts, RefTopFacts, SameDepth, SameLength DEF BothRunning
<1>4. CASE RefRejects
  <2>1. CASE LuaToldCall(to)
    <3>1. PICK f : Edited(frames, frames', f) /\ f.status # "failed"
      BY <1>1, <1>3, <2>1, ToldForm DEF BothRunning
    <3> QED  BY <1>3, <1>4, <3>1, RejectsPart
  <2>2. CASE ~LuaToldCall(to)
    BY <1>1, <1>3, <1>4, <2>2, RejectsPart DEF Grown
  <2> QED  BY <2>1, <2>2
<1>5. ASSUME RefPushes("0"), Ref!Refused(v), state' = state
      PROVE  Lockstep \/ Parts
  <2>1. CASE TooDeep
    <3> DEFINE f == [Top EXCEPT !.rdata = Empty, !.flag = "0"]
    <3>1. Edited(frames, frames', f) /\ f.rdata = Empty
      BY <1>1, <1>3, <2>1 DEF LuaToldCall, Frame
    <3>2. CodesKept(state, state') /\ TablesKept(state, state')
      BY <1>5, KeptElsewhere
    <3>3. \E e : BothTold(f, e, "call")
      BY <1>0, <1>1, <1>5, <3>1, <3>2, ToldTogether
    <3> QED  BY <3>3 DEF Lockstep
  <2>2. CASE ~TooDeep
    <3> DEFINE e == [Ref!Top EXCEPT !.rdata = Empty, !.flag = "0"]
    <3>1. Edited(evms, evms', e) /\ e.flag = "0"
      BY <1>3, <1>5 DEF RefPushes, RefFrames
    <3> HIDE DEF e
    <3>2. Ref!Top'.flag = "0" /\ Len(evms') = Len(evms)
      BY <1>3, <3>1, TopsAfter
    <3>3. Ref!Balance(Ref!Top.target) < v /\ v \in Values
      <4>1. state.balance[Ref!Top.target] < v /\ state.balance[Ref!Top.target] \in Nat
        BY <1>3, <1>5, <2>2 DEF Ref!Refused, RefOK, RefStates, RefFrames
      <4>2. v # 0
        BY <4>1
      <4> QED  BY <4>1, <4>2 DEF Ref!Balance
    <3>4. ~SameShape'
      <4>1. CASE LuaToldCall(to)
        <5>1. PICK f : Edited(frames, frames', f) /\ f.flag = "1"
          BY <1>3, <2>2, <4>1, ToldForm
        <5> QED  BY <1>3, <3>1, <5>1, TopsAfter
      <4>2. CASE ~LuaToldCall(to)
        BY <1>1, <1>3, <3>2, <4>2, TopsAfter DEF Grown
      <4> QED  BY <4>1, <4>2
    <3> QED  BY <1>3, <2>2, <3>2, <3>3, <3>4 DEF Parts, ListedDifference
  <2> QED  BY <2>1, <2>2
<1>6. ~Ref!Refused(v) => ~TooDeep
  BY <1>3 DEF Ref!Refused
<1>7. MovedOnly(state, state') => CodesKept(state, state') /\ TablesKept(state, state')
  BY KeptElsewhere DEF MovedOnly
<1>8. state.code[to] = IF Installed[to] = NoCode THEN Empty ELSE Installed[to]
  BY <1>0 DEF CodesOK
<1>9. ASSUME RefPushes("1"), ~Ref!Refused(v), state.code[to] = Empty, MovedOnly(state, state')
      PROVE  Lockstep \/ Parts
  <2>1. CASE LuaToldCall(to)
    <3> DEFINE f == [Top EXCEPT !.rdata = Empty, !.flag = "1"]
    <3>1. Edited(frames, frames', f) /\ f.rdata = Empty
      BY <1>3, <1>6, <1>9, <2>1 DEF LuaToldCall, Frame
    <3>2. \E e : BothTold(f, e, "call")
      BY <1>0, <1>1, <1>7, <1>9, <3>1, ToldTogether
    <3> QED  BY <3>2 DEF Lockstep
  <2>2. CASE ~LuaToldCall(to)
    <3>1. PICK f : /\ New(f, kind) /\ f.code = LookupCode(to) /\ Grown(frames, frames', Top, f)
                   /\ LookupCode(to) # NoCode
      BY <1>1, <2>2
    <3>2. Len(frames') = Len(frames) + 1 /\ Top' = f
      BY <3>1 DEF Grown, Top
    <3> DEFINE e == [Ref!Top EXCEPT !.rdata = Empty, !.flag = "1"]
    <3>3. Edited(evms, evms', e) /\ e.flag = "1"
      BY <1>3, <1>9 DEF RefPushes, RefFrames
    <3> HIDE DEF e
    <3>4. Ref!Top'.flag = "1" /\ Len(evms') = Len(evms)
      BY <1>3, <3>3, TopsAfter
    <3>5. ~SameShape'
      BY <1>3, <3>2, <3>4, TopsAfter
    <3>6. Opened(frames) /\ Top'.kind \in CallKinds
      BY <1>3, <3>1, <3>2 DEF Opened, New
    <3>7. Top'.code = Empty \/ \E a \in Addrs : state.code[a] = Empty /\ code[a] # NoCode
      <4>1. CASE Installed[to] = NoCode
        BY <1>0, <1>9, <3>1, <4>1 DEF LookupCode
      <4>2. CASE Installed[to] # NoCode
        BY <1>8, <1>9, <3>1, <3>2, <4>2 DEF LookupCode
      <4> QED  BY <4>1, <4>2
    <3> QED  BY <3>4, <3>5, <3>6, <3>7 DEF Parts, ListedDifference
  <2> QED  BY <2>1, <2>2
<1>10. ASSUME ~Ref!Refused(v), state.code[to] # Empty, MovedOnly(state, state'),
              NEW h, RefOpens(h), RefNew(h, kind), h.snap = state
       PROVE  Lockstep \/ Parts
  <2>1. ~LuaToldCall(to)
    BY <1>6, <1>8, <1>10 DEF LuaToldCall, LookupCode
  <2>2. PICK f : New(f, kind) /\ Grown(frames, frames', Top, f)
    BY <1>1, <2>1
  <2>3. Begins(h, kind)
    <3>1. /\ state'.code = state.code /\ state'.doomed = state.doomed
          /\ state'.created = state.created
      BY <1>10 DEF MovedOnly, RefOK, RefStates
    <3> QED  BY <1>0, <1>7, <1>10, <3>1 DEF Begins, TablesKept, CodesKept
  <2>4. Opening(Last(kind)) /\ kind \in CallKinds \cup CreateKinds
    BY <1>0 DEF Last
  <2>5. BothInside(f, h, kind)
    BY <1>1, <1>10, <2>2, <2>3, <2>4, InsideTogether
  <2> QED  BY <2>5 DEF Lockstep
<1> QED  BY <1>2, <1>4, <1>5, <1>9, <1>10

LEMMA CreateParts ==
  ASSUME TypeOK, RefOK, TypeOK', RefOK', TablesOK, SameShape,
         NEW kind \in CreateKinds, NEW v \in Values, NEW init \in Data,
         NEW salt \in Salts \cup {0}, BothCreate(kind, v, init, salt)
  PROVE  Lockstep \/ Parts
<1>0. /\ v \in Nat /\ "0" \in Flags /\ Opening("create") /\ "create" \in {"call", "create"}
      /\ kind \notin CallKinds
  BY AgreementAssumption DEF Flags, BothCreate, CallKinds, CreateKinds
<1>1. /\ ~Idle /\ Top.status = "run"
      /\ \/ TooDeep /\ Edited(frames, frames', [Top EXCEPT !.flag = "0"])
         \/ ~TooDeep /\ \E f : New(f, kind) /\ Grown(frames, frames', Top, f)
  <2>1. CASE TooDeep /\ CreateFails
    BY <2>1, LuaFlagForm
  <2>2. CASE Create(kind, init, salt)
    BY <2>2, LuaOpenForm
  <2> QED  BY <2>1, <2>2 DEF BothCreate
<1>2. Ref!Create(kind, v, init, salt)
  BY DEF BothCreate
<1>3. \/ RefRejects
      \/ RefPushes("0") /\ Ref!Refused(v) /\ state' = state
      \/ /\ RefPushes("0") /\ ~Ref!Refused(v)
         /\ CountedOnly(state, state') /\ state'.nonce # state.nonce
      \/ /\ ~Ref!Refused(v)
         /\ \E h : /\ RefOpens(h) /\ RefNew(h, kind) /\ CountedOnly(state, h.snap)
                   /\ MadeOnly(state, state', h.target)
  BY <1>0, <1>2, RefCreateForm
<1>4. /\ Top \in Frame /\ Ref!Top \in RefFrames /\ (TooDeep <=> Ref!TooDeep) /\ BothRunning
      /\ Len(frames) \in Nat \ {0} /\ Len(evms) = Len(frames)
  BY <1>1, TopFacts, RefTopFacts, SameDepth, SameLength DEF BothRunning
<1>5. CASE RefRejects
  <2>1. CASE TooDeep
    <3> DEFINE f == [Top EXCEPT !.flag = "0"]
    <3>1. Edited(frames, frames', f) /\ f.status # "failed"
      BY <1>1, <1>4, <2>1 DEF Frame
    <3> HIDE DEF f
    <3> QED  BY <1>1, <1>5, <3>1, RejectsPart
  <2>2. CASE ~TooDeep
    BY <1>1, <1>5, <2>2, RejectsPart DEF Grown
  <2> QED  BY <2>1, <2>2
<1>6. CASE ~RefRejects /\ TooDeep
  <2> DEFINE f == [Top EXCEPT !.flag = "0"]
  <2>1. RefPushes("0") /\ state' = state
    BY <1>3, <1>4, <1>6 DEF Ref!Refused
  <2>2. CodesKept(state, state') /\ TablesKept(state, state')
    BY <2>1, KeptElsewhere
  <2>3. Edited(frames, frames', f)
    BY <1>1, <1>6
  <2>4. \E e : BothTold(f, e, "create")
    BY <1>0, <1>4, <2>1, <2>2, <2>3, ToldTogether
  <2> QED  BY <2>4 DEF Lockstep
<1>7. CASE ~RefRejects /\ ~TooDeep
  <2>1. PICK f : New(f, kind) /\ Grown(frames, frames', Top, f)
    BY <1>1, <1>7
  <2>2. Len(frames') = Len(frames) + 1 /\ Top' = f /\ Opened(frames) /\ Top'.kind \in CreateKinds
    BY <1>4, <2>1 DEF Grown, Top, Opened, New
  <2>3. ASSUME RefPushes("0")
        PROVE  Ref!Top'.flag = "0" /\ ~SameShape' /\ ~Opened(evms)
    <3> DEFINE e == [Ref!Top EXCEPT !.rdata = Empty, !.flag = "0"]
    <3>1. Edited(evms, evms', e) /\ e.flag = "0"
      BY <1>4, <2>3 DEF RefPushes, RefFrames
    <3> HIDE DEF e
    <3>2. Ref!Top'.flag = "0" /\ Len(evms') = Len(evms)
      BY <1>1, <3>1, TopsAfter
    <3> QED  BY <1>1, <1>4, <2>2, <3>2, TopsAfter DEF Opened
  <2>4. ASSUME RefPushes("0"), Ref!Refused(v)
        PROVE  Parts
    <3>1. Ref!Balance(Ref!Top.target) < v
      BY <1>4, <1>7, <2>4 DEF Ref!Refused, Ref!Balance
    <3> QED  BY <1>4, <1>7, <2>3, <2>4, <3>1 DEF Parts, ListedDifference
  <2>5. ASSUME RefPushes("0"), state'.nonce # state.nonce
        PROVE  Parts
    BY <2>2, <2>3, <2>5 DEF Parts, ListedDifference
  <2>6. ASSUME NEW h, RefOpens(h), RefNew(h, kind), CountedOnly(state, h.snap),
               MadeOnly(state, state', h.target)
        PROVE  Lockstep
    <3>1. Begins(h, kind)
      BY <1>0, <2>6 DEF Begins, CountedOnly, MadeOnly, TablesKept, CodesKept
    <3>2. Opening(Last(kind)) /\ kind \in CallKinds \cup CreateKinds
      BY <1>0 DEF Last
    <3>3. BothInside(f, h, kind)
      BY <1>4, <2>1, <2>6, <3>1, <3>2, InsideTogether
    <3> QED  BY <3>3 DEF Lockstep
  <2> QED  BY <1>3, <1>7, <2>4, <2>5, <2>6
<1> QED  BY <1>5, <1>6, <1>7

\* Every step of the comparison.
LEMMA StepsInStep ==
  ASSUME TypeOK, RefOK, TablesOK, SameShape => CodesOK(state), [BothNext]_bothVars
  PROVE  UNCHANGED bothVars \/ (SameShape /\ (Lockstep \/ Parts))
<1>0. Callees \subseteq Addrs
  BY AgreementAssumption
<1>1. TypeOK' /\ RefOK'
  BY BothNextIsNext, NextTypeOK, BothSteps
<1>2. CASE Over \/ UNCHANGED bothVars
  BY <1>2 DEF Over
<1>3. CASE ~(Over \/ UNCHANGED bothVars)
  <2>1. SameShape
    BY <1>3 DEF BothNext, BothStep
  <2>2. ASSUME NEW a \in Callees, BothBegin(a)
        PROVE  Lockstep
    BY <1>0, <2>2, BeginForm DEF Lockstep
  <2>3. ASSUME NEW kind \in CallKinds, NEW to \in Callees, NEW v \in Values \cup {0},
               BothCall(kind, to, v)
        PROVE  Lockstep \/ Parts
    BY <1>1, <2>1, <2>3, CallParts
  <2>4. ASSUME NEW kind \in CreateKinds, NEW v \in Values, NEW init \in Data,
               NEW salt \in Salts \cup {0}, BothCreate(kind, v, init, salt)
        PROVE  Lockstep \/ Parts
    BY <1>1, <2>1, <2>4, CreateParts
  <2>5. CASE BothUnwind
    BY <2>1, <2>5, UnwindForm DEF Lockstep
  <2>6. CASE \/ \E s \in Slots, w \in Words : BothSStore(s, w) \/ BothTStore(s, w)
             \/ \E d \in Data : BothLog(d)
    BY <2>1, <2>6, WriteParts
  <2>7. CASE \E b \in Addrs : BothSelfDestruct(b)
    BY <2>1, <2>7, SelfDestructParts
  <2>8. CASE BothHalt
    BY <2>1, <2>8, HaltParts
  <2>9. /\ {"CALL", "CALLCODE", "DELEGATECALL", "STATICCALL"} = CallKinds
        /\ {"CREATE", "CREATE2"} = CreateKinds
    BY DEF CallKinds, CreateKinds
  <2> QED  BY <1>3, <2>1, <2>2, <2>3, <2>4, <2>5, <2>6, <2>7, <2>8, <2>9 DEF BothNext, BothStep
<1> QED  BY <1>2, <1>3

------------------------------------------------------------------------------
(***************************************************************************)
(* Both stacks under a step in step: their shape, and what the reference's *)
(* frames keep.                                                            *)
(***************************************************************************)
Ids(e, g) == e.kind = g.kind /\ e.target = g.target /\ e.snap = g.snap

\* The frames of the reference that a step leaves.
IdsKept(n) == \A i \in 1 .. n : Ids(evms'[i], evms[i])

LEMMA EditedBoth ==
  ASSUME TypeOK, RefOK, SameShape, ~Idle, NEW f, NEW e,
         Edited(frames, frames', f), Edited(evms, evms', e), SameFrame(f, e), Ids(e, Ref!Top)
  PROVE  SameShape' /\ Len(evms') = Len(evms) /\ IdsKept(Len(evms))
<1>1. Len(frames) \in Nat \ {0} /\ Len(evms) = Len(frames)
  BY TopFacts, SameLength
<1>2. /\ Len(frames') = Len(frames) /\ Len(evms') = Len(evms)
      /\ frames'[Len(frames)] = f /\ evms'[Len(frames)] = e
      /\ \A i \in 1 .. Len(frames) - 1 : frames'[i] = frames[i] /\ evms'[i] = evms[i]
  BY <1>1 DEF Edited
<1>3. \A i \in 1 .. Len(frames) : i = Len(frames) \/ i \in 1 .. Len(frames) - 1
  BY <1>1
<1>4. \A i \in 1 .. Len(frames) : SameFrame(frames[i], evms[i])
  BY DEF SameShape
<1>5. \A i \in 1 .. Len(frames) : SameFrame(frames'[i], evms'[i])
  BY <1>2, <1>3, <1>4
<1>6. \A i \in 1 .. Len(frames) : Ids(evms'[i], evms[i])
  BY <1>1, <1>2, <1>3 DEF Ids, Ref!Top
<1> QED  BY <1>1, <1>2, <1>5, <1>6 DEF SameShape, SameFrame, IdsKept

LEMMA GrownBoth ==
  ASSUME TypeOK, RefOK, SameShape, ~Idle, NEW x, NEW f, NEW e, SameFrame(Top, x), Ids(x, Ref!Top),
         Grown(frames, frames', Top, f), Grown(evms, evms', x, e), SameFrame(f, e)
  PROVE  /\ SameShape' /\ Len(evms') = Len(evms) + 1
         /\ IdsKept(Len(evms)) /\ evms'[Len(evms) + 1] = e
<1>1. Len(frames) \in Nat \ {0} /\ Len(evms) = Len(frames)
  BY TopFacts, SameLength
<1> DEFINE n == Len(frames)
<1>2. /\ Len(frames') = n + 1 /\ Len(evms') = n + 1
      /\ frames'[n] = Top /\ evms'[n] = x /\ frames'[n + 1] = f /\ evms'[n + 1] = e
      /\ \A i \in 1 .. n - 1 : frames'[i] = frames[i] /\ evms'[i] = evms[i]
  BY <1>1 DEF Grown
<1>3. \A i \in 1 .. n + 1 : i = n + 1 \/ i = n \/ i \in 1 .. n - 1
  BY <1>1
<1>4. \A i \in 1 .. n - 1 : SameFrame(frames[i], evms[i])
  BY <1>1 DEF SameShape
<1>5. \A i \in 1 .. n + 1 : SameFrame(frames'[i], evms'[i])
  BY <1>2, <1>3, <1>4
<1>6. \A i \in 1 .. n : Ids(evms'[i], evms[i])
  BY <1>1, <1>2, <1>3 DEF Ids, Ref!Top
<1> QED  BY <1>1, <1>2, <1>5, <1>6 DEF SameShape, SameFrame, IdsKept

LEMMA ShrunkBoth ==
  ASSUME TypeOK, RefOK, SameShape, ~Idle, NEW f, NEW e,
         Shrunk(frames, frames', f), Shrunk(evms, evms', e), SameFrame(f, e), Ids(e, Ref!Below)
  PROVE  SameShape' /\ Len(evms') = Len(evms) - 1 /\ IdsKept(Len(evms) - 1) /\ Len(evms) >= 2
<1>1. Len(frames) \in Nat \ {0} /\ Len(evms) = Len(frames) /\ Len(evms) >= 2
  BY TopFacts, SameLength DEF Shrunk
<1> DEFINE n == Len(frames) - 1
<1>2. /\ Len(frames') = n /\ Len(evms') = n /\ n \in Nat
      /\ frames'[n] = f /\ evms'[n] = e
      /\ \A i \in 1 .. n - 1 : frames'[i] = frames[i] /\ evms'[i] = evms[i]
  <2>1. n \in Nat /\ n - 1 = Len(frames) - 2 /\ n - 1 = Len(evms) - 2 /\ n = Len(evms) - 1
    BY <1>1
  <2>2. Len(frames') = n /\ frames'[n] = f /\ \A i \in 1 .. n - 1 : frames'[i] = frames[i]
    BY <2>1 DEF Shrunk
  <2> HIDE DEF n
  <2>3. Len(evms') = n /\ evms'[n] = e /\ \A i \in 1 .. n - 1 : evms'[i] = evms[i]
    BY <2>1 DEF Shrunk
  <2> QED  BY <2>1, <2>2, <2>3
<1>3. \A i \in 1 .. n : i = n \/ i \in 1 .. n - 1
  BY <1>1
<1>4. \A i \in 1 .. n : SameFrame(frames[i], evms[i])
  BY <1>1 DEF SameShape
<1>5. \A i \in 1 .. n : SameFrame(frames'[i], evms'[i])
  BY <1>2, <1>3, <1>4
<1>6. \A i \in 1 .. n : Ids(evms'[i], evms[i])
  BY <1>1, <1>2, <1>3 DEF Ids, Ref!Below
<1> QED  BY <1>1, <1>2, <1>5, <1>6 DEF SameShape, SameFrame, IdsKept

\* The forms of Lockstep by what they do to the stacks.
FramesKept == SameShape' /\ Len(evms') = Len(evms) /\ IdsKept(Len(evms))
FrameOpened(e) == /\ SameShape' /\ Len(evms') = Len(evms) + 1
            /\ IdsKept(Len(evms)) /\ evms'[Len(evms) + 1] = e
FrameClosed == SameShape' /\ Len(evms') = Len(evms) - 1 /\ IdsKept(Len(evms) - 1) /\ Len(evms) >= 2

LEMMA LockstepShapes ==
  ASSUME TypeOK, RefOK, TablesOK, SameShape
  PROVE  /\ Wrote => FramesKept
         /\ \A f, e : BothHalted(f, e) => FramesKept
         /\ \A f, e, k : BothTold(f, e, k) => FramesKept
         /\ \A f, e, kind : BothInside(f, e, kind) => FrameOpened(e)
         /\ \A f, e : Closed(f, e) => FrameClosed
         /\ \A a : BothStart(a) => SameShape' /\ Len(evms') = 1
         /\ Ended => SameShape' /\ Len(evms') = 0
<1>0. Len(frames) \in Nat /\ Len(evms) = Len(frames)
  BY SameLength
<1>1. ASSUME ~Idle
      PROVE  SameFrame(Top, Ref!Top) /\ Top \in Frame /\ Ref!Top \in RefFrames
  <2>1. Len(frames) \in 1 .. Len(frames)
    BY <1>1, TopFacts
  <2> QED  BY <1>0, <1>1, <2>1, TopFacts, RefTopFacts, SameLength DEF SameShape, Top, Ref!Top
<1>2. Wrote => FramesKept
  BY <1>1, EditedBoth DEF Wrote, BothRunning, Ids, FramesKept
<1>3. ASSUME NEW f, NEW e, BothHalted(f, e)
      PROVE  FramesKept
  BY <1>1, <1>3, EditedBoth DEF BothHalted, BothEdited, BothRunning, SameFrame, Ids, FramesKept
<1>4. ASSUME NEW f, NEW e, NEW k, BothTold(f, e, k)
      PROVE  FramesKept
  BY <1>1, <1>4, EditedBoth DEF BothTold, BothEdited, BothRunning, SameFrame, Ids, FramesKept
<1>5. ASSUME NEW f, NEW e, NEW kind, BothInside(f, e, kind)
      PROVE  FrameOpened(e)
  <2> DEFINE x == [Ref!Top EXCEPT !.rdata = Empty]
  <2>1. SameFrame(Top, x) /\ Ids(x, Ref!Top)
    BY <1>1, <1>5 DEF BothInside, BothRunning, SameFrame, Ids, RefFrames
  <2>2. SameFrame(f, e)
    BY <1>5 DEF BothInside, New, RefNew, SameFrame
  <2>3. Grown(evms, evms', x, e) /\ Grown(frames, frames', Top, f) /\ ~Idle
    BY <1>5 DEF BothInside, BothRunning
  <2> HIDE DEF x
  <2> QED  BY <2>1, <2>2, <2>3, GrownBoth DEF FrameOpened
<1>6. ASSUME NEW f, NEW e, Closed(f, e)
      PROVE  FrameClosed
  <2>1. Len(frames) >= 2
    BY <1>6 DEF Closed, Shrunk
  <2>2. SameFrame(Below, Ref!Below)
    <3>1. Len(frames) - 1 \in 1 .. Len(frames)
      BY <1>0, <2>1
    <3> QED  BY <1>0, <3>1 DEF SameShape, Below, Ref!Below
  <2>3. SameFrame(f, e) /\ Ids(e, Ref!Below)
    BY <1>6, <2>2 DEF Closed, SameFrame, Ids
  <2> QED  BY <1>6, <2>3, ShrunkBoth DEF Closed, FrameClosed
<1>7. ASSUME NEW a, BothStart(a)
      PROVE  SameShape' /\ Len(evms') = 1
  <2>1. PICK f, e : frames' = <<f>> /\ evms' = <<e>> /\ New(f, "TOP") /\ RefNew(e, "TOP")
    BY <1>7 DEF BothStart
  <2> QED  BY <2>1 DEF SameShape, SameFrame, New, RefNew
<1>8. Ended => SameShape' /\ Len(evms') = 0
  BY EmptySeq DEF Ended, SameShape
<1> QED  BY <1>2, <1>3, <1>4, <1>5, <1>6, <1>7, <1>8

------------------------------------------------------------------------------
(***************************************************************************)
(* Where the trees part.  A call finds the same code on both sides because *)
(* only creations change code in the reference, because an account is      *)
(* among the created ones before it has any, and because no rollback       *)
(* forgets an account whose init code still runs.                          *)
(***************************************************************************)
CodesInv ==
  SameShape =>
    /\ CodesOK(state)
    /\ \A i \in 1 .. Len(evms) :
         /\ CodesOK(evms[i].snap)
         /\ evms[i].kind \in CreateKinds =>
              /\ evms[i].target \in state.created
              /\ \A j \in i + 1 .. Len(evms) : evms[i].target \in evms[j].snap.created

LEMMA CodesKeptOK ==
  ASSUME NEW st, NEW new, CodesOK(st), CodesKept(st, new)
  PROVE  CodesOK(new)
BY DEF CodesOK, CodesKept

\* Steps that open no frame: the state's codes stay in order, and nothing is forgotten that
\* a creation in progress needs.
LEMMA CodesWithNoneOpened ==
  ASSUME SameShape, CodesInv, NEW n \in Nat, n <= Len(evms), Len(evms) \in Nat,
         Len(evms') = n, IdsKept(n), CodesOK(state'),
         \A i \in 1 .. n : evms[i].kind \in CreateKinds => evms[i].target \in state'.created
  PROVE  CodesInv'
<1> SUFFICES ASSUME NEW i \in 1 .. n
             PROVE  /\ CodesOK(evms'[i].snap)
                    /\ evms'[i].kind \in CreateKinds =>
                         /\ evms'[i].target \in state'.created
                         /\ \A j \in i + 1 .. n : evms'[i].target \in evms'[j].snap.created
  BY DEF CodesInv
<1>1. i \in 1 .. Len(evms) /\ \A j \in i + 1 .. n : j \in i + 1 .. Len(evms) /\ j \in 1 .. n
  OBVIOUS
<1>2. Ids(evms'[i], evms[i])
  BY DEF IdsKept
<1>3. \A j \in i + 1 .. n : evms'[j].snap = evms[j].snap
  BY <1>1 DEF IdsKept, Ids
<1> QED  BY <1>1, <1>2, <1>3 DEF CodesInv, Ids

LEMMA CodesStep ==
  ASSUME TypeOK, RefOK, TablesOK, CodesInv, [BothNext]_bothVars
  PROVE  CodesInv'
<1>1. CASE UNCHANGED bothVars
  BY <1>1 DEF bothVars, vars, refVars, CodesInv, SameShape, SameFrame, CodesOK
<1>2. CASE ~UNCHANGED bothVars
  <2>0. SameShape /\ CodesOK(state) /\ (Lockstep \/ Parts)
    BY <1>2, StepsInStep DEF CodesInv
  <2>1. /\ Len(evms) \in Nat
        /\ \A i \in 1 .. Len(evms) :
             /\ CodesOK(evms[i].snap)
             /\ evms[i].kind \in CreateKinds =>
                  /\ evms[i].target \in state.created
                  /\ \A j \in i + 1 .. Len(evms) : evms[i].target \in evms[j].snap.created
    BY <2>0, SameLength DEF CodesInv
  <2>2. CASE Parts
    BY <2>2 DEF Parts, CodesInv
  <2>3. ASSUME FramesKept, CodesKept(state, state')
        PROVE  CodesInv'
    <3>1. CodesOK(state')
      BY <2>0, <2>3, CodesKeptOK
    <3> QED  BY <2>0, <2>1, <2>3, <3>1, CodesWithNoneOpened DEF FramesKept, CodesKept
  <2>4. ASSUME NEW f, NEW e, NEW kind, BothInside(f, e, kind)
        PROVE  CodesInv'
    <3>1. /\ Len(evms') = Len(evms) + 1 /\ IdsKept(Len(evms)) /\ evms'[Len(evms) + 1] = e
      BY <2>0, <2>4, LockstepShapes DEF FrameOpened
    <3>2. /\ CodesOK(e.snap) /\ e.snap.created = state.created
          /\ e.kind = kind /\ kind \in CallKinds \cup CreateKinds
          /\ state'.code = state.code /\ state'.doomed = state.doomed
          /\ kind \in CallKinds => state'.created = state.created
          /\ kind \in CreateKinds => state'.created = state.created \cup {e.target}
      BY <2>0, <2>4, CodesKeptOK DEF BothInside, Begins, CodesKept, RefNew
    <3>3. CodesOK(state')
      BY <2>0, <3>2 DEF CodesOK
    <3> SUFFICES ASSUME NEW i \in 1 .. Len(evms) + 1
                 PROVE  /\ CodesOK(evms'[i].snap)
                        /\ evms'[i].kind \in CreateKinds =>
                             /\ evms'[i].target \in state'.created
                             /\ \A j \in i + 1 .. Len(evms) + 1 :
                                  evms'[i].target \in evms'[j].snap.created
      BY <3>1, <3>3 DEF CodesInv
    <3>4. CASE i = Len(evms) + 1
      <4>1. i + 1 .. Len(evms) + 1 = {}
        BY <2>1, <3>4
      <4> QED  BY <3>1, <3>2, <3>4, <4>1
    <3>5. CASE i # Len(evms) + 1
      <4>1. i \in 1 .. Len(evms)
        BY <2>1, <3>5
      <4>2. Ids(evms'[i], evms[i])
        BY <3>1, <4>1 DEF IdsKept
      <4>3. ASSUME NEW j \in i + 1 .. Len(evms) + 1, evms[i].kind \in CreateKinds
            PROVE  evms[i].target \in evms'[j].snap.created
        <5>1. CASE j = Len(evms) + 1
          BY <2>1, <3>1, <3>2, <4>1, <4>3, <5>1
        <5>2. CASE j # Len(evms) + 1
          <6>1. j \in i + 1 .. Len(evms) /\ j \in 1 .. Len(evms)
            BY <2>1, <4>1, <5>2
          <6>2. evms'[j].snap = evms[j].snap
            BY <3>1, <6>1 DEF IdsKept, Ids
          <6> QED  BY <2>1, <4>1, <4>3, <6>1, <6>2
        <5> QED  BY <5>1, <5>2
      <4>4. evms[i].kind \in CreateKinds => evms[i].target \in state'.created
        BY <2>1, <3>2, <4>1
      <4> QED  BY <2>1, <4>1, <4>2, <4>3, <4>4 DEF Ids
    <3> QED  BY <3>4, <3>5
  <2>5. ASSUME NEW f, NEW e, Closed(f, e)
        PROVE  CodesInv'
    <3>1. Len(evms') = Len(evms) - 1 /\ IdsKept(Len(evms) - 1) /\ Len(evms) >= 2
      BY <2>0, <2>5, LockstepShapes DEF FrameClosed
    <3> DEFINE n == Len(evms) - 1
    <3>2. /\ n \in Nat /\ n <= Len(evms) /\ Len(evms) \in 1 .. Len(evms)
          /\ \A i \in 1 .. n : i \in 1 .. Len(evms) /\ Len(evms) \in i + 1 .. Len(evms)
      BY <2>1, <3>1
    <3>3. Ref!Top = evms[Len(evms)] /\ Ref!Top \in RefFrames /\ state \in RefStates
          /\ Ref!Top.kind = Top.kind
      BY <2>0, <2>5, RefTopFacts, SameLength DEF Ref!Top, Closed, RefOK
    <3>4. CASE state' = state
      BY <2>0, <2>1, <3>1, <3>2, <3>4, CodesWithNoneOpened
    <3>5. CASE state' = Ref!Top.snap
      <4>1. CodesOK(state')
        BY <2>1, <3>2, <3>3, <3>5
      <4>2. \A i \in 1 .. n : evms[i].kind \in CreateKinds => evms[i].target \in state'.created
        BY <2>1, <3>2, <3>3, <3>5
      <4> QED  BY <2>0, <2>1, <3>1, <3>2, <4>1, <4>2, CodesWithNoneOpened
    <3>6. CASE /\ Top.kind \in CreateKinds
               /\ state' = [state EXCEPT !.code[Ref!Top.target] = Ref!Top.output]
      <4>1. Ref!Top.target \in state.created
        BY <2>1, <3>2, <3>3, <3>6
      <4>2. /\ state'.created = state.created /\ state'.doomed = state.doomed
            /\ state'.code = [state.code EXCEPT ![Ref!Top.target] = Ref!Top.output]
            /\ state.code \in [Addrs -> Data]
        BY <3>3, <3>6 DEF RefStates
      <4>3. CodesOK(state')
        BY <2>0, <4>1, <4>2 DEF CodesOK
      <4> QED  BY <2>0, <2>1, <3>1, <3>2, <4>2, <4>3, CodesWithNoneOpened
    <3> QED  BY <2>5, <3>4, <3>5, <3>6 DEF Closed
  <2>6. ASSUME Ended
        PROVE  CodesInv'
    <3>1. Len(evms') = 0
      BY <2>0, <2>6, LockstepShapes
    <3>2. /\ Ref!Top = evms[Len(evms)] /\ Len(evms) \in 1 .. Len(evms)
          /\ Ref!Top.snap \in RefStates /\ state \in RefStates
      BY <2>6, RefTopFacts DEF Ref!Top, Ended, RefFrames, RefOK
    <3>3. ASSUME NEW st \in RefStates, CodesOK(st)
          PROVE  CodesOK(Ref!Destroyed(st))
      <4>1. /\ Ref!Destroyed(st).doomed = st.doomed /\ Ref!Destroyed(st).created = st.created
            /\ \A a \in Addrs : a \notin st.doomed => Ref!Destroyed(st).code[a] = st.code[a]
        BY DEF Ref!Destroyed, RefStates
      <4> QED  BY <3>3, <4>1 DEF CodesOK
    <3>4. CodesOK(state')
      BY <2>0, <2>1, <2>6, <3>2, <3>3 DEF Ended
    <3> QED  BY <3>1, <3>4 DEF CodesInv
  <2>7. ASSUME NEW a, BothStart(a)
        PROVE  CodesInv'
    <3>1. PICK e : evms' = <<e>> /\ e.kind = "TOP" /\ e.snap = state /\ state' = state
      BY <2>7 DEF BothStart, RefNew
    <3>2. Len(evms') = 1 /\ evms'[1] = e /\ e.kind \notin CreateKinds
      BY <3>1 DEF CreateKinds
    <3> QED  BY <2>0, <3>1, <3>2 DEF CodesInv
  <2> QED
    BY <2>0, <2>2, <2>3, <2>4, <2>5, <2>6, <2>7, LockstepShapes
      DEF Lockstep, Wrote, BothHalted, BothTold, BothEdited
<1> QED  BY <1>1, <1>2

LEMMA LockstepKeepsShape ==
  ASSUME TypeOK, RefOK, TablesOK, SameShape, Lockstep
  PROVE  SameShape'
BY LockstepShapes DEF Lockstep, FramesKept, FrameOpened, FrameClosed

LEMMA CodesAlways == BothSpec => []CodesInv
<1>1. BothInit => CodesInv
  <2> SUFFICES ASSUME BothInit PROVE CodesInv
    OBVIOUS
  <2>1. Len(evms) = 0
    BY EmptySeq DEF BothInit
  <2>2. CodesOK(state)
    BY DEF BothInit, Init, LookupCode, Ref!InitialState, CodesOK
  <2> QED  BY <2>1, <2>2 DEF CodesInv
<1>2. TypeOK /\ RefOK /\ TablesOK /\ CodesInv /\ [BothNext]_bothVars => CodesInv'
  BY CodesStep
<1> QED  BY <1>1, <1>2, BothTyped, PTL DEF BothSpec

\* Frames open, halt and answer alike on both sides, success flags included, whatever the
\* program is made of, until one of the listed differences (evm.lua:517-580, 1545-1620;
\* instructions/system.py).
THEOREM PartOnlyAsTheListSays == BothSpec => TreesPartOnlyAsListed
<1>1. TypeOK /\ RefOK /\ TablesOK /\ CodesInv /\ [BothNext]_bothVars
        => [SameShape => SameShape' \/ ListedDifference]_bothVars
  <2> SUFFICES ASSUME TypeOK, RefOK, TablesOK, CodesInv, [BothNext]_bothVars, SameShape,
                      ~UNCHANGED bothVars
               PROVE  SameShape' \/ ListedDifference
    OBVIOUS
  <2>1. Lockstep \/ Parts
    BY StepsInStep DEF CodesInv
  <2> QED  BY <2>1, LockstepKeepsShape DEF Parts
<1> QED  BY <1>1, BothTyped, CodesAlways, PTL DEF BothSpec, TreesPartOnlyAsListed

------------------------------------------------------------------------------
(***************************************************************************)
(* Return data.  What a callee leaves in evm.lua's one buffer is the       *)
(* reference's output or more; and each table knows which opcode opened    *)
(* the frame above it, whose data is about to arrive.                      *)
(***************************************************************************)
DataOK(f, e, l) ==
  /\ e.status = "run" => e.output = Empty
  /\ e.output \in {Empty, f.rdata}
  /\ f.status = "run" =>
       /\ l.last = "call" => e.rdata \in {Empty, f.rdata}
       /\ l.last = "none" => f.rdata = Empty /\ e.rdata = Empty

DataInv ==
  SameShape =>
    /\ \A i \in 1 .. Len(frames) : DataOK(frames[i], evms[i], locals[i])
    /\ \A i \in 1 .. Len(frames) - 1 : locals[i].last = Last(frames[i + 1].kind)

LEMMA DataEdited ==
  ASSUME TypeOK, RefOK, TablesOK, SameShape, DataInv, ~Idle, NEW f, NEW e, NEW l,
         Edited(frames, frames', f), Edited(evms, evms', e), Edited(locals, locals', l),
         DataOK(f, e, l), f.kind = Top.kind
  PROVE  DataInv'
<1> DEFINE n == Len(frames)
<1>1. n \in Nat \ {0} /\ Len(evms) = n /\ Len(locals) = n
  BY TopFacts, SameLength DEF TablesOK, LocalsOK
<1>2. /\ Len(frames') = n /\ frames'[n] = f /\ evms'[n] = e /\ locals'[n] = l
      /\ \A i \in 1 .. n - 1 : frames'[i] = frames[i] /\ evms'[i] = evms[i] /\ locals'[i] = locals[i]
  BY <1>1 DEF Edited
<1>3. /\ \A i \in 1 .. n : DataOK(frames[i], evms[i], locals[i])
      /\ \A i \in 1 .. n - 1 : locals[i].last = Last(frames[i + 1].kind)
  BY DEF DataInv
<1>4. \A i \in 1 .. n : i = n \/ i \in 1 .. n - 1
  BY <1>1
<1>5. \A i \in 1 .. n : DataOK(frames'[i], evms'[i], locals'[i])
  BY <1>2, <1>3, <1>4
<1>6. \A i \in 1 .. n : frames'[i].kind = frames[i].kind
  BY <1>2, <1>4 DEF Top
<1>7. \A i \in 1 .. n - 1 : locals'[i].last = Last(frames'[i + 1].kind)
  <2> SUFFICES ASSUME NEW i \in 1 .. n - 1 PROVE locals'[i].last = Last(frames'[i + 1].kind)
    OBVIOUS
  <2>1. i + 1 \in 1 .. n
    BY <1>1
  <2> QED  BY <1>2, <1>3, <1>6, <2>1
<1> QED  BY <1>2, <1>5, <1>7 DEF DataInv, DataOK

LEMMA DataGrown ==
  ASSUME TypeOK, RefOK, TablesOK, SameShape, DataInv, ~Idle, NEW x, NEW l, NEW f, NEW e,
         Grown(frames, frames', Top, f), Grown(evms, evms', x, e),
         Grown(locals, locals', l, NewLocals),
         DataOK(Top, x, l), l.last = Last(f.kind), DataOK(f, e, NewLocals)
  PROVE  DataInv'
<1> DEFINE n == Len(frames)
<1>1. n \in Nat \ {0} /\ Len(evms) = n /\ Len(locals) = n
  BY TopFacts, SameLength DEF TablesOK, LocalsOK
<1>2. /\ Len(frames') = n + 1 /\ frames'[n] = Top /\ evms'[n] = x /\ locals'[n] = l
      /\ frames'[n + 1] = f /\ evms'[n + 1] = e /\ locals'[n + 1] = NewLocals
      /\ \A i \in 1 .. n - 1 : frames'[i] = frames[i] /\ evms'[i] = evms[i] /\ locals'[i] = locals[i]
  BY <1>1 DEF Grown
<1>3. /\ \A i \in 1 .. n : DataOK(frames[i], evms[i], locals[i])
      /\ \A i \in 1 .. n - 1 : locals[i].last = Last(frames[i + 1].kind)
  BY DEF DataInv
<1>4. \A i \in 1 .. n + 1 : i = n + 1 \/ i = n \/ (i \in 1 .. n - 1 /\ i \in 1 .. n)
  BY <1>1
<1>5. \A i \in 1 .. n + 1 : DataOK(frames'[i], evms'[i], locals'[i])
  BY <1>2, <1>3, <1>4
<1>6. \A i \in 1 .. n : frames'[i].kind = frames[i].kind
  <2> SUFFICES ASSUME NEW i \in 1 .. n PROVE frames'[i].kind = frames[i].kind
    OBVIOUS
  <2>1. i = n \/ i \in 1 .. n - 1
    BY <1>1
  <2> QED  BY <1>2, <2>1 DEF Top
<1>7. \A i \in 1 .. n : locals'[i].last = Last(frames'[i + 1].kind)
  <2> SUFFICES ASSUME NEW i \in 1 .. n PROVE locals'[i].last = Last(frames'[i + 1].kind)
    OBVIOUS
  <2>1. CASE i = n
    BY <1>2, <2>1
  <2>2. CASE i # n
    <3>1. i \in 1 .. n - 1 /\ i + 1 \in 1 .. n
      BY <1>1, <2>2
    <3> QED  BY <1>2, <1>3, <1>6, <3>1
  <2> QED  BY <2>1, <2>2
<1>8. \A i \in 1 .. Len(frames') - 1 : i \in 1 .. n
  BY <1>1, <1>2
<1> QED  BY <1>2, <1>5, <1>7, <1>8 DEF DataInv, DataOK

LEMMA DataShrunk ==
  ASSUME TypeOK, RefOK, TablesOK, SameShape, DataInv, ~Idle, NEW f, NEW e, NEW l,
         Shrunk(frames, frames', f), Shrunk(evms, evms', e), Shrunk(locals, locals', l),
         DataOK(f, e, l), f.kind = Below.kind, l.last = locals[Len(locals) - 1].last
  PROVE  DataInv'
<1> DEFINE n == Len(frames) - 1
<1>1. /\ Len(frames) \in Nat /\ n \in Nat \ {0} /\ Len(frames) = n + 1
      /\ Len(evms) = n + 1 /\ Len(locals) = n + 1
  BY TopFacts, SameLength DEF TablesOK, LocalsOK, Shrunk
<1>2. /\ Len(frames') = n /\ frames'[n] = f /\ evms'[n] = e /\ locals'[n] = l
      /\ \A i \in 1 .. n - 1 : frames'[i] = frames[i] /\ evms'[i] = evms[i] /\ locals'[i] = locals[i]
      /\ Below = frames[n]
  <2>1. Below = frames[n]
    BY DEF Below
  <2>2. n - 1 = Len(frames) - 2 /\ n - 1 = Len(evms) - 2 /\ n - 1 = Len(locals) - 2
    BY <1>1
  <2>3. Len(frames') = n /\ frames'[n] = f /\ \A i \in 1 .. n - 1 : frames'[i] = frames[i]
    BY <2>2 DEF Shrunk
  <2>4. evms'[n] = e /\ \A i \in 1 .. n - 1 : evms'[i] = evms[i]
    <3>1. Len(evms) - 1 = n
      BY <1>1
    <3> HIDE DEF n
    <3> QED  BY <2>2, <3>1 DEF Shrunk
  <2>5. locals'[n] = l /\ \A i \in 1 .. n - 1 : locals'[i] = locals[i]
    <3>1. Len(locals) - 1 = n
      BY <1>1
    <3> HIDE DEF n
    <3> QED  BY <2>2, <3>1 DEF Shrunk
  <2> QED  BY <2>1, <2>3, <2>4, <2>5
<1>3. /\ \A i \in 1 .. n : DataOK(frames[i], evms[i], locals[i])
      /\ \A i \in 1 .. n : locals[i].last = Last(frames[i + 1].kind)
  BY <1>1 DEF DataInv
<1> HIDE DEF n
<1>4. \A i \in 1 .. n : i = n \/ i \in 1 .. n - 1
  BY <1>1
<1>5. \A i \in 1 .. n : DataOK(frames'[i], evms'[i], locals'[i])
  BY <1>2, <1>3, <1>4
<1>6. \A i \in 1 .. n : frames'[i].kind = frames[i].kind
  BY <1>2, <1>4
<1>7. \A i \in 1 .. n - 1 : locals'[i].last = Last(frames'[i + 1].kind)
  <2> SUFFICES ASSUME NEW i \in 1 .. n - 1 PROVE locals'[i].last = Last(frames'[i + 1].kind)
    OBVIOUS
  <2>1. i + 1 \in 1 .. n /\ i \in 1 .. n
    BY <1>1
  <2> QED  BY <1>2, <1>3, <1>6, <2>1
<1> QED  BY <1>2, <1>5, <1>7 DEF DataInv, DataOK

LEMMA DataStep ==
  ASSUME TypeOK, RefOK, TablesOK, CodesInv, DataInv, [BothNext]_bothVars
  PROVE  DataInv'
<1>1. CASE UNCHANGED bothVars
  BY <1>1 DEF bothVars, vars, refVars, DataInv, SameShape, SameFrame, DataOK
<1>2. CASE ~UNCHANGED bothVars
  <2>0. SameShape /\ (Lockstep \/ Parts)
    BY <1>2, StepsInStep DEF CodesInv
  <2>1. /\ Len(frames) \in Nat /\ Len(evms) = Len(frames) /\ Len(locals) = Len(frames)
        /\ \A i \in 1 .. Len(frames) : DataOK(frames[i], evms[i], locals[i])
        /\ \A i \in 1 .. Len(frames) - 1 : locals[i].last = Last(frames[i + 1].kind)
    BY <2>0, SameLength DEF DataInv, TablesOK, LocalsOK
  <2>2. ASSUME ~Idle
        PROVE  /\ DataOK(Top, Ref!Top, TopLocals) /\ Top.status = Ref!Top.status
               /\ Top \in Frame /\ Ref!Top \in RefFrames /\ TopLocals \in LocalTables
    <3>1. Len(frames) \in 1 .. Len(frames)
      BY <2>2, TopFacts
    <3> QED  BY <2>0, <2>1, <2>2, <3>1, SameLength, TopFacts, RefTopFacts, LocalsTopFacts
             DEF Top, Ref!Top, TopLocals, TablesOK
  <2>3. CASE Parts
    BY <2>3 DEF Parts, DataInv
  <2>4. CASE Wrote
    <3>1. PICK l : /\ Edited(locals, locals', l)
                   /\ \/ l = TopLocals
                      \/ \E s \in Slots, w \in Words : l = [TopLocals EXCEPT !.transient[s] = w]
                      \/ \E d \in Data : l = [TopLocals EXCEPT !.logs = Append(@, d)]
      BY <2>4 DEF Wrote
    <3>2. l.last = TopLocals.last
      BY <2>2, <2>4, <3>1 DEF Wrote, BothRunning, LocalTables
    <3>3. DataOK(Top, Ref!Top, l)
      BY <2>2, <2>4, <3>2 DEF Wrote, BothRunning, DataOK
    <3> QED  BY <2>0, <2>4, <3>1, <3>3, DataEdited DEF Wrote, BothRunning
  <2>5. ASSUME NEW f, NEW e, BothHalted(f, e)
        PROVE  DataInv'
    <3>1. DataOK(f, e, TopLocals)
      BY <2>2, <2>5 DEF BothHalted, BothEdited, BothRunning, DataOK
    <3> QED  BY <2>0, <2>5, <3>1, DataEdited DEF BothHalted, BothEdited, BothRunning
  <2>6. ASSUME NEW f, NEW e, NEW k, BothTold(f, e, k)
        PROVE  DataInv'
    <3> DEFINE l == [TopLocals EXCEPT !.last = k]
    <3>1. l.last = k /\ k \in {"call", "create"}
      BY <2>2, <2>6 DEF BothTold, BothEdited, BothRunning, LocalTables
    <3>2. Edited(locals, locals', l)
      BY <2>6 DEF BothTold, BothEdited
    <3> HIDE DEF l
    <3>3. DataOK(f, e, l)
      BY <2>2, <2>6, <3>1 DEF BothTold, BothEdited, BothRunning, DataOK
    <3> QED  BY <2>0, <2>6, <3>2, <3>3, DataEdited DEF BothTold, BothEdited, BothRunning
  <2>7. ASSUME NEW f, NEW e, NEW kind, BothInside(f, e, kind)
        PROVE  DataInv'
    <3> DEFINE l == [TopLocals EXCEPT !.last = Last(kind)]
               x == [Ref!Top EXCEPT !.rdata = Empty]
    <3>1. /\ l.last = Last(kind) /\ Last(kind) \in {"call", "create"}
          /\ x.rdata = Empty /\ x.output = Ref!Top.output /\ x.status = Ref!Top.status
      BY <2>2, <2>7 DEF BothInside, BothRunning, LocalTables, RefFrames, Last
    <3>2. Grown(evms, evms', x, e) /\ Grown(locals, locals', l, NewLocals)
      BY <2>7 DEF BothInside
    <3> HIDE DEF l, x
    <3>3. DataOK(Top, x, l)
      BY <2>2, <2>7, <3>1 DEF BothInside, BothRunning, DataOK
    <3>4. l.last = Last(f.kind) /\ DataOK(f, e, NewLocals)
      BY <2>7, <3>1 DEF BothInside, New, RefNew, NewLocals, DataOK
    <3> QED  BY <2>0, <2>7, <3>2, <3>3, <3>4, DataGrown DEF BothInside, BothRunning
  <2>8. ASSUME NEW f, NEW e, Closed(f, e)
        PROVE  DataInv'
    <3> DEFINE n == Len(frames)
               l == locals[Len(locals) - 1]
    <3>1. n >= 2 /\ n - 1 \in 1 .. n /\ n - 1 \in 1 .. n - 1 /\ (n - 1) + 1 = n
      BY <2>1, <2>8 DEF Closed, Shrunk
    <3>2. /\ Below = frames[n - 1] /\ Ref!Below = evms[n - 1] /\ l = locals[n - 1]
          /\ Top = frames[n]
      BY <2>1 DEF Below, Ref!Below, Top
    <3>3. /\ DataOK(Below, Ref!Below, l) /\ l.last = Last(Top.kind)
          /\ Below.status = "run" /\ Ref!Below.status = "run"
      <4>0. n - 1 \in 1 .. Len(frames) - 1 /\ n - 1 \in 1 .. Len(frames)
        BY <3>1
      <4> HIDE DEF n
      <4>1. frames[n - 1].status = "run"
        BY <2>0, <4>0 DEF TypeOK, FramesOK
      <4>2. SameFrame(frames[n - 1], evms[n - 1])
        BY <2>0, <4>0 DEF SameShape
      <4>3. n = Len(frames) /\ n - 1 \in 1 .. n
        BY <3>1 DEF n
      <4> QED  BY <2>1, <3>2, <4>1, <4>2, <4>3 DEF SameFrame
    <3>4. DataOK(Top, Ref!Top, TopLocals)
      BY <2>2, <2>8 DEF Closed
    <3>5. (Top.kind \in CallKinds /\ l.last = "call") \/ l.last = "create"
      BY <2>8, <3>3 DEF Closed, Last
    <3> HIDE DEF l
    <3>6. DataOK(f, e, l)
      BY <2>8, <3>3, <3>4, <3>5 DEF Closed, DataOK
    <3> QED  BY <2>0, <2>8, <3>6, DataShrunk DEF Closed, l
  <2>9. CASE Ended
    <3>1. Len(frames') = 0
      BY <2>9, EmptySeq DEF Ended
    <3> QED  BY <3>1 DEF DataInv
  <2>10. ASSUME NEW a, BothStart(a)
         PROVE  DataInv'
    <3>1. PICK f, e : /\ frames' = <<f>> /\ evms' = <<e>> /\ locals' = <<NewLocals>>
                      /\ New(f, "TOP") /\ RefNew(e, "TOP")
      BY <2>10 DEF BothStart
    <3>2. DataOK(f, e, NewLocals)
      BY <3>1 DEF New, RefNew, NewLocals, DataOK
    <3>3. Len(frames') = 1 /\ frames'[1] = f /\ evms'[1] = e /\ locals'[1] = NewLocals
      BY <3>1
    <3> QED  BY <3>2, <3>3 DEF DataInv, DataOK
  <2> QED  BY <2>0, <2>3, <2>4, <2>5, <2>6, <2>7, <2>8, <2>9, <2>10 DEF Lockstep
<1> QED  BY <1>1, <1>2

LEMMA DataAlways == BothSpec => []DataInv
<1>1. BothInit => DataInv
  BY EmptySeq DEF BothInit, Init, DataInv
<1>2. TypeOK /\ RefOK /\ TablesOK /\ CodesInv /\ DataInv /\ [BothNext]_bothVars => DataInv'
  BY DataStep
<1> QED  BY <1>1, <1>2, BothTyped, CodesAlways, PTL DEF BothSpec

\* RETURNDATASIZE and RETURNDATACOPY never show a frame the wrong callee's data where the
\* reference has data to show, in call trees of any depth and any mixture of calls,
\* creations and failures (evm.lua:571).
THEOREM ReturnDataIsTheCallees == BothSpec => []ReturnDataNeverWrong
<1>1. DataInv => ReturnDataNeverWrong
  BY DEF DataInv, DataOK, ReturnDataNeverWrong
<1> QED  BY <1>1, DataAlways, PTL

------------------------------------------------------------------------------
(***************************************************************************)
(* Transient storage.  An account that no frame has entered has none yet,  *)
(* in no snapshot either; and what a lone frame of an account wrote is in  *)
(* every snapshot taken above it, so that no rollback takes it back.       *)
(***************************************************************************)
NoTransient == [s \in Slots |-> Zero]

TransientInv ==
  SameShape =>
    /\ \A a \in Addrs : entries[a] = 0 => state.transient[a] = NoTransient
    /\ \A i \in 1 .. Len(evms) :
         /\ entries[evms[i].target] >= 1
         /\ \A j \in 1 .. Len(evms) :
              i # j /\ evms[i].target = evms[j].target => entries[evms[i].target] = 2
         /\ \A a \in Addrs : entries[a] = 0 => evms[i].snap.transient[a] = NoTransient
         /\ \A j \in i + 1 .. Len(evms) :
              entries[evms[i].target] = 1 =>
                evms[j].snap.transient[evms[i].target] = state.transient[evms[i].target]
         /\ entries[evms[i].target] = 1 =>
              locals[i].transient = state.transient[evms[i].target]

\* Steps that open no frame and take nothing from the accounts that have a lone frame.
LEMMA TransientWithNoneOpened ==
  ASSUME SameShape, TransientInv, NEW n \in Nat, Len(evms) \in Nat, n <= Len(evms),
         Len(evms') = n, IdsKept(n), UNCHANGED entries,
         \A i \in 1 .. n : locals'[i].transient = locals[i].transient,
         \A a \in Addrs : entries[a] = 0 => state'.transient[a] = NoTransient,
         \A i \in 1 .. n : entries[evms[i].target] = 1 =>
            state'.transient[evms[i].target] = state.transient[evms[i].target]
  PROVE  TransientInv'
<1> SUFFICES ASSUME NEW i \in 1 .. n
             PROVE  /\ entries'[evms'[i].target] >= 1
                    /\ \A j \in 1 .. n : i # j /\ evms'[i].target = evms'[j].target =>
                         entries'[evms'[i].target] = 2
                    /\ \A a \in Addrs : entries'[a] = 0 => evms'[i].snap.transient[a] = NoTransient
                    /\ \A j \in i + 1 .. n : entries'[evms'[i].target] = 1 =>
                         evms'[j].snap.transient[evms'[i].target] = state'.transient[evms'[i].target]
                    /\ entries'[evms'[i].target] = 1 =>
                         locals'[i].transient = state'.transient[evms'[i].target]
  BY DEF TransientInv, NoTransient
<1>1. /\ i \in 1 .. Len(evms) /\ \A j \in 1 .. n : j \in 1 .. Len(evms)
      /\ \A j \in i + 1 .. n : j \in i + 1 .. Len(evms) /\ j \in 1 .. n
  OBVIOUS
<1>2. \A j \in 1 .. n : evms'[j].target = evms[j].target /\ evms'[j].snap = evms[j].snap
  BY DEF IdsKept, Ids
<1>3. /\ entries[evms[i].target] >= 1
      /\ \A j \in 1 .. Len(evms) :
           i # j /\ evms[i].target = evms[j].target => entries[evms[i].target] = 2
      /\ \A a \in Addrs : entries[a] = 0 => evms[i].snap.transient[a] = NoTransient
      /\ \A j \in i + 1 .. Len(evms) :
           entries[evms[i].target] = 1 =>
             evms[j].snap.transient[evms[i].target] = state.transient[evms[i].target]
      /\ entries[evms[i].target] = 1 =>
           locals[i].transient = state.transient[evms[i].target]
  BY <1>1 DEF TransientInv
<1> HIDE DEF TransientInv
<1> QED  BY <1>1, <1>2, <1>3

\* The innermost frame writes: no other frame is alone in that account.
LEMMA TransientWritten ==
  ASSUME TypeOK, RefOK, TablesOK, SameShape, TransientInv, ~Idle,
         Len(evms') = Len(evms), IdsKept(Len(evms)), UNCHANGED entries,
         NEW s \in Slots, NEW w \in Words,
         Edited(locals, locals', [TopLocals EXCEPT !.transient[s] = w]),
         state' = [state EXCEPT !.transient[Ref!Top.target][s] = w]
  PROVE  TransientInv'
<1> DEFINE n == Len(evms)
           t == Ref!Top.target
<1>0. /\ n \in Nat \ {0} /\ n \in 1 .. n /\ Ref!Top = evms[n] /\ t \in Addrs /\ Len(locals) = n
      /\ TopLocals = locals[n] /\ TopLocals \in LocalTables
      /\ state.transient \in [Addrs -> [Slots -> Words]]
  <2>1. n \in Nat \ {0} /\ evms # <<>> /\ Len(locals) = n
    BY TopFacts, SameLength DEF TablesOK, LocalsOK
  <2>2. Ref!Top \in RefFrames /\ TopLocals \in LocalTables
    BY <2>1, RefTopFacts, LocalsTopFacts DEF TablesOK
  <2>3. Ref!Top = evms[n]
    BY DEF Ref!Top
  <2>4. TopLocals = locals[n]
    BY <2>1 DEF TopLocals
  <2>5. t \in Addrs
    BY <2>2 DEF RefFrames
  <2>6. state.transient \in [Addrs -> [Slots -> Words]]
    BY DEF RefOK, RefStates
  <2> QED  BY <2>1, <2>2, <2>3, <2>4, <2>5, <2>6
<1>1. /\ state'.transient = [state.transient EXCEPT ![t] = [state.transient[t] EXCEPT ![s] = w]]
      /\ \A a \in Addrs : a # t => state'.transient[a] = state.transient[a]
      /\ state'.transient[t] = [state.transient[t] EXCEPT ![s] = w]
  BY <1>0 DEF RefOK, RefStates
<1>2. /\ locals'[n].transient = [locals[n].transient EXCEPT ![s] = w]
      /\ \A i \in 1 .. n - 1 : locals'[i] = locals[i]
  BY <1>0 DEF Edited, LocalTables
<1>3. /\ \A a \in Addrs : entries[a] = 0 => state.transient[a] = NoTransient
      /\ \A i \in 1 .. n :
           /\ entries[evms[i].target] >= 1
           /\ \A j \in 1 .. n :
                i # j /\ evms[i].target = evms[j].target => entries[evms[i].target] = 2
           /\ \A a \in Addrs : entries[a] = 0 => evms[i].snap.transient[a] = NoTransient
           /\ \A j \in i + 1 .. n :
                entries[evms[i].target] = 1 =>
                  evms[j].snap.transient[evms[i].target] = state.transient[evms[i].target]
           /\ entries[evms[i].target] = 1 =>
                locals[i].transient = state.transient[evms[i].target]
  BY DEF TransientInv
<1>4. \A j \in 1 .. n : evms'[j].target = evms[j].target /\ evms'[j].snap = evms[j].snap
  BY DEF IdsKept, Ids
<1>5. \A j \in 1 .. n : evms[j].target \in Addrs
  <2>1. \A j \in 1 .. n : evms[j] \in RefFrames
    BY ElementOfSeq DEF RefOK
  <2> QED  BY <2>1 DEF RefFrames
<1>6. t = evms[n].target
  BY <1>0
<1> HIDE DEF t
<1>7. \A a \in Addrs : entries'[a] = 0 => state'.transient[a] = NoTransient
  <2> SUFFICES ASSUME NEW a \in Addrs, entries[a] = 0
               PROVE  state'.transient[a] = NoTransient
    OBVIOUS
  <2>1. a # t
    BY <1>0, <1>3, <1>6
  <2> QED  BY <1>1, <1>3, <2>1
<1>8. ASSUME NEW i \in 1 .. n, entries[evms[i].target] = 1, i # n
      PROVE  state'.transient[evms[i].target] = state.transient[evms[i].target]
  <2>1. evms[i].target # t
    BY <1>0, <1>3, <1>6, <1>8
  <2> QED  BY <1>1, <1>5, <2>1
<1>9. ASSUME NEW i \in 1 .. n, entries[evms[i].target] = 1
      PROVE  locals'[i].transient = state'.transient[evms[i].target]
  <2>1. CASE i = n
    BY <1>0, <1>1, <1>2, <1>3, <1>6, <1>9, <2>1
  <2>2. CASE i # n
    <3>1. i \in 1 .. n - 1
      BY <1>0, <2>2
    <3> QED  BY <1>2, <1>3, <1>8, <1>9, <2>2, <3>1
  <2> QED  BY <2>1, <2>2
<1>10. ASSUME NEW i \in 1 .. n, NEW j \in i + 1 .. n, entries[evms[i].target] = 1
       PROVE  evms[j].snap.transient[evms[i].target] = state'.transient[evms[i].target]
  <2>1. i # n
    BY <1>0
  <2> QED  BY <1>3, <1>8, <1>10, <2>1
<1>11. \A i \in 1 .. n :
         /\ entries'[evms'[i].target] >= 1
         /\ \A j \in 1 .. n :
              i # j /\ evms'[i].target = evms'[j].target => entries'[evms'[i].target] = 2
         /\ \A a \in Addrs : entries'[a] = 0 => evms'[i].snap.transient[a] = NoTransient
  BY <1>3, <1>4
<1>12. \A i \in 1 .. n :
         /\ \A j \in i + 1 .. n :
              entries'[evms'[i].target] = 1 =>
                evms'[j].snap.transient[evms'[i].target] = state'.transient[evms'[i].target]
         /\ entries'[evms'[i].target] = 1 =>
              locals'[i].transient = state'.transient[evms'[i].target]
  <2> SUFFICES ASSUME NEW i \in 1 .. n, entries[evms[i].target] = 1
               PROVE  /\ \A j \in i + 1 .. n :
                           evms'[j].snap.transient[evms[i].target] = state'.transient[evms[i].target]
                      /\ locals'[i].transient = state'.transient[evms[i].target]
    BY <1>4
  <2>1. \A j \in i + 1 .. n : j \in 1 .. n
    BY <1>0
  <2> QED  BY <1>4, <1>9, <1>10, <2>1
<1> QED  BY <1>7, <1>11, <1>12 DEF TransientInv, NoTransient

\* A frame that was opened finds none of its account's, or is not alone.
LEMMA TransientOpened ==
  ASSUME TypeOK, RefOK, TablesOK, SameShape, TransientInv, NEW f, NEW e, NEW kind,
         BothInside(f, e, kind), FrameOpened(e)
  PROVE  TransientInv'
<1> DEFINE n == Len(evms)
           a == e.target
<1>1. ~Idle /\ a \in Addrs /\ Entered(a) /\ entries \in [Addrs -> 0 .. 2]
  BY DEF BothInside, BothRunning, TablesOK
<1>2. /\ n \in Nat \ {0} /\ n \in 1 .. n /\ Len(locals) = n
  BY <1>1, TopFacts, SameLength DEF TablesOK, LocalsOK
<1>3. Len(evms') = n + 1 /\ evms'[n + 1] = e
  BY DEF FrameOpened
<1>4. \A j \in 1 .. n : evms'[j].target = evms[j].target /\ evms'[j].snap = evms[j].snap
  BY DEF FrameOpened, IdsKept, Ids
<1>5. \A j \in 1 .. n : evms[j].target \in Addrs
  <2>1. \A j \in 1 .. n : evms[j] \in RefFrames
    BY ElementOfSeq DEF RefOK
  <2> QED  BY <2>1 DEF RefFrames
<1>6. state'.transient = state.transient /\ e.snap.transient = state.transient
  BY DEF BothInside, Begins, TablesKept
<1>7. /\ locals'[n + 1] = NewLocals
      /\ \A i \in 1 .. n : locals'[i].transient = locals[i].transient
  <2>1. Grown(locals, locals', [TopLocals EXCEPT !.last = Last(kind)], NewLocals)
    BY DEF BothInside
  <2>2. TopLocals \in LocalTables
    BY <1>1, LocalsTopFacts DEF TablesOK
  <2>3. /\ locals'[n + 1] = NewLocals /\ locals'[n].transient = locals[n].transient
        /\ \A i \in 1 .. n - 1 : locals'[i] = locals[i]
    BY <1>2, <2>1, <2>2 DEF Grown, TopLocals, LocalTables
  <2>4. \A i \in 1 .. n : i = n \/ i \in 1 .. n - 1
    BY <1>2
  <2> QED  BY <2>3, <2>4
<1>8. /\ \A x \in Addrs : entries[x] = 0 => state.transient[x] = NoTransient
      /\ \A i \in 1 .. n :
           /\ entries[evms[i].target] >= 1
           /\ \A j \in 1 .. n :
                i # j /\ evms[i].target = evms[j].target => entries[evms[i].target] = 2
           /\ \A x \in Addrs : entries[x] = 0 => evms[i].snap.transient[x] = NoTransient
           /\ \A j \in i + 1 .. n :
                entries[evms[i].target] = 1 =>
                  evms[j].snap.transient[evms[i].target] = state.transient[evms[i].target]
           /\ entries[evms[i].target] = 1 =>
                locals[i].transient = state.transient[evms[i].target]
  BY DEF TransientInv
<1>9. /\ \A x \in Addrs : entries'[x] >= entries[x] /\ entries[x] \in 0 .. 2
      /\ \A x \in Addrs : x # a => entries'[x] = entries[x]
      /\ entries'[a] = IF entries[a] = 0 THEN 1 ELSE 2
  <2> HIDE DEF a
  <2> QED  BY <1>1, EnteredTyped
<1> HIDE DEF a
<1>10. \A x \in Addrs : entries'[x] = 0 => entries[x] = 0 /\ x # a
  BY <1>9
\* A lone frame before and after is not in the account that was entered.
<1>11. ASSUME NEW i \in 1 .. n
       PROVE  /\ entries'[evms[i].target] >= 1
              /\ evms[i].target = a => entries'[a] = 2
              /\ entries'[evms[i].target] = 1 => entries[evms[i].target] = 1
              /\ entries[evms[i].target] = 2 => entries'[evms[i].target] = 2
  BY <1>5, <1>8, <1>9
<1>12. \A i \in 1 .. n + 1 : i = n + 1 \/ i \in 1 .. n
  BY <1>2
<1>13. evms'[n + 1].target = a /\ evms'[n + 1].snap = e.snap
  BY <1>3 DEF a
<1>14. ASSUME NEW i \in 1 .. n
       PROVE  /\ entries'[evms'[i].target] >= 1
              /\ \A j \in 1 .. n + 1 :
                   i # j /\ evms'[i].target = evms'[j].target => entries'[evms'[i].target] = 2
              /\ \A x \in Addrs : entries'[x] = 0 => evms'[i].snap.transient[x] = NoTransient
              /\ \A j \in i + 1 .. n + 1 :
                   entries'[evms'[i].target] = 1 =>
                     evms'[j].snap.transient[evms'[i].target] = state'.transient[evms'[i].target]
              /\ entries'[evms'[i].target] = 1 =>
                   locals'[i].transient = state'.transient[evms'[i].target]
  <2>1. ASSUME NEW j \in 1 .. n + 1, i # j, evms'[i].target = evms'[j].target
        PROVE  entries'[evms'[i].target] = 2
    <3>1. CASE j = n + 1
      BY <1>4, <1>11, <1>13, <2>1, <3>1
    <3>2. CASE j \in 1 .. n
      BY <1>4, <1>8, <1>11, <2>1, <3>2
    <3> QED  BY <1>12, <3>1, <3>2
  <2>2. ASSUME NEW j \in i + 1 .. n + 1, entries'[evms'[i].target] = 1
        PROVE  evms'[j].snap.transient[evms'[i].target] = state'.transient[evms'[i].target]
    <3>1. CASE j = n + 1
      BY <1>6, <1>13, <3>1
    <3>2. CASE j # n + 1
      <4>1. j \in i + 1 .. n /\ j \in 1 .. n
        BY <1>2, <3>2
      <4> QED  BY <1>4, <1>6, <1>8, <1>11, <2>2, <4>1
    <3> QED  BY <3>1, <3>2
  <2>3. entries'[evms'[i].target] = 1 => locals'[i].transient = state'.transient[evms'[i].target]
    BY <1>4, <1>6, <1>7, <1>8, <1>11
  <2>4. \A x \in Addrs : entries'[x] = 0 => evms'[i].snap.transient[x] = NoTransient
    BY <1>4, <1>8, <1>10
  <2> QED  BY <1>4, <1>11, <2>1, <2>2, <2>3, <2>4
<1>15. /\ entries'[evms'[n + 1].target] >= 1
       /\ \A j \in 1 .. n + 1 :
            n + 1 # j /\ evms'[n + 1].target = evms'[j].target => entries'[evms'[n + 1].target] = 2
       /\ \A x \in Addrs : entries'[x] = 0 => evms'[n + 1].snap.transient[x] = NoTransient
       /\ (n + 1) + 1 .. n + 1 = {}
       /\ entries'[evms'[n + 1].target] = 1 =>
            locals'[n + 1].transient = state'.transient[evms'[n + 1].target]
  <2>1. \A j \in 1 .. n + 1 : n + 1 # j /\ evms'[n + 1].target = evms'[j].target => entries'[a] = 2
    BY <1>4, <1>11, <1>12, <1>13
  <2>2. entries'[a] = 1 => locals'[n + 1].transient = state'.transient[a]
    BY <1>1, <1>6, <1>7, <1>8, <1>9 DEF NewLocals, NoTransient
  <2>3. \A x \in Addrs : entries'[x] = 0 => evms'[n + 1].snap.transient[x] = NoTransient
    BY <1>6, <1>8, <1>10, <1>13
  <2>4. entries'[a] >= 1 /\ (n + 1) + 1 .. n + 1 = {}
    BY <1>2, <1>9
  <2> QED  BY <1>13, <2>1, <2>2, <2>3, <2>4
<1>16. \A x \in Addrs : entries'[x] = 0 => state'.transient[x] = NoTransient
  BY <1>6, <1>8, <1>10
<1>17. \A i \in 1 .. n + 1 :
         /\ entries'[evms'[i].target] >= 1
         /\ \A j \in 1 .. n + 1 :
              i # j /\ evms'[i].target = evms'[j].target => entries'[evms'[i].target] = 2
         /\ \A x \in Addrs : entries'[x] = 0 => evms'[i].snap.transient[x] = NoTransient
         /\ \A j \in i + 1 .. n + 1 :
              entries'[evms'[i].target] = 1 =>
                evms'[j].snap.transient[evms'[i].target] = state'.transient[evms'[i].target]
         /\ entries'[evms'[i].target] = 1 =>
              locals'[i].transient = state'.transient[evms'[i].target]
  BY <1>12, <1>14, <1>15
<1> HIDE DEF n
<1> QED  BY <1>3, <1>16, <1>17 DEF TransientInv, NoTransient

LEMMA TransientStep ==
  ASSUME TypeOK, RefOK, TablesOK, CodesInv, TransientInv, [BothNext]_bothVars
  PROVE  TransientInv'
<1>1. CASE UNCHANGED bothVars
  BY <1>1 DEF bothVars, vars, refVars, TransientInv, SameShape, SameFrame, NoTransient
<1>2. CASE ~UNCHANGED bothVars
  <2>0. SameShape /\ (Lockstep \/ Parts)
    BY <1>2, StepsInStep DEF CodesInv
  <2> DEFINE n == Len(evms)
  <2>1. /\ n \in Nat /\ n = Len(frames) /\ n = Len(locals) /\ n <= n
        /\ state \in RefStates
    BY <2>0, SameLength DEF TablesOK, LocalsOK, RefOK
  <2>2. /\ \A a \in Addrs : entries[a] = 0 => state.transient[a] = NoTransient
        /\ \A i \in 1 .. n :
             /\ \A a \in Addrs : entries[a] = 0 => evms[i].snap.transient[a] = NoTransient
             /\ \A j \in i + 1 .. n :
                  entries[evms[i].target] = 1 =>
                    evms[j].snap.transient[evms[i].target] = state.transient[evms[i].target]
    BY <2>0 DEF TransientInv
  <2>3. CASE Parts
    BY <2>3 DEF Parts, TransientInv
  <2>4. ASSUME ~Idle
        PROVE  n \in 1 .. n /\ TopLocals = locals[n] /\ TopLocals \in LocalTables
    BY <2>1, <2>4, TopFacts, LocalsTopFacts DEF TablesOK, TopLocals
  \* An opcode that writes no transient storage.
  <2>5. ASSUME FramesKept, UNCHANGED entries, ~Idle, NEW l, Edited(locals, locals', l),
               l.transient = TopLocals.transient, state'.transient = state.transient
        PROVE  TransientInv'
    <3>1. \A i \in 1 .. n : locals'[i].transient = locals[i].transient
      <4>1. locals'[n] = l /\ \A i \in 1 .. n - 1 : locals'[i] = locals[i]
        BY <2>1, <2>5 DEF Edited
      <4>2. \A i \in 1 .. n : i = n \/ i \in 1 .. n - 1
        BY <2>1
      <4> QED  BY <2>4, <2>5, <4>1, <4>2
    <3>2. Len(evms') = n /\ IdsKept(n)
      BY <2>5 DEF FramesKept
    <3> QED  BY <2>0, <2>1, <2>2, <2>5, <3>1, <3>2, TransientWithNoneOpened
  <2>6. CASE Wrote
    <3>1. FramesKept /\ ~Idle /\ UNCHANGED entries
      BY <2>0, <2>6, LockstepShapes DEF Wrote, BothRunning
    <3>2. CASE Edited(locals, locals', TopLocals) /\ TablesKept(state, state')
      BY <2>5, <3>1, <3>2 DEF TablesKept
    <3>3. ASSUME NEW s \in Slots, NEW w \in Words,
                 Edited(locals, locals', [TopLocals EXCEPT !.transient[s] = w]),
                 state' = [state EXCEPT !.transient[Ref!Top.target][s] = w]
          PROVE  TransientInv'
      BY <2>0, <3>1, <3>3, TransientWritten DEF FramesKept
    <3>4. ASSUME NEW d \in Data,
                 Edited(locals, locals', [TopLocals EXCEPT !.logs = Append(@, d)]),
                 state' = [state EXCEPT !.logs = Append(@, <<Ref!Top.target, d>>)]
          PROVE  TransientInv'
      <4> DEFINE l == [TopLocals EXCEPT !.logs = Append(@, d)]
      <4>1. l.transient = TopLocals.transient
        BY <2>4, <3>1 DEF LocalTables
      <4>2. state'.transient = state.transient
        BY <2>1, <3>4 DEF RefStates
      <4>3. Edited(locals, locals', l)
        BY <3>4
      <4> HIDE DEF l
      <4> QED  BY <2>5, <3>1, <4>1, <4>2, <4>3
    <3> QED  BY <2>6, <3>2, <3>3, <3>4 DEF Wrote
  <2>7. ASSUME NEW f, NEW e, BothHalted(f, e)
        PROVE  TransientInv'
    <3>1. FramesKept
      BY <2>0, <2>7, LockstepShapes
    <3> QED  BY <2>5, <2>7, <3>1 DEF BothHalted, BothEdited, BothRunning, TablesKept
  <2>8. ASSUME NEW f, NEW e, NEW k, BothTold(f, e, k)
        PROVE  TransientInv'
    <3>1. FramesKept /\ ~Idle
      BY <2>0, <2>8, LockstepShapes DEF BothTold, BothEdited, BothRunning
    <3> DEFINE l == [TopLocals EXCEPT !.last = k]
    <3>2. l.transient = TopLocals.transient
      BY <2>4, <3>1 DEF LocalTables
    <3>3. Edited(locals, locals', l)
      BY <2>8 DEF BothTold, BothEdited
    <3> HIDE DEF l
    <3> QED  BY <2>5, <2>8, <3>1, <3>2, <3>3 DEF BothTold, BothEdited, TablesKept
  <2>9. ASSUME NEW f, NEW e, NEW kind, BothInside(f, e, kind)
        PROVE  TransientInv'
    <3>1. FrameOpened(e)
      BY <2>0, <2>9, LockstepShapes
    <3> QED  BY <2>0, <2>9, <3>1, TransientOpened
  \* The end of a frame: a rollback returns to a snapshot that has what the others wrote.
  <2>10. ASSUME NEW f, NEW e, Closed(f, e), UNCHANGED entries
         PROVE  TransientInv'
    <3> DEFINE m == n - 1
    <3>1. Len(evms') = m /\ IdsKept(m) /\ n >= 2
      BY <2>0, <2>10, LockstepShapes DEF FrameClosed
    <3>2. /\ m \in Nat /\ m <= n /\ m \in 1 .. m /\ n \in 1 .. n
          /\ \A i \in 1 .. m : i \in 1 .. n /\ n \in i + 1 .. n /\ (i = m \/ i \in 1 .. m - 1)
      BY <2>1, <3>1
    <3>3. \A i \in 1 .. m : locals'[i].transient = locals[i].transient
      <4>1. locals'[m] = locals[m] /\ \A i \in 1 .. m - 1 : locals'[i] = locals[i]
        BY <2>1, <2>10 DEF Closed, Shrunk
      <4> QED  BY <3>2, <4>1
    <3>4. Ref!Top = evms[n] /\ Ref!Top \in RefFrames
      BY <2>0, <2>10, RefTopFacts, SameLength DEF Ref!Top, Closed
    <3>5. \/ state'.transient = state.transient
          \/ state'.transient = Ref!Top.snap.transient
      BY <2>1, <2>10 DEF Closed, RefStates
    <3> HIDE DEF m
    <3>6. \A a \in Addrs : entries[a] = 0 => state'.transient[a] = NoTransient
      BY <2>2, <3>2, <3>4, <3>5
    <3>7. ASSUME NEW i \in 1 .. m, entries[evms[i].target] = 1
          PROVE  state'.transient[evms[i].target] = state.transient[evms[i].target]
      <4>1. i \in 1 .. n /\ n \in i + 1 .. n
        BY <3>2
      <4>2. evms[n].snap.transient[evms[i].target] = state.transient[evms[i].target]
        BY <2>2, <3>7, <4>1
      <4> QED  BY <3>4, <3>5, <4>2
    <3> QED  BY <2>0, <2>1, <2>10, <3>1, <3>2, <3>3, <3>6, <3>7, TransientWithNoneOpened
  <2>11. ASSUME Ended, UNCHANGED entries
         PROVE  TransientInv'
    <3>1. Len(evms') = 0
      BY <2>0, <2>11, LockstepShapes
    <3>2. /\ Ref!Top = evms[n] /\ n \in 1 .. n
          /\ Ref!Top.snap \in RefStates
      BY <2>11, RefTopFacts DEF Ref!Top, Ended, RefFrames
    <3>3. state'.transient = state.transient \/ state'.transient = Ref!Top.snap.transient
      BY <2>1, <2>11, <3>2 DEF Ended, Ref!Destroyed, RefStates
    <3>4. \A a \in Addrs : entries[a] = 0 => state'.transient[a] = NoTransient
      BY <2>2, <3>2, <3>3
    <3> QED  BY <2>11, <3>1, <3>4 DEF TransientInv, NoTransient
  <2>12. ASSUME NEW a, BothStart(a)
         PROVE  TransientInv'
    <3>1. PICK e : /\ evms' = <<e>> /\ e.target = a /\ e.snap = state /\ state' = state
                   /\ locals' = <<NewLocals>>
      BY <2>12 DEF BothStart
    <3>2. Len(evms') = 1 /\ evms'[1] = e /\ locals'[1] = NewLocals /\ a \in Addrs
      BY <2>12, <3>1 DEF BothStart
    <3>3. /\ \A x \in Addrs : entries'[x] = 0 => entries[x] = 0
          /\ entries'[a] >= 1
          /\ entries'[a] = 1 => entries[a] = 0
      BY <2>12, EnteredTyped DEF BothStart, TablesOK
    <3>4. 1 + 1 .. 1 = {} /\ \A i, j \in 1 .. 1 : i = j /\ i = 1
      OBVIOUS
    <3>5. entries'[a] = 1 => locals'[1].transient = state'.transient[a]
      BY <2>2, <3>1, <3>2, <3>3 DEF NewLocals, NoTransient
    <3>6. \A x \in Addrs : entries'[x] = 0 => state'.transient[x] = NoTransient
      BY <2>2, <3>1, <3>3
    <3>7. ASSUME NEW i \in 1 .. 1
          PROVE  /\ entries'[evms'[i].target] >= 1
                 /\ \A j \in 1 .. 1 :
                      i # j /\ evms'[i].target = evms'[j].target => entries'[evms'[i].target] = 2
                 /\ \A x \in Addrs : entries'[x] = 0 => evms'[i].snap.transient[x] = NoTransient
                 /\ i + 1 .. 1 = {}
                 /\ entries'[evms'[i].target] = 1 =>
                      locals'[i].transient = state'.transient[evms'[i].target]
      <4>1. i = 1
        OBVIOUS
      <4>2. evms'[i].target = a /\ evms'[i].snap = state
        BY <3>1, <3>2, <4>1
      <4>3. \A x \in Addrs : entries'[x] = 0 => state.transient[x] = NoTransient
        BY <2>2, <3>3
      <4>4. i + 1 .. 1 = {} /\ \A j \in 1 .. 1 : i = j
        BY <4>1
      <4> QED  BY <3>3, <3>5, <4>1, <4>2, <4>3, <4>4
    <3> QED  BY <3>2, <3>6, <3>7 DEF TransientInv, NoTransient
  <2> QED
    BY <2>0, <2>3, <2>6, <2>7, <2>8, <2>9, <2>10, <2>11, <2>12 DEF Lockstep
<1> QED  BY <1>1, <1>2

\* A frame whose account has no other frame in this call reads the transient storage that
\* the reference would give it, whatever reverted in between (evm.lua:560, 1237-1250).
THEOREM LoneFramesReadTheirTransient == BothSpec => []TransientAgreesWithoutReentry
<1>1. BothInit => TransientInv
  <2> SUFFICES ASSUME BothInit PROVE TransientInv
    OBVIOUS
  <2>1. Len(evms) = 0
    BY EmptySeq DEF BothInit
  <2>2. \A a \in Addrs : state.transient[a] = NoTransient
    BY DEF BothInit, Ref!InitialState, NoTransient
  <2> QED  BY <2>1, <2>2 DEF TransientInv
<1>2. TypeOK /\ RefOK /\ TablesOK /\ CodesInv /\ TransientInv /\ [BothNext]_bothVars => TransientInv'
  BY TransientStep
<1>3. TransientInv /\ TypeOK /\ RefOK => TransientAgreesWithoutReentry
  <2> SUFFICES ASSUME TransientInv, TypeOK, RefOK, SameShape, NEW i \in 1 .. Len(frames),
                      entries[evms[i].target] = 1, NEW s \in Slots
               PROVE  locals[i].transient[s] = Ref!TLoad(evms[i].target, s)
    BY DEF TransientAgreesWithoutReentry
  <2>1. i \in 1 .. Len(evms)
    BY SameLength
  <2> QED  BY <2>1 DEF TransientInv, Ref!TLoad
<1> QED  BY <1>1, <1>2, <1>3, BothTyped, CodesAlways, PTL DEF BothSpec

------------------------------------------------------------------------------
(***************************************************************************)
(* Logs.  The frame that runs has opened no other yet, or its last sub-    *)
(* frame left a mark on its tables; so what is between the snapshot it     *)
(* began with and the state is its own.                                    *)
(***************************************************************************)
Records(mine, before, all) ==
  /\ Len(all) = Len(before) + Len(mine)
  /\ \A i \in 1 .. Len(mine) : mine[i] = all[Len(before) + i][2]

LogsInv ==
  SameShape /\ frames # <<>> /\ TopLocals.last = "none" =>
    Records(TopLocals.logs, Ref!Top.snap.logs, state.logs)

LEMMA RecordsAppended ==
  ASSUME NEW mine \in Seq(Data), NEW before \in Seq(Addrs \X Data), NEW all \in Seq(Addrs \X Data),
         Records(mine, before, all), NEW a \in Addrs, NEW d \in Data
  PROVE  Records(Append(mine, d), before, Append(all, <<a, d>>))
<1> DEFINE m == Len(mine)
           b == Len(before)
           more == Append(mine, d)
           most == Append(all, <<a, d>>)
<1>1. m \in Nat /\ b \in Nat /\ Len(all) = b + m
  BY LenProperties DEF Records
<1>2. /\ Len(more) = m + 1 /\ more[m + 1] = d /\ \A i \in 1 .. m : more[i] = mine[i]
      /\ Len(most) = (b + m) + 1 /\ most[(b + m) + 1] = <<a, d>>
      /\ \A i \in 1 .. b + m : most[i] = all[i]
  <2>1. /\ Len(more) = m + 1 /\ more[m + 1] = d /\ \A i \in 1 .. m : more[i] = mine[i]
    BY AppendProperties
  <2>2. <<a, d>> \in Addrs \X Data
    OBVIOUS
  <2>3. /\ Len(most) = Len(all) + 1 /\ most[Len(all) + 1] = <<a, d>>
        /\ \A i \in 1 .. Len(all) : most[i] = all[i]
    BY <2>2, AppendProperties
  <2> QED  BY <1>1, <2>1, <2>3
<1> HIDE DEF more, most, m, b
<1>3. \A i \in 1 .. m : mine[i] = all[b + i][2]
  BY DEF Records, m, b
<1>4. ASSUME NEW i \in 1 .. m + 1
      PROVE  more[i] = most[b + i][2]
  <2>1. CASE i = m + 1
    <3>1. b + i = (b + m) + 1
      BY <1>1, <2>1
    <3> QED  BY <1>2, <2>1, <3>1
  <2>2. CASE i # m + 1
    <3>1. i \in 1 .. m /\ b + i \in 1 .. b + m
      BY <1>1, <2>2
    <3> QED  BY <1>2, <1>3, <3>1
  <2> QED  BY <2>1, <2>2
<1>5. Len(most) = b + Len(more)
  BY <1>1, <1>2
<1> QED  BY <1>2, <1>4, <1>5 DEF Records, more, most, b

LEMMA RecordsNone ==
  ASSUME NEW all \in Seq(Addrs \X Data)
  PROVE  Records(<<>>, all, all)
BY LenProperties DEF Records

LEMMA RecordsRead ==
  ASSUME NEW mine \in Seq(Data), NEW before \in Seq(Addrs \X Data), NEW all \in Seq(Addrs \X Data),
         Records(mine, before, all)
  PROVE  /\ Len(SubSeq(all, Len(before) + 1, Len(all))) = Len(mine)
         /\ \A i \in 1 .. Len(mine) : SubSeq(all, Len(before) + 1, Len(all))[i][2] = mine[i]
<1> DEFINE m == Len(mine)
           b == Len(before)
           since == SubSeq(all, b + 1, Len(all))
<1>1. m \in Nat /\ b \in Nat /\ Len(all) = b + m
  BY LenProperties DEF Records
<1>2. \A i \in b + 1 .. b + m : all[i] \in Addrs \X Data
  <2>1. \A i \in b + 1 .. b + m : i \in 1 .. Len(all)
    BY <1>1
  <2> QED  BY <2>1, ElementOfSeq
<1>3. since = SubSeq(all, b + 1, b + m)
  BY <1>1
<1> HIDE DEF m, b, since
<1>4. Len(since) = m /\ \A i \in 1 .. m : since[i] = all[b + i]
  <2> DEFINE lo == b + 1
             hi == b + m
             S  == Addrs \X Data
  <2>1. /\ lo \in Int /\ hi \in Int /\ hi - lo + 1 = m /\ (lo <= hi <=> m # 0)
        /\ \A i \in 1 .. m : lo + i - 1 = b + i
    BY <1>1
  <2>2. since = SubSeq(all, lo, hi) /\ \A i \in lo .. hi : all[i] \in S
    BY <1>2, <1>3
  <2> HIDE DEF lo, hi, S
  <2>3. /\ Len(since) = IF lo <= hi THEN hi - lo + 1 ELSE 0
        /\ \A i \in 1 .. hi - lo + 1 : since[i] = all[lo + i - 1]
    BY <2>1, <2>2, SubSeqProperties
  <2> QED  BY <2>1, <2>3
<1>5. ASSUME NEW i \in 1 .. m
      PROVE  mine[i] = since[i][2]
  <2>1. since[i] = all[b + i]
    BY <1>4
  <2> QED  BY <2>1 DEF Records, m, b
<1> QED  BY <1>4, <1>5 DEF since, b, m

LEMMA LogsStep ==
  ASSUME TypeOK, RefOK, TablesOK, CodesInv, DataInv, LogsInv, [BothNext]_bothVars
  PROVE  LogsInv'
<1>1. CASE UNCHANGED bothVars
  BY <1>1 DEF bothVars, vars, refVars, LogsInv, SameShape, SameFrame, TopLocals, Ref!Top, Records
<1>2. CASE ~UNCHANGED bothVars
  <2>0. SameShape /\ (Lockstep \/ Parts)
    BY <1>2, StepsInStep DEF CodesInv
  <2>1. CASE Parts
    BY <2>1 DEF Parts, LogsInv
  <2>2. ASSUME ~Idle
        PROVE  /\ Len(locals) \in Nat \ {0} /\ TopLocals \in LocalTables
               /\ Ref!Top.snap \in RefStates /\ Ref!Top.target \in Addrs
               /\ state \in RefStates /\ frames # <<>>
    BY <2>0, <2>2, LocalsTopFacts, TopFacts, RefTopFacts, SameLength DEF TablesOK, RefFrames, RefOK
  \* An opcode of the innermost frames: their tables are l afterwards.
  <2>3. ASSUME ~Idle, NEW e, Edited(evms, evms', e), e.snap = Ref!Top.snap,
               NEW l, Edited(locals, locals', l),
               l.last = "none" => Records(l.logs, Ref!Top.snap.logs, state'.logs)
        PROVE  LogsInv'
    <3>1. Ref!Top' = e
      BY <2>0, <2>3, TopsAfter
    <3>2. TopLocals' = l
      BY <2>3 DEF Edited, TopLocals
    <3> QED  BY <2>3, <3>1, <3>2 DEF LogsInv, Records
  <2>4. CASE Wrote
    <3>1. ~Idle /\ Edited(evms, evms', Ref!Top)
      BY <2>4 DEF Wrote, BothRunning
    <3>2. TopLocals.last = "none" => Records(TopLocals.logs, Ref!Top.snap.logs, state.logs)
      BY <2>0, <2>2, <3>1 DEF LogsInv
    <3>3. CASE Edited(locals, locals', TopLocals) /\ TablesKept(state, state')
      BY <2>3, <3>1, <3>2, <3>3 DEF TablesKept
    <3>4. ASSUME NEW s \in Slots, NEW w \in Words,
                 Edited(locals, locals', [TopLocals EXCEPT !.transient[s] = w]),
                 state' = [state EXCEPT !.transient[Ref!Top.target][s] = w]
          PROVE  LogsInv'
      <4> DEFINE l == [TopLocals EXCEPT !.transient[s] = w]
      <4>1. l.last = TopLocals.last /\ l.logs = TopLocals.logs
        BY <2>2, <3>1 DEF LocalTables
      <4>2. state'.logs = state.logs
        BY <2>2, <3>1, <3>4 DEF RefStates
      <4>3. Edited(locals, locals', l)
        BY <3>4
      <4> HIDE DEF l
      <4> QED  BY <2>3, <3>1, <3>2, <4>1, <4>2, <4>3
    <3>5. ASSUME NEW d \in Data,
                 Edited(locals, locals', [TopLocals EXCEPT !.logs = Append(@, d)]),
                 state' = [state EXCEPT !.logs = Append(@, <<Ref!Top.target, d>>)]
          PROVE  LogsInv'
      <4> DEFINE l == [TopLocals EXCEPT !.logs = Append(@, d)]
      <4>1. l.last = TopLocals.last /\ l.logs = Append(TopLocals.logs, d)
        BY <2>2, <3>1 DEF LocalTables
      <4>2. state'.logs = Append(state.logs, <<Ref!Top.target, d>>)
        BY <2>2, <3>1, <3>5 DEF RefStates
      <4>3. Edited(locals, locals', l)
        BY <3>5
      <4> HIDE DEF l
      <4>4. /\ TopLocals.logs \in Seq(Data) /\ Ref!Top.snap.logs \in Seq(Addrs \X Data)
            /\ state.logs \in Seq(Addrs \X Data) /\ Ref!Top.target \in Addrs
        BY <2>2, <3>1 DEF LocalTables, RefStates
      <4>5. l.last = "none" => Records(l.logs, Ref!Top.snap.logs, state'.logs)
        BY <3>2, <4>1, <4>2, <4>4, RecordsAppended
      <4> QED  BY <2>3, <3>1, <4>3, <4>5
    <3> QED  BY <2>4, <3>3, <3>4, <3>5 DEF Wrote
  <2>5. ASSUME NEW f, NEW e, BothHalted(f, e)
        PROVE  LogsInv'
    <3>1. ~Idle
      BY <2>5 DEF BothHalted, BothEdited, BothRunning
    <3>2. TopLocals.last = "none" => Records(TopLocals.logs, Ref!Top.snap.logs, state.logs)
      BY <2>0, <2>2, <3>1 DEF LogsInv
    <3> QED  BY <2>3, <2>5, <3>1, <3>2 DEF BothHalted, BothEdited, TablesKept
  <2>6. ASSUME NEW f, NEW e, NEW k, BothTold(f, e, k)
        PROVE  LogsInv'
    <3> DEFINE l == [TopLocals EXCEPT !.last = k]
    <3>1. ~Idle /\ l.last = k /\ k # "none"
      BY <2>2, <2>6 DEF BothTold, BothEdited, BothRunning, LocalTables
    <3>2. Edited(locals, locals', l)
      BY <2>6 DEF BothTold, BothEdited
    <3> HIDE DEF l
    <3> QED  BY <2>3, <2>6, <3>1, <3>2 DEF BothTold, BothEdited
  <2>7. ASSUME NEW f, NEW e, NEW kind, BothInside(f, e, kind)
        PROVE  LogsInv'
    <3>1. ~Idle /\ e.snap.logs = state.logs /\ state'.logs = state.logs
      BY <2>7 DEF BothInside, BothRunning, Begins, TablesKept
    <3>2. Len(locals) \in Nat /\ Len(evms) \in Nat
      BY <2>0, <2>2, <3>1, SameLength
    <3>3. Ref!Top' = e /\ TopLocals' = NewLocals
      BY <2>7, <3>2 DEF BothInside, Grown, Ref!Top, TopLocals
    <3>4. Records(<<>>, state.logs, state.logs)
      BY <2>2, <3>1, RecordsNone DEF RefStates
    <3> QED  BY <3>1, <3>3, <3>4 DEF LogsInv, NewLocals, Records
  \* The frame below was told of a sub-frame.
  <2>8. ASSUME NEW f, NEW e, Closed(f, e)
        PROVE  LogsInv'
    <3> DEFINE n == Len(frames)
    <3>1. /\ n \in Nat /\ n >= 2 /\ n - 1 \in 1 .. n - 1 /\ (n - 1) + 1 = n
          /\ Len(locals) = n /\ ~Idle
      BY <2>0, <2>8, SameLength DEF Closed, Shrunk, TablesOK, LocalsOK
    <3>2. TopLocals' = locals[n - 1]
      BY <2>8, <3>1 DEF Closed, Shrunk, TopLocals
    <3>3. locals[n - 1].last = Last(frames[n].kind)
      BY <2>0, <3>1 DEF DataInv
    <3> QED  BY <3>2, <3>3 DEF LogsInv, Last
  <2>9. CASE Ended
    BY <2>9 DEF Ended, LogsInv
  <2>10. ASSUME NEW a, BothStart(a)
         PROVE  LogsInv'
    <3>1. PICK e : /\ evms' = <<e>> /\ e.snap = state /\ state' = state /\ locals' = <<NewLocals>>
      BY <2>10 DEF BothStart
    <3>2. Ref!Top' = e /\ TopLocals' = NewLocals
      BY <3>1 DEF Ref!Top, TopLocals
    <3>3. Records(<<>>, state.logs, state.logs)
      BY RecordsNone DEF RefOK, RefStates
    <3> QED  BY <3>1, <3>2, <3>3 DEF LogsInv, NewLocals, Records
  <2> QED
    BY <2>0, <2>1, <2>4, <2>5, <2>6, <2>7, <2>8, <2>9, <2>10 DEF Lockstep
<1> QED  BY <1>1, <1>2

\* A frame that opened no other has logged exactly what the reference has recorded for it
\* since it began, in that order, at any depth (evm.lua:1642-1714).
THEOREM LeavesLogAlike == BothSpec => []LeafLogsAgree
<1>1. BothInit => LogsInv
  BY DEF BothInit, Init, LogsInv
<1>2. TypeOK /\ RefOK /\ TablesOK /\ CodesInv /\ DataInv /\ LogsInv /\ [BothNext]_bothVars
        => LogsInv'
  BY LogsStep
<1>3. TypeOK /\ RefOK /\ TablesOK /\ LogsInv => LeafLogsAgree
  <2> SUFFICES ASSUME TypeOK, RefOK, TablesOK, LogsInv, SameShape, frames # <<>>,
                      TopLocals.last = "none"
               PROVE  LET before == Len(Ref!Top.snap.logs)
                          since  == SubSeq(state.logs, before + 1, Len(state.logs))
                      IN  TopLocals.logs = [i \in 1 .. Len(since) |-> since[i][2]]
    BY DEF LeafLogsAgree
  <2>1. ~Idle
    BY DEF Idle
  <2>2. /\ TopLocals.logs \in Seq(Data) /\ Ref!Top.snap.logs \in Seq(Addrs \X Data)
        /\ state.logs \in Seq(Addrs \X Data)
    BY <2>1, LocalsTopFacts, TopFacts, RefTopFacts, SameLength
      DEF TablesOK, LocalTables, RefFrames, RefOK, RefStates
  <2>3. Records(TopLocals.logs, Ref!Top.snap.logs, state.logs)
    BY DEF LogsInv
  <2> DEFINE mine   == TopLocals.logs
             before == Ref!Top.snap.logs
             all    == state.logs
             since  == SubSeq(all, Len(before) + 1, Len(all))
  <2> HIDE DEF mine, before, all
  <2>4. /\ mine \in Seq(Data) /\ before \in Seq(Addrs \X Data) /\ all \in Seq(Addrs \X Data)
        /\ Records(mine, before, all)
    BY <2>2, <2>3 DEF mine, before, all
  <2>5. Len(since) = Len(mine) /\ \A i \in 1 .. Len(mine) : since[i][2] = mine[i]
    BY <2>4, RecordsRead
  <2>6. mine = [i \in 1 .. Len(mine) |-> mine[i]]
    BY <2>4, LenProperties
  <2> HIDE DEF since
  <2>7. mine = [i \in 1 .. Len(since) |-> since[i][2]]
    BY <2>5, <2>6
  <2> QED  BY <2>7 DEF mine, before, all, since
<1> QED  BY <1>1, <1>2, <1>3, BothTyped, CodesAlways, DataAlways, PTL DEF BothSpec

===============================================================================
