--------------------------- MODULE RedisHostProofs ---------------------------
(***************************************************************************)
(* Theorems about RedisHost, for any number of sweeps, any fixtures and    *)
(* any context keys: the shape of its state, and that a test which nobody  *)
(* interfered with passes exactly if it has a post state.                  *)
(***************************************************************************)
EXTENDS RedisHost, SequenceTheorems, TLAPS

LEMMA FixtureFacts ==
  ASSUME NEW t \in Tests
  PROVE  /\ t = <<t[1], t[2]>>
         /\ t[1] \in Runners /\ t[2] \in Nat /\ t[2] \in 1 .. Len(Fixtures[t[1]])
         /\ t # None
         /\ Fixture(t).sets \subseteq Fields
         /\ Fixture(t).ends \in Outcomes
<1>1. PICK r \in Runners : t \in {r} \X DOMAIN Fixtures[r]
  BY DEF Tests
<1>2. Fixtures[r] \in Seq([sets : SUBSET Fields, ends : Outcomes])
  BY FixturesAssumption
<1>3. DOMAIN Fixtures[r] = 1 .. Len(Fixtures[r]) /\ Len(Fixtures[r]) \in Nat
  BY <1>2
<1>4. Fixtures[r][t[2]] \in [sets : SUBSET Fields, ends : Outcomes]
  <2> DEFINE S == [sets : SUBSET Fields, ends : Outcomes]
  <2>1. t[2] \in 1 .. Len(Fixtures[r]) /\ Fixtures[r] \in Seq(S)
    BY <1>1, <1>2, <1>3
  <2> HIDE DEF S
  <2>2. Fixtures[r][t[2]] \in S
    BY <2>1, ElementOfSeq
  <2> QED  BY <2>2 DEF S
<1>5. t = <<r, t[2]>> /\ t[2] \in 1 .. Len(Fixtures[r])
  BY <1>1, <1>3
<1> QED  BY <1>3, <1>4, <1>5, FixturesAssumption DEF Fixture

\* A call is not confused with none.
LEMMA CallFacts ==
  ASSUME NEW c \in Calls
  PROVE  /\ c # Idle
         /\ c.by \in Tests /\ c.runs \in Tests
         /\ DOMAIN c.seen \subseteq Fields
         /\ c.seen \in [DOMAIN c.seen -> Reads]
         /\ c = [by |-> c.by, runs |-> c.runs, seen |-> c.seen]
<1>1. c.by # None
  BY FixtureFacts DEF Calls
<1>2. c # Idle
  BY <1>1 DEF Idle
<1> QED  BY <1>2 DEF Calls

\* The test after a runner's current one.
LEMMA NextTestFacts ==
  ASSUME TypeOK, NEW r \in Runners, NextTest(r)
  PROVE  /\ pc' \in [Runners -> Labels] /\ test' \in [Runners -> Nat]
         /\ \A o \in Runners : Current(o)' \in Tests
         /\ answer' \in [Runners -> Answers]
         /\ verdict' \in [Runners -> {"none", "pass", "fail"}]
<1>1. Current(r) \in Tests /\ test[r] \in Nat
  BY DEF TypeOK
<1>2. test[r] \in 1 .. Len(Fixtures[r]) /\ Fixtures[r] \in Seq([sets : SUBSET Fields, ends : Outcomes])
  <2>1. Current(r)[1] = r /\ Current(r)[2] = test[r]
    BY DEF Current
  <2> QED  BY <1>1, <2>1, FixtureFacts, FixturesAssumption
<1>3. ASSUME test[r] < Len(Fixtures[r])
      PROVE  <<r, test[r] + 1>> \in Tests
  <2>1. test[r] + 1 \in DOMAIN Fixtures[r]
    BY <1>2, <1>3
  <2> QED  BY <2>1 DEF Tests
<1>4. /\ test' \in [Runners -> Nat]
      /\ \A o \in Runners : Current(o)' \in Tests
  <2>1. test \in [Runners -> Nat] /\ \A o \in Runners : <<o, test[o]>> \in Tests
    BY DEF TypeOK, Current
  <2>2. CASE test[r] < Len(Fixtures[r])
    BY <1>3, <2>1, <2>2, SMTT(30) DEF NextTest, Current
  <2>3. CASE ~(test[r] < Len(Fixtures[r]))
    BY <2>1, <2>3 DEF NextTest, Current
  <2> QED  BY <2>2, <2>3
<1> QED  BY <1>4 DEF NextTest, Goto, TypeOK, Labels, Answers

LEMMA InitTypeOK == Init => TypeOK
<1> SUFFICES ASSUME Init PROVE TypeOK
  OBVIOUS
<1>1. Unset \in [Keys -> Reads] /\ dump \in Dumps
  BY DEF Init, Unset, Reads, Dumps, Slot
<1>2. ASSUME NEW r \in Runners
      PROVE  <<r, 1>> \in Tests
  <2>1. Len(Fixtures[r]) \in Nat \ {0} /\ DOMAIN Fixtures[r] = 1 .. Len(Fixtures[r])
    BY FixturesAssumption, EmptySeq, LenProperties
  <2> QED  BY <2>1 DEF Tests
<1>3. \A r \in Runners : Current(r) \in Tests
  BY <1>2 DEF Init, Current
<1> QED  BY <1>1, <1>3 DEF Init, TypeOK, Labels, Answers, Slot

\* A key is set to a test, or every key is unset.
LEMMA CommandTypeOK ==
  ASSUME TypeOK, NEW r, NEW d \in [Keys -> Reads], NEW s \in Slot, Command(r, d, s)
  PROVE  /\ db' \in [Keys -> Reads] /\ slot' \in Slot
         /\ UNCHANGED <<up, loaded, dump, running, inbox>>
         /\ r \in Runners => disturbed' \subseteq Runners
BY DEF Command, TypeOK, Disturbs, Refused, data

LEMMA RunnerTypeOK ==
  ASSUME TypeOK, NEW r \in Runners, RunnerStep(r)
  PROVE  TypeOK'
<1>1. CASE Flush(r)
  <2>1. Unset \in [Keys -> Reads] /\ None \in Slot
    BY DEF Unset, Reads, Slot
  <2>2. Fixture(Current(r)).sets \subseteq Fields
    BY FixtureFacts DEF TypeOK
  <2>3. disturbed' \subseteq Runners
    BY <1>1 DEF Flush, Refused, TypeOK
  <2>4. db' \in [Keys -> Reads] /\ slot' \in Slot
    BY <1>1, <2>1 DEF Flush, TypeOK, data
  <2> QED  BY <1>1, <2>2, <2>3, <2>4 DEF Flush, Goto, TypeOK, Current, Labels
<1>2. ASSUME NEW f \in Fields, SetField(r, f)
      PROVE  TypeOK'
  <2>1. [db EXCEPT ![f] = Current(r)] \in [Keys -> Reads] /\ slot \in Slot
    BY DEF TypeOK, Reads
  <2>2. Command(r, [db EXCEPT ![f] = Current(r)], slot)
    BY <1>2 DEF SetField
  <2>3. /\ db' \in [Keys -> Reads] /\ slot' \in Slot
        /\ UNCHANGED <<up, loaded, dump, running, inbox>>
        /\ disturbed' \subseteq Runners
    BY <2>1, <2>2, CommandTypeOK
  <2> QED  BY <1>2, <2>3 DEF SetField, TypeOK, Current
<1>3. CASE SetCode(r)
  <2>1. [db EXCEPT ![Code] = Current(r)] \in [Keys -> Reads] /\ slot \in Slot
    BY DEF TypeOK, Reads
  <2>2. Command(r, [db EXCEPT ![Code] = Current(r)], slot)
    BY <1>3 DEF SetCode
  <2>3. /\ db' \in [Keys -> Reads] /\ slot' \in Slot
        /\ UNCHANGED <<up, loaded, dump, running, inbox>>
        /\ disturbed' \subseteq Runners
    BY <2>1, <2>2, CommandTypeOK
  <2> QED  BY <1>3, <2>3 DEF SetCode, Goto, TypeOK, Current, Labels
<1>4. CASE Ask(r)
  <2>1. disturbed' \subseteq Runners
    BY <1>4 DEF Ask, Refused, TypeOK
  <2> QED  BY <1>4, <2>1 DEF Ask, Goto, data, TypeOK, Current, Labels, Answers
<1>6. CASE Judge(r)
  <2>1. disturbed' \subseteq Runners
    BY <1>6 DEF Judge, Disturbs, Refused, TypeOK
  <2>2. verdict' \in [Runners -> {"none", "pass", "fail"}]
    BY <1>6 DEF Judge, TypeOK
  <2> QED  BY <1>6, <2>1, <2>2 DEF Judge, Goto, server, data, TypeOK, Current, Labels
<1>7. CASE Ping(r)
  <2>1. disturbed' \subseteq Runners
    BY <1>7 DEF Ping, Refused, TypeOK
  <2>2. CASE NextTest(r)
    BY <1>7, <2>1, <2>2, NextTestFacts DEF Ping, server, data, TypeOK
  <2>3. CASE ~NextTest(r)
    BY <1>7, <2>1, <2>3 DEF Ping, Goto, server, data, TypeOK, Current, Labels
  <2> QED  BY <2>2, <2>3
<1>8. CASE Shutdown(r)
  BY <1>8 DEF Shutdown, Goto, data, TypeOK, Current, Labels, Answers
<1>9. CASE StartServer(r)
  <2>1. db' \in [Keys -> Reads] /\ slot' \in Slot /\ loaded' \in BOOLEAN
    BY <1>9 DEF StartServer, data, TypeOK, Dumps
  <2> QED  BY <1>9, <2>1 DEF StartServer, Goto, TypeOK, Current, Labels
<1>10. CASE Load(r)
  <2>1. disturbed' \subseteq Runners
    BY <1>10 DEF Load, Disturbs, Refused, TypeOK
  <2>2. CASE NextTest(r)
    BY <1>10, <2>1, <2>2, NextTestFacts DEF Load, data, TypeOK
  <2>3. CASE ~NextTest(r)
    BY <1>10, <2>1, <2>3 DEF Load, Goto, data, TypeOK, Current, Labels
  <2> QED  BY <2>2, <2>3
<1> QED  BY <1>1, <1>2, <1>3, <1>4, <1>6, <1>7, <1>8, <1>9, <1>10 DEF RunnerStep

\* The answer to a call, whoever it was.
LEMMA AnsweredTypeOK ==
  ASSUME TypeOK, NEW t, NEW a \in Answers, Answered(t, a)
  PROVE  answer' \in [Runners -> Answers]
BY DEF Answered, TypeOK

LEMMA ServerTypeOK ==
  ASSUME TypeOK, ServerStep
  PROVE  TypeOK'
<1>0. {"ok", "ERR", "error"} \subseteq Answers
  BY DEF Answers
<1>1. ASSUME NEW t \in inbox, StartCall(t)
      PROVE  TypeOK'
  <2>1. disturbed' \subseteq Runners /\ t \in Tests
    BY <1>1 DEF StartCall, Disturbs, TypeOK
  <2>2. /\ answer' \in [Runners -> Answers]
        /\ running' = Idle \/ (running' \in Calls /\ up)
    <3>1. CASE loaded /\ db[Code] # None
      <4>1. db[Code] \in Tests
        BY <3>1 DEF TypeOK, Keys, Reads
      <4>2. [f \in {} |-> None] \in [{} -> Reads]
        OBVIOUS
      <4>3. [f \in {} |-> None] \in UNION {[fs -> Reads] : fs \in SUBSET Fields}
        BY <4>2
      <4>4. running' = [by |-> t, runs |-> db[Code], seen |-> [f \in {} |-> None]]
            /\ UNCHANGED answer /\ up
        BY <1>1, <3>1 DEF StartCall, Free
      <4>5. running' \in Calls
        BY <2>1, <4>1, <4>3, <4>4 DEF Calls
      <4> QED  BY <4>4, <4>5 DEF TypeOK
    <3>2. CASE ~(loaded /\ db[Code] # None)
      BY <1>0, <1>1, <3>2, AnsweredTypeOK DEF StartCall, TypeOK
    <3> QED  BY <3>1, <3>2
  <2> QED  BY <1>1, <2>1, <2>2 DEF StartCall, data, TypeOK, Current
<1>2. ASSUME NEW t \in inbox, Busy(t)
      PROVE  TypeOK'
  <2>1. t \in Tests /\ t[1] \in Runners
    BY FixtureFacts DEF TypeOK
  <2>2. disturbed' \subseteq Runners
    BY <1>2, <2>1 DEF Busy, Refused, TypeOK
  <2>3. answer' \in [Runners -> Answers]
    BY <1>0, <1>2, AnsweredTypeOK DEF Busy
  <2> QED  BY <1>2, <2>2, <2>3 DEF Busy, data, TypeOK, Current
<1>3. ASSUME NEW f \in Fields, ReadField(f)
      PROVE  TypeOK'
  <2>1. running \in Calls /\ up
    BY <1>3 DEF ReadField, TypeOK
  <2> DEFINE seen == [g \in DOMAIN running.seen \cup {f} |-> IF g = f THEN db[f] ELSE running.seen[g]]
  <2>2. running' = [by |-> running.by, runs |-> running.runs, seen |-> seen]
    BY <1>3, <2>1, CallFacts DEF ReadField
  <2>3. DOMAIN running.seen \cup {f} \subseteq Fields /\ seen \in [DOMAIN running.seen \cup {f} -> Reads]
    BY <2>1, CallFacts DEF TypeOK, Keys
  <2>4. seen \in UNION {[fs -> Reads] : fs \in SUBSET Fields}
    BY <2>3
  <2> HIDE DEF seen
  <2>5. running' \in Calls
    BY <2>1, <2>2, <2>4, CallFacts DEF Calls
  <2> QED  BY <1>3, <2>1, <2>5 DEF ReadField, data, runner, TypeOK, Current
<1>4. CASE EndCall
  <2>1. running \in Calls
    BY <1>4 DEF EndCall, TypeOK
  <2>2. slot' \in Slot
    BY <1>4, <2>1, CallFacts DEF EndCall, Slot
  <2>3. answer' \in [Runners -> Answers]
    BY <1>0, <1>4, AnsweredTypeOK DEF EndCall
  <2>4. disturbed' \subseteq Runners
    BY <1>4 DEF EndCall, Disturbs, TypeOK
  <2> QED  BY <1>4, <2>2, <2>3, <2>4 DEF EndCall, TypeOK, Current
<1> QED  BY <1>1, <1>2, <1>3, <1>4 DEF ServerStep, TakeUp, Proceed

LEMMA NextTypeOK == TypeOK /\ [Next]_vars => TypeOK'
<1> SUFFICES ASSUME TypeOK, [Next]_vars PROVE TypeOK'
  OBVIOUS
<1>1. CASE Save
  BY <1>1 DEF Save, Dumps, data, runner, TypeOK, Current
<1>2. CASE AllOver \/ UNCHANGED vars
  BY <1>2 DEF AllOver, vars, server, data, runner, TypeOK, Current
<1> QED  BY <1>1, <1>2, RunnerTypeOK, ServerTypeOK DEF Next

\* Type correctness; in particular a call never outlives the server, and no sweep runs past
\* its last test.
THEOREM HostTypeCorrect == Spec => []TypeOK
BY InitTypeOK, NextTypeOK, PTL DEF Spec

------------------------------------------------------------------------------
(***************************************************************************)
(* The strengthening of UndisturbedPassesHavePost.  Requests first: a      *)
(* sweep waits for as long as its request is in the inbox or running, so   *)
(* that the request is for its current test.                               *)
(***************************************************************************)
Pending(t) == t \in inbox \/ running.by = t

RequestsOK ==
  /\ \A t \in Tests : Pending(t) => t = Current(t[1]) /\ Waits(t[1])
  /\ running.by \notin inbox

(***************************************************************************)
(* Then what Redis holds while r is alone with it: the server serves r or  *)
(* nobody, the keys are those that r has set so far, a call of r reads     *)
(* them, and its answer is how the fixture ends.                           *)
(***************************************************************************)
Serving(r) == up /\ loaded /\ (running = Idle \/ running.by = Current(r))

SetSoFar(r) ==
  /\ todo[r] \subseteq Fixture(Current(r)).sets
  /\ \A f \in Fields :
       db[f] = IF f \in Fixture(Current(r)).sets \ todo[r] THEN Current(r) ELSE None

ContextSet(r) ==
  /\ \A f \in Fields : db[f] = OwnContext(Current(r))[f]
  /\ db[Code] = Current(r)

CallOK(r) ==
  /\ running.by = Current(r) =>
       /\ running.runs = Current(r)
       /\ \A f \in DOMAIN running.seen : running.seen[f] = OwnContext(Current(r))[f]

AnswerOK(r) ==
  /\ answer[r] = "ok" => HasPost(Current(r)) /\ slot = OwnContext(Current(r))
  /\ answer[r] = "ERR" => ~HasPost(Current(r))
  /\ answer[r] # "error"

VerdictOK(r) == verdict[r] = "pass" <=> HasPost(Current(r))

AloneOK(r) ==
  /\ pc[r] \in {"set", "call", "wait"} => Serving(r)
  /\ pc[r] = "set" => SetSoFar(r)
  /\ pc[r] \in {"call", "wait"} => ContextSet(r)
  /\ pc[r] = "wait" => CallOK(r) /\ AnswerOK(r)
  /\ pc[r] = "judged" => VerdictOK(r)

HostInv == RequestsOK /\ \A r \in Runners \ disturbed : AloneOK(r)

LEMMA CurrentFacts ==
  ASSUME TypeOK, NEW r \in Runners
  PROVE  /\ Current(r) \in Tests
         /\ Current(r)[1] = r /\ Current(r)[2] = test[r]
         /\ \A o \in Runners : Current(o) = Current(r) => o = r
BY DEF TypeOK, Current

\* A call in progress is somebody's, and nobody's test is called None.
LEMMA RunningFacts ==
  ASSUME TypeOK
  PROVE  /\ running = Idle => running.by = None /\ running.by \notin Tests
         /\ running # Idle => running \in Calls /\ running.by \in Tests /\ up
         /\ \A t \in Tests : running.by = t => running # Idle
<1>1. Idle.by = None /\ None \notin Tests
  BY FixtureFacts DEF Idle
<1> QED  BY <1>1, CallFacts DEF TypeOK

------------------------------------------------------------------------------
\* Steps that add no request, after which every sweep that waits still does.
LEMMA RequestsKept ==
  ASSUME TypeOK, RequestsOK,
         running'.by = running.by, inbox' \subseteq inbox,
         \A r \in Runners : Waits(r) => Waits(r)' /\ test'[r] = test[r]
  PROVE  RequestsOK'
<1>1. ASSUME NEW t \in Tests, Pending(t)'
      PROVE  t = Current(t[1])' /\ Waits(t[1])'
  <2>1. Pending(t) /\ t[1] \in Runners
    BY <1>1, FixtureFacts DEF Pending
  <2>2. t = Current(t[1]) /\ Waits(t[1])
    BY <2>1 DEF RequestsOK
  <2> QED  BY <2>1, <2>2 DEF Current
<1> QED  BY <1>1 DEF RequestsOK

\* A request is answered, and pending no more.
LEMMA RequestsAnswered ==
  ASSUME TypeOK, RequestsOK, NEW t \in Tests, Pending(t), NEW a, Answered(t, a),
         UNCHANGED <<pc, test>>,
         \A u \in Tests : Pending(u)' => Pending(u) /\ u # t,
         running'.by \notin inbox'
  PROVE  RequestsOK'
<1>1. ASSUME NEW u \in Tests, Pending(u)'
      PROVE  u = Current(u[1])' /\ Waits(u[1])'
  <2>1. u = Current(u[1]) /\ Waits(u[1]) /\ t = Current(t[1]) /\ u # t
    BY <1>1 DEF RequestsOK
  <2>2. u[1] # t[1] /\ u[1] \in Runners
    BY <2>1, FixtureFacts
  <2>3. answer'[u[1]] = answer[u[1]]
    BY <2>2 DEF Answered, TypeOK
  <2> QED  BY <2>1, <2>3 DEF Current, Waits
<1> QED  BY <1>1 DEF RequestsOK

\* On to the next test: the sweep did not wait.
LEMMA NextTestRequests ==
  ASSUME TypeOK, RequestsOK, NEW r \in Runners, NextTest(r),
         pc[r] # "wait", UNCHANGED <<running, inbox>>
  PROVE  RequestsOK'
<1>1. ASSUME NEW o \in Runners, Waits(o)
      PROVE  Waits(o)' /\ test'[o] = test[o]
  BY <1>1 DEF NextTest, Goto, Waits, TypeOK
<1> QED  BY <1>1, RequestsKept

LEMMA RequestsStep ==
  ASSUME TypeOK, RequestsOK, [Next]_vars
  PROVE  RequestsOK'
<1>0. pc \in [Runners -> Labels] /\ answer \in [Runners -> Answers] /\ inbox \subseteq Tests
  BY DEF TypeOK
<1>1. ASSUME NEW r \in Runners, RunnerStep(r)
      PROVE  RequestsOK'
  <2>1. CASE Flush(r)
    BY <1>0, <2>1, RequestsKept DEF Flush, Goto, Waits
  <2>2. ASSUME NEW f \in Fields, SetField(r, f)
        PROVE  RequestsOK'
    BY <2>2, RequestsKept DEF SetField, Command, Waits
  <2>3. CASE SetCode(r)
    BY <1>0, <2>3, RequestsKept DEF SetCode, Command, Goto, Waits
  <2>4. CASE Ask(r)
    <3>1. /\ pc[r] = "call" /\ pc' = [pc EXCEPT ![r] = "wait"]
          /\ UNCHANGED <<running, test>>
          /\ \A o \in Runners : o # r => answer'[o] = answer[o]
          /\ inbox' = inbox \/ (inbox' = inbox \cup {Current(r)} /\ answer'[r] = "none")
      BY <1>0, <2>4 DEF Ask, Goto
    <3>2. Current(r) \in Tests /\ Current(r)[1] = r /\ \A o \in Runners : Current(o)' = Current(o)
      BY <3>1, CurrentFacts DEF Current
    <3>3. ~Pending(Current(r))
      BY <3>1, <3>2 DEF RequestsOK, Waits
    <3>4. ASSUME NEW t \in Tests, Pending(t)'
          PROVE  t = Current(t[1])' /\ Waits(t[1])'
      <4>1. CASE t = Current(r)
        <5>1. answer'[r] = "none"
          BY <3>1, <3>3, <3>4, <4>1 DEF Pending
        <5> QED  BY <1>0, <3>1, <3>2, <4>1, <5>1 DEF Waits
      <4>2. CASE t # Current(r)
        <5>1. Pending(t) /\ t[1] \in Runners
          BY <3>1, <3>4, <4>2, FixtureFacts DEF Pending
        <5>2. t = Current(t[1]) /\ Waits(t[1])
          BY <5>1 DEF RequestsOK
        <5> QED  BY <1>0, <3>1, <3>2, <5>1, <5>2 DEF Waits
      <4> QED  BY <4>1, <4>2
    <3> QED  BY <3>1, <3>3, <3>4 DEF RequestsOK, Pending
  <2>6. CASE Judge(r)
    BY <1>0, <2>6, RequestsKept DEF Judge, Goto, server, Waits
  <2>7. CASE Ping(r)
    <3>1. CASE NextTest(r)
      BY <2>7, <3>1, NextTestRequests DEF Ping, server
    <3>2. CASE Goto(r, "stop") /\ UNCHANGED <<test, answer>>
      BY <1>0, <2>7, <3>2, RequestsKept DEF Ping, Goto, server, Waits
    <3> QED  BY <2>7, <3>1, <3>2 DEF Ping
  <2>8. CASE Shutdown(r)
    <3>1. running' = Idle /\ inbox' = {}
      BY <2>8 DEF Shutdown
    <3>2. \A t \in Tests : ~Pending(t)'
      BY <3>1, FixtureFacts DEF Pending, Idle
    <3> QED  BY <3>1, <3>2 DEF RequestsOK
  <2>9. CASE StartServer(r)
    BY <1>0, <2>9, RequestsKept DEF StartServer, Goto, Waits
  <2>10. CASE Load(r)
    <3>1. CASE NextTest(r)
      BY <2>10, <3>1, NextTestRequests DEF Load
    <3>2. CASE Goto(r, "crashed") /\ UNCHANGED <<test, answer>>
      BY <1>0, <2>10, <3>2, RequestsKept DEF Load, Goto, Waits
    <3> QED  BY <2>10, <3>1, <3>2 DEF Load
  <2> QED  BY <1>1, <2>1, <2>2, <2>3, <2>4, <2>6, <2>7, <2>8, <2>9, <2>10 DEF RunnerStep
<1>2. ASSUME NEW t \in inbox, StartCall(t)
      PROVE  RequestsOK'
  <2>1. /\ running = Idle /\ inbox' = inbox \ {t}
        /\ UNCHANGED <<pc, test>>
        /\ t \in Tests /\ Pending(t)
        /\ Idle.by \notin Tests
    BY <1>0, <1>2, FixtureFacts DEF StartCall, Free, Pending, Idle
  <2>2. CASE running' = running /\ Answered(t, "ERR")
    <3>1. \A u \in Tests : Pending(u)' => Pending(u) /\ u # t
      BY <2>1, <2>2 DEF Pending
    <3> QED  BY <1>0, <2>1, <2>2, <3>1, RequestsAnswered
  <2>3. CASE running'.by = t /\ UNCHANGED answer
    <3>1. \A u \in Tests : Pending(u)' => Pending(u)
      BY <2>1, <2>3 DEF Pending
    <3> QED  BY <2>1, <2>3, <3>1 DEF RequestsOK, Current, Waits
  <2> QED  BY <1>2, <2>2, <2>3 DEF StartCall
<1>3. ASSUME NEW t \in inbox, Busy(t)
      PROVE  RequestsOK'
  <2>1. /\ t \in Tests /\ Pending(t) /\ running.by \notin inbox
        /\ Answered(t, "error") /\ inbox' = inbox \ {t}
        /\ UNCHANGED <<pc, test, running>>
    BY <1>0, <1>3 DEF Busy, Pending, RequestsOK
  <2>2. \A u \in Tests : Pending(u)' => Pending(u) /\ u # t
    BY <2>1 DEF Pending
  <2> QED  BY <2>1, <2>2, RequestsAnswered
<1>4. ASSUME NEW f \in Fields, ReadField(f)
      PROVE  RequestsOK'
  <2>1. running'.by = running.by
    BY <1>4, RunningFacts, CallFacts DEF ReadField
  <2> QED  BY <1>4, <2>1, RequestsKept DEF ReadField, runner, Waits
<1>5. CASE EndCall
  <2>1. /\ running.by \in Tests /\ Pending(running.by) /\ running.by \notin inbox
        /\ running' = Idle /\ UNCHANGED <<inbox, pc, test>>
        /\ Idle.by \notin Tests
    BY <1>5, RunningFacts, FixtureFacts DEF EndCall, Pending, RequestsOK, Idle
  <2>2. \A u \in Tests : Pending(u)' => Pending(u) /\ u # running.by
    BY <2>1 DEF Pending
  <2>3. PICK a : Answered(running.by, a)
    BY <1>5 DEF EndCall
  <2> QED  BY <1>0, <2>1, <2>2, <2>3, RequestsAnswered
<1>6. CASE Save \/ AllOver \/ UNCHANGED vars
  BY <1>6, RequestsKept DEF Save, AllOver, vars, server, runner, Waits
<1> QED  BY <1>1, <1>2, <1>3, <1>4, <1>5, <1>6 DEF Next, ServerStep, TakeUp, Proceed

------------------------------------------------------------------------------
(***************************************************************************)
(* What a step does to a sweep r that is undisturbed after it.  A step     *)
(* that leaves r's own variables alone, and the server too while r needs   *)
(* it, leaves AloneOK.                                                     *)
(***************************************************************************)
SameRunner(r) ==
  /\ pc'[r] = pc[r] /\ test'[r] = test[r] /\ todo'[r] = todo[r]
  /\ answer'[r] = answer[r] /\ verdict'[r] = verdict[r]

SameServer(r) ==
  /\ UNCHANGED <<db, slot, up, loaded, running>>
  /\ Current(r) \in inbox' => Current(r) \in inbox

LEMMA LeftAlone ==
  ASSUME NEW r \in Runners, AloneOK(r), SameRunner(r),
         pc[r] \in {"set", "call", "wait"} => SameServer(r)
  PROVE  AloneOK(r)'
<1>1. Current(r)' = Current(r)
  BY DEF SameRunner, Current
<1>2. CASE pc[r] \in {"set", "call", "wait"}
  BY <1>1, <1>2 DEF AloneOK, SameRunner, SameServer, Serving, SetSoFar, ContextSet, CallOK,
                    AnswerOK, Pending
<1>3. CASE pc[r] \notin {"set", "call", "wait"}
  BY <1>1, <1>3 DEF AloneOK, SameRunner, VerdictOK
<1> QED  BY <1>2, <1>3

\* Another sweep is not served without disturbing r.
LEMMA NotServed ==
  ASSUME NEW r \in Runners, r \notin disturbed', NEW o \in Runners, o # r, Free, Disturbs(o)
  PROVE  FALSE
BY DEF Free, Disturbs, InCall

LEMMA OthersStep ==
  ASSUME TypeOK, NEW r \in Runners, r \notin disturbed', r \notin disturbed => AloneOK(r),
         NEW o \in Runners, o # r, RunnerStep(o)
  PROVE  AloneOK(r)'
<1>0. /\ pc \in [Runners -> Labels] /\ test \in [Runners -> Nat]
      /\ todo \in [Runners -> SUBSET Fields]
      /\ answer \in [Runners -> Answers] /\ verdict \in [Runners -> {"none", "pass", "fail"}]
  BY DEF TypeOK
<1>1. ASSUME disturbed \subseteq disturbed', SameRunner(r), SameServer(r)
      PROVE  AloneOK(r)'
  BY <1>1, LeftAlone
<1>2. ASSUME NEW d, NEW s, Command(o, d, s)
      PROVE  disturbed \subseteq disturbed' /\ SameServer(r)
  BY <1>2, NotServed DEF Command, Refused, data, SameServer
<1>3. CASE Flush(o)
  <2>1. ~Free \/ db' = db
    BY <1>3 DEF Flush, data
  <2>2. disturbed \subseteq disturbed' /\ SameServer(r)
    <3>1. CASE Free /\ disturbed' = Runners \ (IF loaded THEN {o} ELSE {})
      BY <3>1
    <3>2. CASE Refused(o) /\ UNCHANGED data
      BY <1>3, <3>2 DEF Flush, Refused, data, SameServer
    <3> QED  BY <1>3, <3>1, <3>2 DEF Flush
  <2>3. SameRunner(r)
    BY <1>0, <1>3 DEF Flush, Goto, SameRunner
  <2> QED  BY <1>1, <2>2, <2>3
<1>4. ASSUME NEW f \in Fields, SetField(o, f)
      PROVE  AloneOK(r)'
  BY <1>0, <1>1, <1>2, <1>4 DEF SetField, SameRunner
<1>5. CASE SetCode(o)
  BY <1>0, <1>1, <1>2, <1>5 DEF SetCode, Goto, SameRunner
<1>6. CASE Ask(o)
  <2>1. SameServer(r) /\ disturbed \subseteq disturbed'
    BY <1>6, CurrentFacts DEF Ask, data, SameServer, Refused
  <2>2. SameRunner(r)
    BY <1>0, <1>6 DEF Ask, Goto, SameRunner
  <2> QED  BY <1>1, <2>1, <2>2
<1>8. CASE Judge(o)
  <2>1. disturbed \subseteq disturbed'
    BY <1>8 DEF Judge, Disturbs, Refused
  <2>2. SameRunner(r) /\ SameServer(r)
    BY <1>0, <1>8 DEF Judge, Goto, server, data, SameRunner, SameServer
  <2> QED  BY <1>1, <2>1, <2>2
<1>9. CASE Ping(o)
  <2>1. disturbed \subseteq disturbed'
    BY <1>9 DEF Ping, Refused
  <2>2. SameRunner(r) /\ SameServer(r)
    BY <1>0, <1>9 DEF Ping, NextTest, Goto, server, data, SameRunner, SameServer
  <2> QED  BY <1>1, <2>1, <2>2
<1>10. CASE Shutdown(o) \/ StartServer(o)
  BY <1>10 DEF Shutdown, StartServer
<1>11. CASE Load(o)
  <2>1. Refused(o) /\ UNCHANGED loaded
    BY <1>11, NotServed DEF Load
  <2>2. SameRunner(r) /\ SameServer(r)
    BY <1>0, <1>11, <2>1 DEF Load, NextTest, Goto, data, SameRunner, SameServer
  <2> QED  BY <1>1, <2>1, <2>2 DEF Refused
<1> QED  BY <1>3, <1>4, <1>5, <1>6, <1>8, <1>9, <1>10, <1>11 DEF RunnerStep

------------------------------------------------------------------------------
\* An undisturbed sweep that has not asked is served at once.
LEMMA ServedAlone ==
  ASSUME TypeOK, RequestsOK, NEW r \in Runners, pc[r] \in {"set", "call"}, AloneOK(r)
  PROVE  Free /\ loaded
<1>1. Serving(r) /\ ~Pending(Current(r))
  BY CurrentFacts DEF AloneOK, RequestsOK, Waits
<1> QED  BY <1>1 DEF Serving, Free, Pending

LEMMA OwnStep ==
  ASSUME TypeOK, RequestsOK, NEW r \in Runners, r \notin disturbed',
         r \notin disturbed => AloneOK(r), RunnerStep(r)
  PROVE  AloneOK(r)'
<1>0. /\ pc \in [Runners -> Labels] /\ test \in [Runners -> Nat]
      /\ todo \in [Runners -> SUBSET Fields]
      /\ answer \in [Runners -> Answers] /\ verdict \in [Runners -> {"none", "pass", "fail"}]
      /\ db \in [Keys -> Reads]
  BY DEF TypeOK
<1>c. Current(r) \in Tests /\ Current(r)[1] = r
  BY CurrentFacts
<1>t. test'[r] = test[r] => Current(r)' = Current(r)
  BY DEF Current
<1>1. CASE Flush(r)
  <2>1. ~Refused(r)
    BY DEF Refused
  <2>2. /\ Free /\ db' = Unset /\ loaded
        /\ pc'[r] = "set" /\ test' = test
        /\ todo'[r] = Fixture(Current(r)).sets
        /\ UNCHANGED <<up, loaded, running>>
    BY <1>0, <1>1, <2>1 DEF Flush, Goto
  <2>3. \A f \in Fields : db'[f] = None
    BY <2>2 DEF Unset, Keys
  <2>4. Serving(r)' /\ SetSoFar(r)'
    BY <1>t, <2>2, <2>3 DEF Serving, SetSoFar, Free
  <2> QED  BY <2>2, <2>4 DEF AloneOK
<1>2. ASSUME NEW f \in Fields, SetField(r, f)
      PROVE  AloneOK(r)'
  <2>1. /\ pc[r] = "set" /\ pc' = pc /\ test' = test
        /\ f \in todo[r] /\ todo'[r] = todo[r] \ {f}
        /\ UNCHANGED <<up, loaded, running>>
        /\ r \notin disturbed
    BY <1>0, <1>2 DEF SetField, Command, Disturbs, Refused
  <2>2. AloneOK(r) /\ Serving(r) /\ SetSoFar(r)
    BY <2>1 DEF AloneOK
  <2>3. Free
    BY <2>1, <2>2, ServedAlone
  <2>4. db' = [db EXCEPT ![f] = Current(r)]
    BY <1>2, <2>3 DEF SetField, Command, Refused, Free
  <2>5. Serving(r)'
    BY <1>t, <2>1, <2>2 DEF Serving
  <2>6. SetSoFar(r)'
    <3>1. f \in Fixture(Current(r)).sets
      BY <2>1, <2>2 DEF SetSoFar
    <3> QED  BY <1>0, <1>t, <2>1, <2>2, <2>4, <3>1 DEF SetSoFar, Keys
  <2> QED  BY <2>1, <2>5, <2>6 DEF AloneOK
<1>3. CASE SetCode(r)
  <2>1. /\ pc[r] = "set" /\ pc'[r] = "call" /\ test' = test
        /\ todo[r] = {}
        /\ UNCHANGED <<up, loaded, running>>
        /\ r \notin disturbed
    BY <1>0, <1>3 DEF SetCode, Command, Goto, Disturbs, Refused
  <2>2. AloneOK(r) /\ Serving(r) /\ SetSoFar(r)
    BY <2>1 DEF AloneOK
  <2>3. Free
    BY <2>1, <2>2, ServedAlone
  <2>4. db' = [db EXCEPT ![Code] = Current(r)]
    BY <1>3, <2>3 DEF SetCode, Command, Refused, Free
  <2>5. db'[Code] = Current(r) /\ \A f \in Fields : db'[f] = db[f]
    BY <1>0, <2>4, KeysAssumption DEF Keys
  <2>6. ContextSet(r)' /\ Serving(r)'
    BY <1>t, <2>1, <2>2, <2>5 DEF ContextSet, SetSoFar, OwnContext, Serving
  <2> QED  BY <2>1, <2>6 DEF AloneOK
<1>4. CASE Ask(r)
  <2>1. pc[r] = "call" /\ pc'[r] = "wait" /\ test' = test /\ r \notin disturbed
    BY <1>0, <1>4 DEF Ask, Goto, Refused
  <2>2. AloneOK(r) /\ Serving(r) /\ ContextSet(r)
    BY <2>1 DEF AloneOK
  <2>3. Free
    BY <2>1, <2>2, ServedAlone
  <2>4. answer'[r] = "none" /\ UNCHANGED <<db, up, loaded, running>>
    BY <1>0, <1>4, <2>3 DEF Ask, Free, data
  <2>5. running'.by # Current(r)
    BY <1>c, <2>3, <2>4, RunningFacts DEF Free
  <2>6. CallOK(r)' /\ AnswerOK(r)'
    BY <1>t, <2>1, <2>4, <2>5 DEF CallOK, AnswerOK
  <2>7. ContextSet(r)' /\ Serving(r)'
    BY <1>t, <2>1, <2>2, <2>4 DEF ContextSet, Serving
  <2> QED  BY <2>1, <2>6, <2>7 DEF AloneOK
<1>6. CASE Judge(r)
  <2>1. /\ pc[r] = "wait" /\ pc'[r] = "judged" /\ test' = test /\ answer' = answer
        /\ answer[r] # "none" /\ r \notin disturbed
    BY <1>0, <1>6 DEF Judge, Goto, Disturbs, Refused
  <2>2. AnswerOK(r) /\ answer[r] \in {"ok", "ERR"}
    BY <1>0, <2>1 DEF AloneOK, AnswerOK, Answers
  <2>3. CASE ~HasPost(Current(r))
    <3>1. verdict'[r] = "fail"
      BY <1>0, <1>6, <2>2, <2>3 DEF Judge, Errored
    <3> QED  BY <1>t, <2>1, <2>3, <3>1 DEF AloneOK, VerdictOK, HasPost
  <2>4. CASE HasPost(Current(r))
    <3>1. slot = OwnContext(Current(r)) /\ ~Errored(r)
      BY <2>2, <2>4 DEF AnswerOK, Errored
    <3>2. verdict'[r] = "pass"
      BY <1>0, <1>6, <2>4, <3>1 DEF Judge, Refused
    <3> QED  BY <1>t, <2>1, <2>4, <3>2 DEF AloneOK, VerdictOK, HasPost
  <2> QED  BY <2>3, <2>4
<1>7. CASE Ping(r) \/ Shutdown(r) \/ StartServer(r) \/ Load(r)
  <2>1. pc'[r] \in {"flush", "done", "stop", "start", "load", "crashed"}
    BY <1>0, <1>7 DEF Ping, NextTest, Shutdown, StartServer, Load, Goto
  <2> QED  BY <2>1 DEF AloneOK
<1> QED  BY <1>1, <1>2, <1>3, <1>4, <1>6, <1>7 DEF RunnerStep

------------------------------------------------------------------------------
\* An answer reaches no sweep but the one whose current test asked.
LEMMA AnsweredOthers ==
  ASSUME TypeOK, NEW t \in Tests, NEW a, Answered(t, a), NEW r \in Runners, t[1] # r
  PROVE  answer'[r] = answer[r]
BY DEF Answered, TypeOK

LEMMA ServerAlone ==
  ASSUME TypeOK, RequestsOK, NEW r \in Runners, r \notin disturbed',
         r \notin disturbed => AloneOK(r), ServerStep
  PROVE  AloneOK(r)'
<1>0. /\ answer \in [Runners -> Answers] /\ db \in [Keys -> Reads] /\ inbox \subseteq Tests
      /\ Current(r) \in Tests /\ Current(r)[1] = r
  BY CurrentFacts DEF TypeOK
<1>t. test' = test => Current(r)' = Current(r)
  BY DEF Current
<1>1. ASSUME NEW t \in inbox, StartCall(t)
      PROVE  AloneOK(r)'
  <2>1. /\ t \in Tests /\ running = Idle /\ up
        /\ UNCHANGED <<db, slot, up, loaded, pc, test, todo, verdict>>
        /\ r \notin disturbed
    BY <1>0, <1>1 DEF StartCall, Free, Disturbs, data
  <2>2. t[1] = r
    BY <1>1, <2>1 DEF StartCall, Disturbs, InCall
  <2>3. t = Current(r) /\ pc[r] = "wait" /\ answer[r] = "none"
    BY <2>1, <2>2 DEF RequestsOK, Pending, Waits
  <2>4. Serving(r) /\ ContextSet(r) /\ AnswerOK(r)
    BY <2>1, <2>3 DEF AloneOK
  <2>5. running' = [by |-> t, runs |-> db[Code], seen |-> [f \in {} |-> None]]
        /\ answer' = answer
    <3>1. loaded /\ db[Code] # None
      BY <1>0, <2>4, FixtureFacts DEF Serving, ContextSet
    <3> QED  BY <1>1, <3>1 DEF StartCall
  <2>6. running'.by = Current(r) /\ running'.runs = Current(r) /\ DOMAIN running'.seen = {}
    BY <2>3, <2>4, <2>5 DEF ContextSet
  <2>7. Serving(r)' /\ ContextSet(r)' /\ CallOK(r)' /\ AnswerOK(r)'
    BY <1>t, <2>1, <2>4, <2>5, <2>6 DEF Serving, ContextSet, CallOK, AnswerOK
  <2> QED  BY <2>1, <2>3, <2>7 DEF AloneOK
<1>2. ASSUME NEW t \in inbox, Busy(t)
      PROVE  AloneOK(r)'
  <2>1. /\ t \in Tests
        /\ UNCHANGED <<db, slot, up, loaded, running, pc, test, todo, verdict>>
        /\ Answered(t, "error")
        /\ inbox' \subseteq inbox
        /\ r \notin disturbed /\ t[1] # r
    BY <1>0, <1>2 DEF Busy, Refused, data
  <2>2. answer'[r] = answer[r]
    BY <2>1, AnsweredOthers
  <2>3. SameRunner(r) /\ SameServer(r)
    BY <2>1, <2>2 DEF SameRunner, SameServer
  <2> QED  BY <2>1, <2>3, LeftAlone
<1>3. ASSUME NEW f \in Fields, ReadField(f)
      PROVE  AloneOK(r)'
  <2>1. /\ running # Idle /\ running \in Calls
        /\ UNCHANGED <<db, slot, up, loaded, inbox, pc, test, todo, answer, verdict, disturbed>>
        /\ AloneOK(r)
    BY <1>3, RunningFacts DEF ReadField, data, runner
  <2>2. CASE pc[r] \in {"set", "call"}
    BY <2>1, <2>2, ServedAlone DEF Free
  <2>3. CASE pc[r] = "wait"
    <3>1. Serving(r) /\ ContextSet(r) /\ CallOK(r) /\ AnswerOK(r) /\ running.by = Current(r)
      BY <2>1, <2>3 DEF AloneOK, Serving
    <3> DEFINE seen == [g \in DOMAIN running.seen \cup {f} |-> IF g = f THEN db[f] ELSE running.seen[g]]
    <3>2. running' = [by |-> running.by, runs |-> running.runs, seen |-> seen]
      BY <1>3, <2>1, CallFacts DEF ReadField
    <3>3. \A g \in DOMAIN seen : seen[g] = OwnContext(Current(r))[g]
      BY <3>1 DEF ContextSet, CallOK
    <3> HIDE DEF seen
    <3>4. CallOK(r)'
      BY <1>t, <2>1, <3>1, <3>2, <3>3 DEF CallOK
    <3>5. Serving(r)' /\ ContextSet(r)' /\ AnswerOK(r)'
      BY <1>t, <2>1, <3>1, <3>2 DEF Serving, ContextSet, AnswerOK
    <3> QED  BY <2>1, <2>3, <3>4, <3>5 DEF AloneOK
  <2>4. CASE pc[r] \notin {"set", "call", "wait"}
    BY <2>1, <2>4, LeftAlone DEF SameRunner
  <2> QED  BY <2>2, <2>3, <2>4
<1>4. CASE EndCall
  <2>1. /\ running # Idle /\ running \in Calls /\ running.by \in Tests
        /\ running' = Idle /\ slot' = running.seen /\ DOMAIN running.seen = Fields
        /\ UNCHANGED <<db, up, loaded, inbox, pc, test, todo, verdict>>
        /\ Answered(running.by, IF Fixture(running.runs).ends = "ok" THEN "ok" ELSE "ERR")
        /\ AloneOK(r)
    BY <1>4, RunningFacts DEF EndCall, Disturbs
  <2>2. CASE pc[r] \in {"set", "call"}
    BY <2>1, <2>2, ServedAlone DEF Free
  <2>3. CASE pc[r] = "wait"
    <3>1. Serving(r) /\ ContextSet(r) /\ CallOK(r) /\ running.by = Current(r)
      BY <2>1, <2>3 DEF AloneOK, Serving
    <3>2. running.runs = Current(r)
      BY <3>1 DEF CallOK
    <3>3. slot' = OwnContext(Current(r))
      <4>1. running.seen \in [Fields -> Reads]
        BY <2>1, CallFacts
      <4>2. \A f \in Fields : running.seen[f] = OwnContext(Current(r))[f]
        BY <2>1, <3>1 DEF CallOK
      <4> QED  BY <2>1, <4>1, <4>2 DEF OwnContext
    <3>4. answer'[r] = IF HasPost(Current(r)) THEN "ok" ELSE "ERR"
      BY <1>0, <2>1, <3>1, <3>2 DEF Answered, HasPost
    <3>5. AnswerOK(r)'
      BY <1>t, <2>1, <3>3, <3>4 DEF AnswerOK, HasPost
    <3>6. running'.by # Current(r)
      BY <1>0, <2>1, FixtureFacts DEF Idle
    <3>7. Serving(r)' /\ ContextSet(r)' /\ CallOK(r)'
      BY <1>t, <2>1, <3>1, <3>6 DEF Serving, ContextSet, CallOK
    <3> QED  BY <2>1, <2>3, <3>5, <3>7 DEF AloneOK
  <2>4. CASE pc[r] \notin {"set", "call", "wait"}
    <3>1. running.by[1] # r
      BY <2>1, <2>4 DEF RequestsOK, Pending, Waits
    <3>2. answer'[r] = answer[r]
      BY <2>1, <3>1, AnsweredOthers
    <3> QED  BY <2>1, <2>4, <3>2, LeftAlone DEF SameRunner
  <2> QED  BY <2>2, <2>3, <2>4
<1> QED  BY <1>1, <1>2, <1>3, <1>4 DEF ServerStep, TakeUp, Proceed

LEMMA NextHostInv == TypeOK /\ HostInv /\ [Next]_vars => HostInv'
<1> SUFFICES ASSUME TypeOK, HostInv, [Next]_vars PROVE HostInv'
  OBVIOUS
<1>1. TypeOK' /\ RequestsOK'
  BY NextTypeOK, RequestsStep DEF HostInv
<1>2. ASSUME NEW r \in Runners \ disturbed'
      PROVE  AloneOK(r)'
  <2>1. CASE Save \/ AllOver \/ UNCHANGED vars
    <3>1. SameRunner(r) /\ SameServer(r) /\ disturbed' = disturbed
      BY <2>1 DEF Save, AllOver, vars, server, data, runner, SameRunner, SameServer
    <3> QED  BY <1>2, <3>1, LeftAlone DEF HostInv
  <2> QED  BY <1>2, <2>1, OthersStep, OwnStep, ServerAlone DEF HostInv, Next
<1> QED  BY <1>1, <1>2 DEF HostInv

LEMMA InitHostInv == Init => HostInv
<1> SUFFICES ASSUME Init PROVE HostInv
  OBVIOUS
<1>1. running.by = None /\ inbox = {} /\ \A t \in Tests : ~Pending(t)
  BY FixtureFacts DEF Init, Idle, Pending
<1>2. \A r \in Runners : pc[r] = "flush"
  BY DEF Init
<1> QED  BY <1>1, <1>2 DEF HostInv, RequestsOK, AloneOK, Init

\* A test that no other client interfered with passes exactly if it has a post state: whatever
\* earlier tests and calls left in Redis, however they ended, and whatever the others sent
\* while this one's call was running (vmtest-runner.py:165-213, 254-272).
THEOREM UndisturbedVerdicts == Spec => []UndisturbedPassesHavePost
<1>1. HostInv => UndisturbedPassesHavePost
  BY DEF HostInv, AloneOK, VerdictOK, UndisturbedPassesHavePost
<1> QED  BY <1>1, InitHostInv, NextHostInv, HostTypeCorrect, PTL DEF Spec
==============================================================================
