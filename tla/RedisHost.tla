------------------------------- MODULE RedisHost -------------------------------
(***************************************************************************)
(* One Redis that serves eth_call to several sweeps of                     *)
(* tests/vmtest-runner.py.  A test flushes the database, sets the context  *)
(* of its call (CALLER, CALLDATA, NUMBER, ...) one key at a time, calls,   *)
(* compares storage, and restarts a Redis that hangs.  The context is      *)
(* global, so a sweep is alone with its keys only as long as no other      *)
(* client is served.                                                       *)
(*                                                                         *)
(* redis-cli ends with success when the reply is an error, and prints it   *)
(* as "ERR ..."; a runner takes for an error only a reply with BUSY and a  *)
(* connection that failed.  Its -t limits how long it takes to connect,    *)
(* not how long the answer may take.                                       *)
(*                                                                         *)
(* All fixtures live at one address, as those of the VMTests do.  A value  *)
(* is the test that put it there: what a call reads tells whose context it *)
(* ran in.  A fixture reads the whole context, one opcode at a time, and   *)
(* then stores what it read.                                               *)
(***************************************************************************)
EXTENDS Naturals, Sequences, FiniteSets

CONSTANTS
  Runners,   \* the sweeps
  Fields,    \* the context keys
  Fixtures,  \* of each runner, its tests: the fields it sets, and how its call ends
  None       \* a key that is not set: the opcode has a default

Outcomes == {"ok", "raises", "hangs"}

\* A sweep has a test.
ASSUME FixturesAssumption ==
  /\ Fixtures \in [Runners -> Seq([sets : SUBSET Fields, ends : Outcomes])]
  /\ \A r \in Runners : Fixtures[r] # <<>>
  /\ None \notin Runners \X Nat

Tests == UNION {{r} \X DOMAIN Fixtures[r] : r \in Runners}
Fixture(t) == Fixtures[t[1]][t[2]]

\* The key of the code is set by every test, after the context.
Code == "code"
Keys == Fields \cup {Code}

ASSUME KeysAssumption == Code \notin Fields

Idle == [by |-> None]

VARIABLES
  db,         \* Keys: by which test each was set
  slot,       \* the storage that the fixtures write: what was read, or None
  up,         \* the server runs
  loaded,     \* it knows the library
  dump,       \* what a restart finds on disk: db, slot and loaded of the last snapshot
  running,    \* the call in progress: whose it is, whose code it runs, what it has read
  inbox,      \* calls sent and not yet started
  pc,         \* where each runner is
  test,       \* its current test
  todo,       \* the fields it has yet to set
  answer,     \* of its call
  verdict,    \* on its last test
  disturbed   \* history: runners with whose test another client has interfered

data   == <<db, slot>>
server == <<data, up, loaded, dump, running, inbox>>
runner == <<pc, test, todo, answer, verdict>>
vars   == <<server, runner, disturbed>>

Unset == [k \in Keys |-> None]
Current(r) == <<r, test[r]>>

\* What the fixture of t reads when it runs in its own context.
OwnContext(t) == [f \in Fields |-> IF f \in Fixture(t).sets THEN t ELSE None]

------------------------------------------------------------------------------
\* Functions run on the main thread: nothing else is served meanwhile.
Free == up /\ running = Idle

\* A command of r comes between any other runner's keys and its call, or its call and its
\* check.  A call that runs is not disturbed by commands.
InCall(r) == running # Idle /\ running.by = Current(r)
Disturbs(r) == disturbed' = disturbed \cup {o \in Runners \ {r} : ~InCall(o)}

\* A call that runs for a while has other commands answered BUSY, and a server that is down
\* refuses connections.
Refused(r) ==
  /\ running # Idle \/ ~up
  /\ disturbed' = disturbed \cup {r}

Goto(r, label) == pc' = [pc EXCEPT ![r] = label]

\* redis_cli: a command that is served changes the data, one that is not goes unnoticed.
Command(r, newDb, newSlot) ==
  /\ \/ Free /\ db' = newDb /\ slot' = newSlot /\ Disturbs(r)
     \/ Refused(r) /\ UNCHANGED data
  /\ UNCHANGED <<up, loaded, dump, running, inbox>>

\* Bug: a test that does not flush first.
BugFlush(r) ==
  /\ pc[r] = "flush"
  /\ Goto(r, "set")
  /\ disturbed' = disturbed \ {r}
  /\ todo' = [todo EXCEPT ![r] = Fixture(Current(r)).sets]
  /\ UNCHANGED <<server, test, answer, verdict>>

\* main: FLUSHDB before each test.  A library that is missing now is another's restart under
\* way, or a sweep's that crashed.
Flush(r) ==
  /\ pc[r] = "flush"
  /\ Goto(r, "set")
  /\ \/ Free /\ db' = Unset /\ slot' = None
        /\ disturbed' = Runners \ (IF loaded THEN {r} ELSE {})
     \/ Refused(r) /\ UNCHANGED data
  /\ todo' = [todo EXCEPT ![r] = Fixture(Current(r)).sets]
  /\ UNCHANGED <<up, loaded, dump, running, inbox, test, answer, verdict>>

\* setup_env and setup_exec: one SET for each field that the fixture has.
SetField(r, f) ==
  /\ pc[r] = "set"
  /\ f \in todo[r]
  /\ Command(r, [db EXCEPT ![f] = Current(r)], slot)
  /\ todo' = [todo EXCEPT ![r] = @ \ {f}]
  /\ UNCHANGED <<pc, test, answer, verdict>>

SetCode(r) ==
  /\ pc[r] = "set"
  /\ todo[r] = {}
  /\ Goto(r, "call")
  /\ Command(r, [db EXCEPT ![Code] = Current(r)], slot)
  /\ UNCHANGED <<test, todo, answer, verdict>>

\* FCALL: the request waits its turn in the connection.
Ask(r) ==
  /\ pc[r] = "call"
  /\ Goto(r, "wait")
  /\ IF up THEN /\ inbox' = inbox \cup {Current(r)}
                /\ answer' = [answer EXCEPT ![r] = "none"]
                /\ UNCHANGED disturbed
           ELSE /\ answer' = [answer EXCEPT ![r] = "error"]
                /\ Refused(r)
                /\ UNCHANGED inbox
  /\ UNCHANGED <<data, up, loaded, dump, running, test, todo, verdict>>

Waits(r) == pc[r] = "wait" /\ answer[r] = "none"
Answered(t, a) == answer' = [answer EXCEPT ![t[1]] = a]

\* The server starts a call, or replies at once that there is no such function or no code.
StartCall(t) ==
  /\ Free
  /\ t \in inbox
  /\ inbox' = inbox \ {t}
  /\ IF loaded /\ db[Code] # None
     THEN /\ running' = [by |-> t, runs |-> db[Code], seen |-> [f \in {} |-> None]]
          /\ UNCHANGED answer
     ELSE /\ Answered(t, "ERR")
          /\ UNCHANGED running
  /\ Disturbs(t[1])
  /\ UNCHANGED <<data, up, loaded, dump, pc, test, todo, verdict>>

Busy(t) ==
  /\ running # Idle
  /\ t \in inbox
  /\ inbox' = inbox \ {t}
  /\ Answered(t, "error")
  /\ Refused(t[1])
  /\ UNCHANGED <<data, up, loaded, dump, running, pc, test, todo, verdict>>

\* An opcode of the environment or block group reads its key.
ReadField(f) ==
  /\ running # Idle
  /\ f \notin DOMAIN running.seen
  /\ Fixture(running.runs).ends # "hangs"
  /\ running' = [running EXCEPT !.seen = [g \in DOMAIN @ \cup {f} |-> IF g = f THEN db[f] ELSE @[g]]]
  /\ UNCHANGED <<data, up, loaded, dump, inbox, runner, disturbed>>

\* SSTORE, and the end of the call.
EndCall ==
  /\ running # Idle
  /\ DOMAIN running.seen = Fields
  /\ Fixture(running.runs).ends # "hangs"
  /\ slot' = running.seen
  /\ running' = Idle
  /\ Answered(running.by, IF Fixture(running.runs).ends = "ok" THEN "ok" ELSE "ERR")
  /\ Disturbs(running.by[1])
  /\ UNCHANGED <<db, up, loaded, dump, inbox, pc, test, todo, verdict>>

\* run_one: a fixture without a post state is expected to fail, others to have written what
\* they should.
HasPost(t) == Fixture(t).ends = "ok"

\* What run_one takes for an error.
Errored(r) == answer[r] = "error"

Judge(r) ==
  LET t == Current(r) IN
  /\ pc[r] = "wait"
  /\ answer[r] # "none"
  /\ Goto(r, "judged")
  /\ \/ /\ Errored(r) \/ ~HasPost(t)
        /\ verdict' = [verdict EXCEPT ![r] = IF Errored(r) /\ ~HasPost(t) THEN "pass" ELSE "fail"]
        /\ UNCHANGED disturbed
     \/ /\ ~Errored(r) /\ HasPost(t)
        /\ \/ Free /\ Disturbs(r)
              /\ verdict' = [verdict EXCEPT ![r] = IF slot = OwnContext(t) THEN "pass" ELSE "fail"]
           \/ Refused(r)
              /\ verdict' = [verdict EXCEPT ![r] = "fail"]
  /\ UNCHANGED <<server, test, todo, answer>>

\* Bug: one past the last test.
BugNextTest(r) ==
  /\ test' = [test EXCEPT ![r] = @ + 1]
  /\ Goto(r, IF test[r] <= Len(Fixtures[r]) THEN "flush" ELSE "done")
  /\ answer' = [answer EXCEPT ![r] = "none"]
  /\ verdict' = [verdict EXCEPT ![r] = "none"]

\* On to the next test: what run_one knew of this one is gone.
NextTest(r) ==
  /\ IF test[r] < Len(Fixtures[r])
     THEN test' = [test EXCEPT ![r] = @ + 1] /\ Goto(r, "flush")
     ELSE UNCHANGED test /\ Goto(r, "done")
  /\ answer' = [answer EXCEPT ![r] = "none"]
  /\ verdict' = [verdict EXCEPT ![r] = "none"]

\* Bug: a Redis that hangs is not noticed.
BugPing(r) ==
  /\ pc[r] = "judged"
  /\ NextTest(r)
  /\ \/ Free /\ UNCHANGED disturbed
     \/ Refused(r)
  /\ UNCHANGED <<server, todo>>

\* redis_busy: anything but PONG calls for a restart.
Ping(r) ==
  /\ pc[r] = "judged"
  /\ \/ Free /\ NextTest(r) /\ UNCHANGED disturbed
     \/ Refused(r) /\ Goto(r, "stop") /\ UNCHANGED <<test, answer, verdict>>
  /\ UNCHANGED <<server, todo>>

\* The server is gone, with all that was asked of it: who waits is told that the connection
\* was lost.
Shutdown(r) ==
  /\ pc[r] = "stop"
  /\ Goto(r, "start")
  /\ up' = FALSE
  /\ running' = Idle
  /\ inbox' = {}
  /\ answer' = [o \in Runners |-> IF Waits(o) THEN "error" ELSE answer[o]]
  /\ disturbed' = disturbed \cup (Runners \ {r})
  /\ UNCHANGED <<data, loaded, dump, test, todo, verdict>>

\* A second server on the same port does not start.
StartServer(r) ==
  /\ pc[r] = "start"
  /\ Goto(r, "load")
  /\ up' = TRUE
  /\ IF up THEN UNCHANGED <<data, loaded>>
           ELSE db' = dump.db /\ slot' = dump.slot /\ loaded' = dump.loaded
  /\ disturbed' = disturbed \cup (Runners \ {r})
  /\ UNCHANGED <<dump, running, inbox, test, todo, answer, verdict>>

\* load_evm_function; nothing catches the error it raises when it is refused.
Load(r) ==
  /\ pc[r] = "load"
  /\ \/ Free /\ loaded' = TRUE /\ NextTest(r) /\ Disturbs(r)
     \/ Refused(r) /\ Goto(r, "crashed") /\ UNCHANGED <<loaded, test, answer, verdict>>
  /\ UNCHANGED <<data, up, dump, running, inbox, todo>>

\* A snapshot, as Redis takes by its own schedule.  Bound: one.
Save ==
  /\ Free
  /\ ~dump.loaded
  /\ dump' = [db |-> db, slot |-> slot, loaded |-> loaded]
  /\ UNCHANGED <<data, up, loaded, running, inbox, runner, disturbed>>

Ended(r)   == pc[r] \in {"done", "crashed"}
Hanging(r) == InCall(r) /\ Fixture(running.runs).ends = "hangs"

\* Nothing is left to do, or nobody to restart a server that hangs.
AllOver ==
  /\ \A r \in Runners : Ended(r) \/ Hanging(r)
  /\ UNCHANGED vars

------------------------------------------------------------------------------
\* main has loaded the library before the first test.
Init ==
  /\ db = Unset
  /\ slot = None
  /\ up = TRUE
  /\ loaded = TRUE
  /\ dump = [db |-> Unset, slot |-> None, loaded |-> FALSE]
  /\ running = Idle
  /\ inbox = {}
  /\ pc = [r \in Runners |-> "flush"]
  /\ test = [r \in Runners |-> 1]
  /\ todo = [r \in Runners |-> {}]
  /\ answer = [r \in Runners |-> "none"]
  /\ verdict = [r \in Runners |-> "none"]
  /\ disturbed = {}

RunnerStep(r) ==
  \/ Flush(r) \/ SetCode(r)
  \/ \E f \in Fields : SetField(r, f)
  \/ Ask(r) \/ Judge(r)
  \/ Ping(r) \/ Shutdown(r) \/ StartServer(r) \/ Load(r)

TakeUp(t) == t \in inbox /\ (StartCall(t) \/ Busy(t))
Proceed   == EndCall \/ \E f \in Fields : ReadField(f)

ServerStep == Proceed \/ \E t \in Tests : TakeUp(t)

Next ==
  \/ \E r \in Runners : RunnerStep(r)
  \/ ServerStep
  \/ Save
  \/ AllOver

\* A runner is a process that the system schedules. The server goes on with a call, unless the
\* call hangs, and comes to every request, if only to reply BUSY.
Fairness ==
  /\ \A r \in Runners : WF_vars(RunnerStep(r))
  /\ WF_vars(Proceed)
  /\ \A t \in Tests : WF_vars(TakeUp(t))

Spec == Init /\ [][Next]_vars /\ Fairness
------------------------------------------------------------------------------
(***************************************************************************)
(* Properties.                                                             *)
(***************************************************************************)

Labels == {"flush", "set", "call", "wait", "judged", "stop", "start", "load", "done", "crashed"}

Answers == {"none", "ok", "ERR", "error"}

\* A key or what an opcode read, a key space, and the storage that a fixture writes.
Reads  == Tests \cup {None}
Slot   == {None} \cup [Fields -> Reads]
Calls  == [by : Tests, runs : Tests, seen : UNION {[fs -> Reads] : fs \in SUBSET Fields}]
Dumps  == [db : [Keys -> Reads], slot : Slot, loaded : BOOLEAN]

\* Every variable keeps its type; a call runs only while the server does.
TypeOK ==
  /\ db \in [Keys -> Reads]
  /\ slot \in Slot
  /\ up \in BOOLEAN /\ loaded \in BOOLEAN
  /\ dump \in Dumps
  /\ running = Idle \/ (running \in Calls /\ up)
  /\ inbox \subseteq Tests
  /\ pc \in [Runners -> Labels]
  /\ test \in [Runners -> Nat]
  /\ \A r \in Runners : Current(r) \in Tests
  /\ todo \in [Runners -> SUBSET Fields]
  /\ answer \in [Runners -> Answers]
  /\ verdict \in [Runners -> {"none", "pass", "fail"}]
  /\ disturbed \subseteq Runners

\* A test that no other client interfered with passes exactly if it has a post state: whatever
\* earlier tests and calls left in Redis, however they ended, and whatever others send while
\* its call runs. One that is expected to fail, and does, is judged to have failed, since an
\* ordinary error reply is not recognised (vmtest-runner.py:165-213, 254-272).
UndisturbedPassesHavePost ==
  \A r \in Runners :
    pc[r] = "judged" /\ r \notin disturbed => (verdict[r] = "pass" <=> HasPost(Current(r)))

\* It has yet to ask whether Redis hangs, or is about to restart it.
UnderWay(r) == pc[r] \in {"flush", "set", "call", "wait", "judged", "stop"}

\* Every sweep comes to its end, unless it waits for ever for a call of its own that hangs: no
\* sweep restarts Redis for itself, but each does for the others, as long as it is under way
\* (vmtest-runner.py:69-87, 186-193, 269-272).
SweepsEndEachOther ==
  /\ \A r \in Runners : <>Ended(r) \/ <>[]Hanging(r)
  /\ \A r, o \in Runners : r # o => (Hanging(r) /\ UnderWay(o) ~> ~Hanging(r))
=============================================================================
