----------------------------- MODULE WaitpidJob -----------------------------
(***************************************************************************)
(* How a loop learns that a child process has ended: the SIGCHLD handler   *)
(* writes a byte to a pipe (exec_posix.c), the stream WAITPID_INPUT on     *)
(* that pipe drains it, reaps the children and queues what it got as       *)
(* out-of-band information, and WAITPID_JOB fires its actions with it.     *)
(*                                                                         *)
(* The pipe and the handler exist only since basic_exec_waitpid_fd was     *)
(* called, that is since the job was first prepared when it expects the    *)
(* input: till then SIGCHLD has its default action, and is discarded.      *)
(* Later it comes at any time; two children that end before it is          *)
(* delivered send one.  The pipe is taken to be as large as it needs, and  *)
(* to be opened without error.                                             *)
(* Other jobs of the loop arm, disarm and trigger the job, and may make    *)
(* the loop turn without asking it (is_ready is not called when a job of   *)
(* another priority comes first).                                          *)
(***************************************************************************)
EXTENDS Integers, Sequences, FiniteSets, SequencesExt

CONSTANTS
  Children,  \* the processes the program has started
  Delays,    \* the timeouts arm and trigger are given, when there is one
  MaxCalls   \* bound: calls of arm, disarm and trigger

ASSUME WaitpidAssumption == Delays \subseteq Nat /\ MaxCalls \in Nat

(* The argument of arm and trigger; -1 is no timeout.                      *)
Timeouts == Delays \union {-1}

VARIABLES
  childState,    \* "running", "zombie", then "reaped"
  handler,       \* the `init' of basic_exec_waitpid_fd: there are a handler and a pipe
  sigchld, pipe, \* a SIGCHLD is pending; bytes in waitpid_selfpipe
  armed, triggered, running, timeout,  \* WAITPID_JOB
  timeoutEvent,  \* timeout_event /= Void
  expects,       \* the events expected this turn: "read", "timeout"
  happened,      \* those that `wait' returned for
  oob,           \* oob_info_pid
  stage,         \* where the turn of the loop is
  calls,
  reports,       \* history: how often each child was reported to the actions
  unheard        \* history: the children that ended while there was no handler

jobVars == <<childState, handler, sigchld, pipe, armed, triggered, running, timeout,
             timeoutEvent, expects, happened, oob, stage, calls, reports, unheard>>
kernel == <<childState, handler, sigchld, pipe, unheard>>
job    == <<armed, triggered, running, timeout, timeoutEvent>>

JobInit ==
  /\ childState = [c \in Children |-> "running"] /\ handler = FALSE
  /\ sigchld = FALSE /\ pipe = 0 /\ unheard = {}
  /\ armed = FALSE /\ triggered = FALSE /\ running = FALSE /\ timeout = 0
  /\ timeoutEvent = FALSE /\ expects = {} /\ happened = {} /\ oob = <<>>
  /\ stage = "turn" /\ calls = 0 /\ reports = [c \in Children |-> 0]
-----------------------------------------------------------------------------
(* The operating system *)
ChildExits(c) ==
  /\ childState[c] = "running"
  /\ childState' = [childState EXCEPT ![c] = "zombie"] /\ sigchld' = (sigchld \/ handler)
  /\ unheard' = IF handler THEN unheard ELSE unheard \union {c}
  /\ UNCHANGED <<handler, pipe, job, expects, happened, oob, stage, calls, reports>>

(* waitpid_sigh *)
Deliver ==
  /\ sigchld /\ sigchld' = FALSE /\ pipe' = pipe + 1
  /\ UNCHANGED <<childState, handler, unheard, job, expects, happened, oob, stage, calls,
                 reports>>
-----------------------------------------------------------------------------
(* What other jobs call *)
Called ==
  /\ stage = "turn" /\ calls < MaxCalls /\ calls' = calls + 1
  /\ UNCHANGED <<kernel, running, timeoutEvent, expects, happened, oob, stage, reports>>

Arm(t) == Called /\ timeout' = t /\ armed' = TRUE /\ triggered' = FALSE

Disarm == Called /\ armed /\ armed' = FALSE /\ UNCHANGED <<timeout, triggered>>

Trigger(t) == Called /\ timeout' = t /\ triggered' = TRUE /\ armed' = FALSE
-----------------------------------------------------------------------------
(* The turn of the loop *)
(* Whether the job waits for anything; mutant: not because it is armed.    *)
ExpectingUnlessArmed == triggered \/ running
Expecting == triggered \/ armed \/ running

(* basic_exec_waitpid_fd: the first call makes the pipe and installs the   *)
(* handler.                                                                *)
Installed(called) == handler \/ called

(* events.expect(in.event_can_read) asks for the descriptor; `in' is a     *)
(* once, so that the stream itself is made here the first time.            *)
Prepare ==
  LET on == Expecting IN
  /\ stage = "turn"
  /\ running' = on
  /\ triggered' = (triggered /\ ~on)
  /\ timeoutEvent' = ((on /\ timeout >= 0) \/ timeoutEvent)
  /\ expects' = IF ~on THEN {} ELSE IF timeout >= 0 THEN {"read", "timeout"} ELSE {"read"}
  /\ handler' = Installed(on) /\ stage' = "wait"
  /\ UNCHANGED <<childState, sigchld, pipe, unheard, armed, timeout, happened, oob, calls,
                 reports>>

(* EVENTS_SET.wait returns: data, the end of the timeout, or an event of   *)
(* another job.                                                            *)
WaitReturns(timedOut) ==
  /\ stage = "wait" /\ (timedOut => "timeout" \in expects)
  /\ happened' = {e \in expects : IF e = "read" THEN pipe > 0 ELSE timedOut}

WaitAndAsk ==
  /\ \E timedOut \in BOOLEAN : WaitReturns(timedOut)
  /\ happened' # {} /\ stage' = "query"
  /\ UNCHANGED <<kernel, job, expects, oob, calls, reports>>

(* The turn is another job's.                                              *)
WaitForOthers ==
  /\ \E timedOut \in BOOLEAN : WaitReturns(timedOut)
  /\ stage' \in {"turn", "query"}
  /\ UNCHANGED <<kernel, job, expects, oob, calls, reports>>

(* TIMEOUT_EVENT.occurred is always True.                                  *)
TimeoutOccurred == TRUE

IsReady ==
  /\ stage = "query"
  /\ IF ~running THEN stage' = "turn" /\ UNCHANGED timeoutEvent
     ELSE IF timeoutEvent /\ TimeoutOccurred THEN stage' = "timeout" /\ UNCHANGED timeoutEvent
     ELSE /\ timeoutEvent' = FALSE
          /\ stage' = IF "read" \in happened THEN "drain" ELSE "turn"
  /\ UNCHANGED <<kernel, armed, triggered, running, timeout, expects, happened, oob,
                 calls, reports>>

(* timeout_event after the timeout was reported; mutant: it stays.         *)
TimeoutEventKept == timeoutEvent
TimeoutEventAfter == FALSE

(* `continue', of the timeout *)
FireTimeout ==
  /\ stage = "timeout"
  /\ running' = FALSE /\ timeoutEvent' = TimeoutEventAfter /\ stage' = "turn"
  /\ UNCHANGED <<kernel, armed, triggered, timeout, expects, happened, oob, calls, reports>>

(* basic_exec_waitpid_read_buffer: the pipe first, then the children.      *)
PipeRead == IF stage = "drain" THEN 0 ELSE pipe

Drain ==
  /\ stage = "drain" /\ pipe' = PipeRead /\ stage' = "reap"
  /\ UNCHANGED <<childState, handler, sigchld, unheard, job, expects, happened, oob, calls,
                 reports>>

(* set_oob_info; mutant: one place instead of a queue.                     *)
WithOobInfoLast(c) == <<c>>
WithOobInfo(c) == Append(oob, c)

Reap(c) ==
  /\ stage = "reap" /\ childState[c] = "zombie"
  /\ childState' = [childState EXCEPT ![c] = "reaped"]
  /\ oob' = WithOobInfo(c)
  /\ UNCHANGED <<handler, sigchld, pipe, unheard, job, expects, happened, stage, calls,
                 reports>>

ReapEnds ==
  /\ stage = "reap" /\ \A c \in Children : childState[c] # "zombie"
  /\ stage' = "fire"
  /\ UNCHANGED <<kernel, job, expects, happened, oob, calls, reports>>

(* drop_oop_info, till there is none.                                      *)
OobInfoDropped == <<>>

(* `continue', of the input: all the information there is                  *)
FireWaitpid ==
  /\ stage = "fire"
  /\ running' = (running /\ oob = <<>>)
  /\ reports' = [c \in Children |-> reports[c] + Cardinality({i \in DOMAIN oob : oob[i] = c})]
  /\ oob' = OobInfoDropped /\ pipe' = PipeRead /\ stage' = "turn"
  /\ UNCHANGED <<childState, handler, sigchld, unheard, armed, triggered, timeout,
                 timeoutEvent, expects, happened, calls>>
-----------------------------------------------------------------------------
Loop ==
  \/ Prepare \/ WaitAndAsk \/ IsReady \/ FireTimeout \/ Drain \/ ReapEnds \/ FireWaitpid
  \/ \E c \in Children : Reap(c)

Calls == Disarm \/ \E t \in Timeouts : Arm(t) \/ Trigger(t)

JobNext == Loop \/ WaitForOthers \/ Calls \/ Deliver \/ \E c \in Children : ChildExits(c)

(* The loop runs, signals are delivered, and the other jobs do not keep    *)
(* the loop to themselves.                                                 *)
JobSpec ==
  /\ JobInit /\ [][JobNext]_jobVars
  /\ WF_jobVars(Loop) /\ WF_jobVars(Deliver) /\ SF_jobVars(WaitAndAsk)
-----------------------------------------------------------------------------
JobTypeOK ==
  /\ childState \in [Children -> {"running", "zombie", "reaped"}]
  /\ handler \in BOOLEAN /\ sigchld \in BOOLEAN /\ pipe \in Nat
  /\ unheard \subseteq Children /\ expects \subseteq {"read", "timeout"}
  /\ armed \in BOOLEAN /\ triggered \in BOOLEAN /\ running \in BOOLEAN
  /\ timeout \in Timeouts \union {0} /\ timeoutEvent \in BOOLEAN
  /\ happened \subseteq {"read", "timeout"} /\ oob \in Seq(Children)
  /\ stage \in {"turn", "wait", "query", "timeout", "drain", "reap", "fire"}
  /\ calls \in 0 .. MaxCalls /\ reports \in [Children -> 0 .. 1]

(* The input has something to read, is about to have it, or has just read  *)
(* it and is about to reap the children.                                   *)
Announced == sigchld \/ pipe > 0 \/ stage = "reap"

(* The self-pipe trick (basic_exec_waitpid_read_buffer): a child that has  *)
(* ended since the handler is installed and was not reaped is announced by *)
(* a pending signal or a byte in the pipe, unless the pipe was drained and *)
(* the children are about to be reaped.  So no such end is missed,         *)
(* whenever the signal comes; the ends before the handler announce nothing.*)
EndAnnounced == (\E c \in Children \ unheard : childState[c] = "zombie") => Announced

(* Every child that was reaped is reported to the actions, exactly once.   *)
ReportedOnce ==
  \A c \in Children :
    reports[c] = IF childState[c] = "reaped" /\ c \notin ToSet(oob) THEN 1 ELSE 0

(* However signals are merged and calls interleave, no end since the       *)
(* handler is installed is lost, and none at all is reported twice.        *)
EndsAccounted == EndAnnounced /\ ReportedOnce

(* armed and triggered exclude each other (ensure of arm and trigger), and *)
(* a stale timeout_event never outlives the run it belongs to.             *)
ArmedOrTriggered == ~(armed /\ triggered) /\ (timeoutEvent => running)

(* A job that stays armed without a timeout reports every child that has   *)
(* ended when there is something to read: those whose signals were merged, *)
(* and those that ended before there was a handler, which waitpid(-1)      *)
(* finds as well once another child has ended.                             *)
EndsReported ==
  \A c \in Children :
    (childState[c] = "zombie" /\ Announced /\ [](armed /\ timeout < 0)) ~> reports[c] = 1

(* What one may expect of an armed job, and waitpid_input.e says of the    *)
(* stream once it was created ("Each child sends exactly one empty line"): *)
(* the end of every child is reported, also of those that end before.      *)
EveryEndReported ==
  \A c \in Children :
    (childState[c] = "zombie" /\ [](armed /\ timeout < 0)) ~> reports[c] = 1

(* The actions are told of a timeout only when it has passed:              *)
(* EVENTS_SET.event_occurred, which is_ready asks, is "True if `wait'      *)
(* returned because that `event' happened".                                *)
TimeoutPassed == stage = "timeout" => "timeout" \in happened
=============================================================================
