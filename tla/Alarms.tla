-------------------------------- MODULE Alarms --------------------------------
(***************************************************************************)
(* The alarms of a host in src/NetGroup.c: alarm_schdule calls those that  *)
(* are due before every WQ_recv, and the host's callbacks, those of the    *)
(* alarms included, start and end alarms.  All of it runs in the host's    *)
(* thread.  Blocks are memory addresses, which malloc may use again.       *)
(***************************************************************************)
EXTENDS Integers, FiniteSetsExt, Links

CONSTANTS
  Blocks,       \* addresses of struct net_host_alarm
  Variables,    \* the user's pointers to alarms ...
  OwnCells,     \* ... those that are a block of libwq_malloc's themselves
  FlowTicks,    \* what tick - _start_tick may be
  MaxAlarms     \* bound: calls of NetGroup_host_alarm_start

ASSUME BlocksAssumption == IsFiniteSet(Blocks) /\ 0 \notin Blocks
ASSUME VariablesAssumption == OwnCells \subseteq Variables /\ MaxAlarms \in Nat
ASSUME TicksAssumption == FlowTicks \subseteq Nat

INFINITE == -1            \* the greatest _dword, as a waiting time

VARIABLES
  _alarms,       \* the head of the host's list
  _next, _time, _repeat,  \* per block
  allocated,     \* the blocks that malloc has given and free not taken back
  alarms, prev_alarm, next_alarm,   \* the locals of alarm_schdule
  phase,         \* where the host's thread is
  variable,      \* the user's pointers
  fate,          \* "runs", "crashed" or "aborted" (free of what is no block)
  starts         \* history: every alarm started, and what became of it

blocks == <<_alarms, _next, _time, _repeat, allocated>>
walk == <<alarms, prev_alarm, next_alarm, phase>>
alarmVars == <<blocks, walk, variable, fate, starts>>

AlarmsInit ==
  /\ _alarms = NULL /\ _next = [b \in Blocks |-> NULL] /\ _time = [b \in Blocks |-> 0]
  /\ _repeat = [b \in Blocks |-> FALSE] /\ allocated = {}
  /\ alarms = NULL /\ prev_alarm = NULL /\ next_alarm = INFINITE
  /\ phase = "callback" /\ variable = [v \in Variables |-> NULL]
  /\ fate = "runs" /\ starts = << >>

(* The latest start in the block b, and into the variable v. *)
StartIn(b) == Max({s \in DOMAIN starts : starts[s].block = b})
StartInto(v) == Max({s \in DOMAIN starts : starts[s].variable = v})

Becomes(s, what) == IF starts[s].became = "set"
                    THEN [starts EXCEPT ![s].became = what] ELSE starts

Linked == Reach(_next, _alarms)

InCallback == fate = "runs" /\ phase \in {"callback", "alarm"}

(* Where alarm_start links a new alarm: the search for the end of the list *)
(* goes on only from blocks that have no next, so that it runs off a list  *)
(* of one (and would stay at the head of a longer one).                    *)
WrongEnd == _alarms

End == IF _next[_alarms] = NULL THEN NULL ELSE _alarms

(* NetGroup_host_alarm_start, its result put into a variable of the user's. *)
(* libwq_malloc has cleared the block, and _time is not set.                *)
AlarmStart(v, b, repeat) ==
  /\ InCallback /\ variable[v] = NULL /\ b \notin allocated /\ Len(starts) < MaxAlarms
  /\ allocated' = allocated \cup {b}
  /\ _time' = [_time EXCEPT ![b] = 0] /\ _repeat' = [_repeat EXCEPT ![b] = repeat]
  /\ _alarms' = IF _alarms = NULL THEN b ELSE _alarms
  /\ _next' = IF _alarms # NULL /\ End # NULL THEN [_next EXCEPT ![End] = b, ![b] = NULL]
              ELSE [_next EXCEPT ![b] = NULL]
  /\ fate' = IF _alarms # NULL /\ End = NULL THEN "crashed" ELSE fate
  /\ variable' = [variable EXCEPT ![v] = b]
  /\ starts' = Append(starts, [block |-> b, variable |-> v, became |-> "set",
                               within |-> IF phase = "alarm" THEN StartIn(alarms) ELSE 0])
  /\ UNCHANGED walk

(* NetGroup_host_alarm_end unlinks the block, but what it frees is the     *)
(* user's variable: the block is never freed.                              *)
WrongUnlinks(b) == FALSE

Unlinks(b) == b \in Linked

AlarmEnd(v) ==
  LET b == variable[v] IN
  /\ InCallback /\ b # NULL
  /\ _alarms' = IF Unlinks(b) /\ _alarms = b THEN _next[b] ELSE _alarms
  /\ _next' = IF Unlinks(b) THEN Bypass(_next, _alarms, b) ELSE _next
  /\ variable' = [variable EXCEPT ![v] = NULL]
  /\ fate' = IF v \in OwnCells THEN fate ELSE "aborted"
  /\ starts' = IF b \in Linked /\ StartIn(b) # StartInto(v) THEN Becomes(StartIn(b), "mistaken")
               ELSE Becomes(StartInto(v), "ended")
  /\ UNCHANGED <<_time, _repeat, allocated, walk>>

(* A callback returns and host_start_routine calls alarm_schdule. *)
Schedule ==
  /\ fate = "runs" /\ phase = "callback" /\ phase' = "walk"
  /\ alarms' = _alarms /\ prev_alarm' = NULL /\ next_alarm' = INFINITE
  /\ UNCHANGED <<blocks, variable, fate, starts>>

Sooner(time) == IF next_alarm = INFINITE THEN time ELSE Min({time, next_alarm})

(* One alarm of the walk is due and called, or not yet due. *)
Look(flow_tick) ==
  /\ phase = "walk" /\ alarms # NULL
  /\ IF flow_tick >= _time[alarms]
     THEN phase' = "alarm" /\ UNCHANGED <<alarms, prev_alarm, next_alarm>>
     ELSE /\ next_alarm' = Sooner(_time[alarms] - flow_tick)
          /\ prev_alarm' = alarms /\ alarms' = _next[alarms] /\ UNCHANGED phase
  /\ UNCHANGED <<blocks, variable, fate, starts>>

(* The alarm's callback returns: it stays in the list, or goes. *)
Repeats ==
  /\ fate = "runs" /\ phase = "alarm" /\ _repeat[alarms]
  /\ next_alarm' = Sooner(_time[alarms])
  /\ prev_alarm' = alarms /\ alarms' = _next[alarms] /\ phase' = "walk"
  /\ UNCHANGED <<blocks, variable, fate, starts>>

Goes ==
  /\ fate = "runs" /\ phase = "alarm" /\ ~_repeat[alarms]
  /\ _alarms' = IF prev_alarm = NULL THEN _next[alarms] ELSE _alarms
  /\ _next' = IF prev_alarm = NULL THEN _next
              ELSE [_next EXCEPT ![prev_alarm] = _next[alarms]]
  /\ allocated' = allocated \ {alarms}
  /\ alarms' = _next[alarms] /\ phase' = "walk"
  /\ starts' = Becomes(StartIn(alarms), "called")
  /\ UNCHANGED <<_time, _repeat, prev_alarm, next_alarm, variable, fate>>

(* alarm_schdule returns; WQ_recv waits as long as it says, and what it    *)
(* receives is handled in a callback.                                      *)
Receive ==
  /\ phase = "walk" /\ alarms = NULL /\ phase' = "callback"
  /\ UNCHANGED <<blocks, alarms, prev_alarm, next_alarm, variable, fate, starts>>

AlarmsNext ==
  \/ \E v \in Variables, b \in Blocks, repeat \in BOOLEAN :
       AlarmStart(v, b, repeat)
  \/ \E v \in Variables : AlarmEnd(v)
  \/ Schedule \/ (\E flow_tick \in FlowTicks : Look(flow_tick))
  \/ Repeats \/ Goes \/ Receive

AlarmsSpec == AlarmsInit /\ [][AlarmsNext]_alarmVars
-----------------------------------------------------------------------------
(* Properties *)

(* The list never has a second alarm (alarm_start crashes instead), and    *)
(* the walk never reads a block that was freed, though callbacks end the   *)
(* alarm being walked and start others: alarm_end unlinks and leaks it,    *)
(* and alarm_schdule frees it after the callback.                          *)
WalksAllocatedBlocks ==
  /\ Cardinality(Linked) <= 1 /\ Linked \subseteq allocated
  /\ phase # "callback" => {alarms, prev_alarm} \ {NULL} \subseteq allocated

(* An alarm is in the list until it was called, if it does not repeat, or  *)
(* was ended through its own variable, and not after; but there are two    *)
(* ways to lose it: it was started in the callback of a single alarm that  *)
(* had been ended, or it was ended through the variable of an earlier      *)
(* alarm, called since, whose block it got.  While one is there, whatever  *)
(* its mstime, the host does not sleep in WQ_recv.                         *)
AlarmsStay ==
  /\ phase = "walk" /\ alarms = NULL /\ Linked # {} => next_alarm = 0
  /\ \A s \in DOMAIN starts : fate = "runs" =>
    LET start == starts[s] IN
      /\ start.became = "set" =>
           \/ start.block \in Linked /\ StartIn(start.block) = s
           \/ start.within > 0 /\ starts[start.within].became \in {"ended", "mistaken"}
      /\ start.became = "mistaken" =>
           \E r \in 1 .. s - 1 : starts[r].block = start.block /\ starts[r].became = "called"
      /\ start.block \in Linked /\ StartIn(start.block) = s => start.became = "set"
=============================================================================
