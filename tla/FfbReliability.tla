--------------------------- MODULE FfbReliability ---------------------------
(***************************************************************************)
(* FfbReliability, the retry table for force-feedback commands, between a  *)
(* client that tracks every command it sends and a server that applies and *)
(* answers what it receives, over a network that loses, duplicates and     *)
(* reorders commands and replies.  No process of the repository constructs *)
(* the table yet: its caller is external, a client that tracks a command   *)
(* when it sends it and may at any time send again what is due.  How often *)
(* it does is not known, and only safety is stated.                        *)
(***************************************************************************)
EXTENDS PhysicalBackend, Sequences, FiniteSets, SequencesExt

CONSTANTS RetryAfter,    \* retry_after, in ticks of the clock
          Requests,      \* the commands the client may send
          MaxCommands,   \* bound: commands
          MaxInFlight,   \* bound: a clock tick waits while more datagrams are in flight
          MaxAttempts,   \* bound: `attempts` is not counted beyond it
          MaxFaults      \* bound: datagrams lost, duplicated or overtaken

ASSUME ReliabilityAssumption ==
  /\ RetryAfter \in Nat \ {0} /\ Requests \subseteq Kinds
  /\ MaxCommands \in Nat /\ MaxInFlight \in Nat /\ MaxAttempts \in Nat \ {0, 1}
  /\ MaxFaults \in Nat

VARIABLES
  pending,    \* the BTreeMap: from ids to [command, attempts, age]
  commands,   \* datagrams to the server, indices of `sent`
  replies,    \* datagrams to the client, [id, index]
  device,     \* the server's backend
  sent,       \* history: the commands, in the order they were sent first
  answered,   \* history: the commands whose reply has arrived
  faults,     \* faults of the network so far
  once,       \* history: the wheel, had each command been executed once
  orderly,    \* history: nothing was duplicated or overtaken
  alone       \* history: never were two commands pending together

netVars == <<commands, replies, faults, orderly>>
sentVars == <<sent, once, alone>>
vars == <<pending, netVars, device, answered, sentVars>>

Without(id) == [i \in DOMAIN pending \ {id} |-> pending[i]]
With(id, entry) == [i \in DOMAIN pending \cup {id} |-> IF i = id THEN entry ELSE pending[i]]

Init ==
  /\ pending = <<>> /\ commands = <<>> /\ replies = <<>>
  /\ device = OpenedDevice /\ sent = <<>> /\ once = OpenedDevice /\ answered = {}
  /\ faults = 0 /\ orderly = TRUE /\ alone = TRUE

(* next_command_id: the k-th command's.                                    *)
CommandId(k) == k

track_sent(k) ==
  pending' = With(CommandId(k), [command |-> k, attempts |-> 1, age |-> 0])

SendCommand(c) ==
  /\ Len(sent) < MaxCommands
  /\ sent' = Append(sent, c) /\ once' = Applied(once, c, "ok")
  /\ track_sent(Len(sent'))
  /\ commands' = Append(commands, Len(sent'))
  /\ alone' = (alone /\ pending = <<>>)
  /\ UNCHANGED <<replies, device, answered, faults, orderly>>

(* Time passes; an entry's age is now - last_sent, counted up to the limit.*)
Older(age) == IF age < RetryAfter THEN age + 1 ELSE age

ClockTick ==
  /\ Len(commands) + Len(replies) <= MaxInFlight
  /\ \E i \in DOMAIN pending : pending[i].age < RetryAfter
  /\ pending' = [i \in DOMAIN pending |-> [pending[i] EXCEPT !.age = Older(@)]]
  /\ UNCHANGED <<netVars, device, answered, sentVars>>

Due == {i \in DOMAIN pending : pending[i].age >= RetryAfter}

(* A slip: what is sent again is no longer tracked.                        *)
AfterRetry_Untracked == [i \in DOMAIN pending \ Due |-> pending[i]]

OneMore(attempts) == IF attempts < MaxAttempts THEN attempts + 1 ELSE attempts

AfterRetry ==
  [i \in DOMAIN pending |->
     IF i \in Due THEN [pending[i] EXCEPT !.age = 0, !.attempts = OneMore(@)] ELSE pending[i]]

Ascending(ids) ==
  {q \in [1 .. Cardinality(ids) -> ids] : \A i, j \in DOMAIN q : i < j => q[i] < q[j]}

(* Everything due is sent again, in the order of the ids.                  *)
DueRetries ==
  /\ Due # {} /\ pending' = AfterRetry
  /\ \E due \in Ascending(Due) :
       commands' = commands \o [j \in DOMAIN due |-> pending[due[j]].command]
  /\ UNCHANGED <<replies, device, answered, faults, orderly, sentVars>>

(* A slip: a reply is taken to answer every earlier command too.           *)
apply_reply_Cumulative(r) == [i \in {j \in DOMAIN pending : j > r.id} |-> pending[i]]

apply_reply(r) == IF r.id \in DOMAIN pending THEN Without(r.id) ELSE pending

RecvReply(j) ==
  /\ pending' = apply_reply(replies[j])
  /\ answered' = answered \cup {replies[j].index}
  /\ UNCHANGED <<device, sentVars>>

(* The server applies a command however often it comes.                    *)
RecvCommand(j) ==
  /\ LET k == commands[j] IN
     /\ device' = Applied(device, sent[k], "ok")
     /\ replies' = Append(replies,
          [id |-> CommandId(k), index |-> k,
           kind |-> IF Rejects(device, sent[k], "ok") THEN "Rejected" ELSE "Ack"])
  /\ UNCHANGED <<pending, answered, sentVars>>

(* What the network does with the j-th of n datagrams as it delivers it;   *)
(* `queue` is what remains.                                                *)
Delivered(q, j, copied) == IF copied THEN q ELSE RemoveAt(q, j)
NetworkFault(bad) ==
  /\ bad => faults < MaxFaults
  /\ faults' = IF bad THEN faults + 1 ELSE faults
  /\ orderly' = (orderly /\ ~ bad)

DeliverReply(j, copied) ==
  /\ NetworkFault(j > 1 \/ copied)
  /\ replies' = Delivered(replies, j, copied) /\ UNCHANGED commands
  /\ RecvReply(j)

DeliverCommand(j, copied) ==
  /\ NetworkFault(j > 1 \/ copied)
  /\ commands' = Delivered(commands, j, copied)
  /\ RecvCommand(j)

Lose ==
  /\ faults < MaxFaults /\ faults' = faults + 1
  /\ \/ \E j \in DOMAIN commands : commands' = RemoveAt(commands, j) /\ UNCHANGED replies
     \/ \E j \in DOMAIN replies : replies' = RemoveAt(replies, j) /\ UNCHANGED commands
  /\ UNCHANGED <<pending, device, answered, orderly, sentVars>>

Next ==
  \/ \E c \in Requests : SendCommand(c)
  \/ ClockTick \/ DueRetries \/ Lose
  \/ \E j \in DOMAIN commands, copied \in BOOLEAN : DeliverCommand(j, copied)
  \/ \E j \in DOMAIN replies, copied \in BOOLEAN : DeliverReply(j, copied)

Spec == Init /\ [][Next]_vars

-----------------------------------------------------------------------------
(* No command is forgotten: until its own reply has arrived it is pending, *)
(* although the table is keyed by an id and track_sent replaces an entry   *)
(* that has the same one.                                                  *)
NothingForgotten ==
  \A k \in DOMAIN sent : k \in answered \/ \E i \in DOMAIN pending : pending[i].command = k

(* A command may be executed several times.  Used for one command at a     *)
(* time, on a network that does not reorder, the table hides that: when    *)
(* nothing is pending the wheel is as if each command had been executed    *)
(* once, in order, and stays so while repetitions still arrive.            *)
AsIfOnce == orderly /\ alone /\ pending = <<>> => device = once
=============================================================================
